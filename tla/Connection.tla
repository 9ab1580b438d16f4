----------------------------- MODULE Connection -----------------------------
(***************************************************************************)
(* The sending side of netius.base.conn.BaseConnection: the queue of       *)
(* pending data, the flag that says the socket takes more, the poll that   *)
(* tells when it does again, and the send buffer of the kernel behind it.  *)
(*                                                                         *)
(* _send() calls the code of its user (the listeners of "unpend", the      *)
(* callback of a send) between two writes, and that code may send, close   *)
(* or flush again: the stack holds one element for each _send() under way. *)
(* A message is its number of units; the socket takes them one or more at  *)
(* a time.  Closing is the None that close(flush=True) puts in the queue.  *)
(***************************************************************************)
EXTENDS Integers, Sequences, SequencesExt

CONSTANTS Messages,  \* each is sent at most once
          Size,      \* units of each message
          Closing,   \* the empty data of close_flush()
          Connect,   \* on the stack: the end of a connect, before its _send()
          None,
          Capacity,  \* units the send buffer of the kernel holds
          Polls,     \* "edge": epoll or kqueue, one edge-triggered
                     \* registration; "level": select, one per kind
          Foreign,   \* the messages another thread may send
          Disables,  \* the polls with which the user calls disable_read()
          Faults,    \* TRUE: the socket and the code of the user may fail
          MaxDepth   \* bound: _send() inside _send()

ASSUME SizeAssumption == Size \in [Messages -> Nat]
ASSUME NamesAssumption ==
    /\ Closing \notin Messages /\ Connect \notin Messages \cup {Closing}
    /\ None \notin Messages \cup {Closing, Connect}
ASSUME CapacityAssumption == Capacity \in Nat \ {0}
ASSUME DepthAssumption == MaxDepth \in Nat \ {0}
ASSUME PollsAssumption ==
    Polls \subseteq {"edge", "level"} /\ Disables \subseteq Polls
ASSUME ForeignAssumption == Foreign \subseteq Messages
ASSUME FaultsAssumption == Faults \in BOOLEAN

VARIABLES
    poll,        \* of the loop, chosen when it is built
    status, connecting, wready, renable,   \* flags of the connection
    pending,     \* the queue, first to be sent first
    pendingS,    \* `pending_s`, the bytes the queue is said to hold
    reads,       \* subscribed for reading (and with Edge for all events)
    writes,      \* subscribed for writing (without Edge)
    flushes,     \* `_flush_write` is in the queue of delayed calls
    ensures,     \* how many times `ensure_write` is there
    linked,      \* the kernel has established the connection
    full,        \* units in the send buffer of the kernel
    nospace,     \* the kernel refused data, and owes an event
    edge,        \* an edge-triggered write event waits for the poll
    stack,       \* what each _send() under way has yet to call
    mode,        \* the thread of the loop is in the code of the user, or
                 \* in the loop of the innermost _send()
    tpc, tmsg, tsize,  \* the other thread, in send()
    \* history, not in the code:
    offered,     \* the units in the order their messages entered the queue
    ends,        \* of each message, where it ends there, -1 before it enters
    wire,        \* the units in the order the socket took them
    done,        \* the messages whose callback was called
    flushed,     \* closed by the callback of close_flush()
    raced        \* the other thread wrote over a newer `pending_s`, or
                 \* counted what a close had dropped

queue == <<pending, pendingS>>
flags == <<status, connecting, wready, renable>>
subs == <<reads, writes>>
delays == <<flushes, ensures>>
kernel == <<linked, full, nospace, edge>>
control == <<stack, mode>>
thread == <<tpc, tmsg, tsize>>
history == <<offered, ends, wire, done, flushed, raced>>
connectionVars == <<poll, flags, queue, subs, delays, kernel, control, thread, history>>

Ids == Messages \cup {Closing}
Edge == poll = "edge"
Length(id) == IF id = Closing THEN 0 ELSE Size[id]
Units(id, n) == [i \in 1 .. n |-> id]

ConnectionType ==
    /\ poll \in Polls
    /\ status \in {"pending", "open", "closed"}
    /\ connecting \in BOOLEAN /\ wready \in BOOLEAN /\ renable \in BOOLEAN
    /\ pending \in Seq([id: Ids, left: Nat])
    /\ pendingS \in (IF raced \/ tpc # "idle" THEN Int ELSE Nat)
    /\ reads \in BOOLEAN /\ writes \in BOOLEAN
    /\ flushes \in BOOLEAN /\ ensures \in Nat
    /\ linked \in BOOLEAN /\ full \in 0 .. Capacity
    /\ nospace \in BOOLEAN /\ edge \in BOOLEAN
    /\ stack \in Seq(Ids \cup {None, Connect}) /\ Len(stack) <= MaxDepth
    /\ mode \in {"user", "loop"}
    /\ tpc \in {"idle", "append", "read", "write", "wake", "flush", "ensure"}
    /\ tmsg \in Messages \cup {None} /\ tsize \in Int
    /\ offered \in Seq(Messages) /\ ends \in [Ids -> Nat \cup {-1}]
    /\ wire \in Seq(Messages) /\ done \in Seq(Ids)
    /\ flushed \in BOOLEAN /\ raced \in BOOLEAN

ConnectionInit ==
    /\ poll \in Polls
    /\ status = "pending" /\ connecting = FALSE
    /\ wready = FALSE /\ renable = TRUE
    /\ pending = <<>> /\ pendingS = 0
    /\ reads = FALSE /\ writes = FALSE
    /\ flushes = FALSE /\ ensures = 0
    /\ linked = FALSE /\ full = 0 /\ nospace = FALSE /\ edge = FALSE
    /\ stack = <<>> /\ mode = "user"
    /\ tpc = "idle" /\ tmsg = None /\ tsize = 0
    /\ offered = <<>> /\ ends = [id \in Ids |-> -1]
    /\ wire = <<>> /\ done = <<>> /\ flushed = FALSE /\ raced = FALSE

\* the thread of the loop executes code of the user: a handler of its own
\* (empty stack), or one that _send() or the end of the connect called
User == mode = "user"

Top == Last(stack)
Owes(what) == stack' = Append(Front(stack), what)

\* the poll knows the socket for writing
IsSubWrite == IF Edge THEN reads ELSE writes

\* sub_write() and unsub_write(): nothing with epoll
SubWrite == writes' = ~Edge
UnsubWrite == writes' = FALSE

\* the socket takes data
Writable == linked /\ full < Capacity

-----------------------------------------------------------------------------
(* Opening, the connect, and closing.                                      *)

\* open(): with connect the socket is not yet connected, and ensure_write()
\* subscribes it for the event that will tell.  The code that accepts a
\* connection opens it before its user sees it.
Open(connect) ==
    /\ status = "pending" /\ User
    /\ connect \/ pending = <<>>
    /\ status' = "open" /\ connecting' = connect
    /\ reads' = TRUE
    /\ IF connect THEN SubWrite ELSE UNCHANGED writes
    /\ linked' = ~connect /\ edge' = (Edge /\ ~connect)
    /\ UNCHANGED <<wready, renable, queue, delays, full, nospace, control,
                   thread, history, poll>>

\* the kernel completes the connect
Connected ==
    /\ status = "open" /\ ~linked
    /\ linked' = TRUE /\ edge' = (Edge /\ reads)
    /\ UNCHANGED <<flags, queue, subs, delays, full, nospace, control, thread,
                   history, poll>>

\* close(), all of it on the thread of the loop; twice does nothing
CloseNow ==
    IF status = "closed"
    THEN UNCHANGED <<status, connecting, wready, queue, subs, nospace, edge>>
    ELSE /\ status' = "closed"
         /\ connecting' = FALSE /\ wready' = FALSE
         /\ pending' = <<>> /\ pendingS' = 0
         /\ reads' = FALSE /\ writes' = FALSE
         /\ edge' = FALSE /\ nospace' = FALSE

Close ==
    /\ User /\ status # "closed"
    /\ CloseNow
    /\ UNCHANGED <<renable, delays, linked, full, control, thread, history,
                   poll>>

-----------------------------------------------------------------------------
(* Sending, on the thread of the loop.                                     *)

\* append, of the queue, the message that was not in it
Fresh(id) == ends[id] = -1
Enter(id) ==
    /\ pending' = Append(pending, [id |-> id, left |-> Length(id)])
    /\ offered' = offered \o Units(id, Length(id))
    /\ ends' = [ends EXCEPT ![id] = Len(offered) + Length(id)]

\* pend()
Pend(id) == Enter(id) /\ pendingS' = pendingS + Length(id)

\* _flush_write(), or the event of the poll: on_write() enters _send(), after
\* the end of the connect if one is under way (_connectf(), set_connected())
OnWrite ==
    /\ Len(stack) < MaxDepth
    /\ IF connecting
       THEN /\ connecting' = FALSE /\ UnsubWrite
            /\ stack' = Append(stack, Connect)
            /\ UNCHANGED <<wready, mode>>
       ELSE /\ wready' = TRUE /\ mode' = "loop"
            /\ stack' = Append(stack, None)
            /\ UNCHANGED <<connecting, writes>>
    /\ UNCHANGED <<status, renable, reads>>

\* mutant of EnsureWrite: it does not subscribe
EnsureWriteNot ==
    IF wready THEN OnWrite ELSE UNCHANGED <<flags, subs, control>>

\* ensure_write(), with its flush
EnsureWrite ==
    IF wready
    THEN OnWrite
    ELSE /\ IF IsSubWrite THEN UNCHANGED writes ELSE SubWrite
         /\ UNCHANGED <<flags, reads, control>>

\* send() once the message is pended
Wake(delay) ==
    IF wready /\ delay
    THEN /\ flushes' = TRUE
         /\ UNCHANGED <<flags, subs, control>>
    ELSE EnsureWrite /\ UNCHANGED flushes

\* send(): the delayed flush is verified, so one is queued at most
Send(m, delay) ==
    /\ User /\ status = "open"
    /\ Fresh(m) /\ m # tmsg
    /\ Pend(m)
    /\ Wake(delay)
    /\ UNCHANGED <<ensures, kernel, thread, wire, done, flushed, raced, poll>>

\* send(force=True) of a client that writes ahead of its connect
SendAhead(m) ==
    /\ User /\ status = "pending"
    /\ Fresh(m) /\ m # tmsg
    /\ Pend(m)
    /\ UNCHANGED <<flags, subs, delays, kernel, control, thread, wire, done,
                   flushed, raced, poll>>

\* mutant of CloseFlush: the empty data is pended at the front
CloseFlushFront ==
    /\ User /\ status = "open" /\ ~connecting
    /\ Fresh(Closing)
    /\ pending' = <<[id |-> Closing, left |-> 0]>> \o pending
    /\ ends' = [ends EXCEPT ![Closing] = Len(offered)]
    /\ Wake(TRUE)
    /\ UNCHANGED <<pendingS, ensures, kernel, thread, offered, wire, done,
                   flushed, raced, poll>>

\* close(flush=True); a second one while the first is in the queue is left out
CloseFlush ==
    /\ User /\ status = "open" /\ ~connecting
    /\ Fresh(Closing)
    /\ Pend(Closing)
    /\ Wake(TRUE)
    /\ UNCHANGED <<ensures, kernel, thread, wire, done, flushed, raced, poll>>

EnableRead ==
    /\ User /\ status = "open" /\ ~renable
    /\ renable' = TRUE /\ reads' = TRUE
    /\ edge' = (edge \/ (Edge /\ ~reads /\ Writable))
    /\ UNCHANGED <<status, connecting, wready, queue, writes, delays, linked,
                   full, nospace, control, thread, history, poll>>

\* the only registration of epoll goes, with the event it may hold
DisableRead ==
    /\ poll \in Disables
    /\ User /\ status = "open" /\ renable
    /\ renable' = FALSE /\ reads' = FALSE
    /\ edge' = FALSE
    /\ UNCHANGED <<status, connecting, wready, queue, writes, delays, linked,
                   full, nospace, control, thread, history, poll>>

-----------------------------------------------------------------------------
(* What the loop calls.                                                    *)

WriteEvent == IF Edge THEN edge ELSE writes /\ Writable

PollWrite ==
    /\ status = "open" /\ stack = <<>> /\ WriteEvent
    /\ edge' = FALSE
    /\ OnWrite
    /\ UNCHANGED <<queue, delays, linked, full, nospace, thread, history,
                   poll>>

DelayedFlush ==
    /\ flushes /\ stack = <<>>
    /\ flushes' = FALSE
    /\ IF status = "open" THEN OnWrite ELSE UNCHANGED <<flags, subs, control>>
    /\ UNCHANGED <<queue, ensures, kernel, thread, history, poll>>

DelayedEnsure ==
    /\ ensures > 0 /\ stack = <<>>
    /\ ensures' = ensures - 1
    /\ IF status = "open" THEN EnsureWrite
       ELSE UNCHANGED <<flags, subs, control>>
    /\ UNCHANGED <<queue, flushes, kernel, thread, history, poll>>

-----------------------------------------------------------------------------
(* The loop of _send(), one round at a time.                               *)

First == Head(pending)

\* the socket takes k units of the first message.  What is left goes back to
\* the front; the listeners of "unpend" are called, then, if nothing is left,
\* the callback.  The empty data of close_flush() takes no call of the socket.
Transmit(k) ==
    /\ mode = "loop" /\ pending # <<>>
    /\ k <= First.left /\ (k = 0) = (First.left = 0)
    /\ k > 0 => status = "open" /\ full + k <= Capacity
    /\ full' = full + k
    /\ pendingS' = pendingS - k
    /\ IF k = First.left
       THEN pending' = Tail(pending) /\ Owes(First.id)
       ELSE /\ pending' = <<[First EXCEPT !.left = @ - k]>> \o Tail(pending)
            /\ Owes(None)
    /\ wire' = wire \o Units(First.id, k)
    /\ mode' = "user"
    /\ UNCHANGED <<flags, subs, delays, linked, nospace, edge, thread,
                   offered, ends, done, flushed, raced, poll>>

\* EWOULDBLOCK: the data goes back to the front, the poll will tell
Refused ==
    /\ mode = "loop" /\ pending # <<>>
    /\ First.left > 0 /\ status = "open" /\ full = Capacity
    /\ wready' = FALSE
    /\ IF IsSubWrite THEN UNCHANGED writes ELSE SubWrite
    /\ nospace' = TRUE
    /\ stack' = Front(stack) /\ mode' = "user"
    /\ UNCHANGED <<status, connecting, renable, queue, reads, delays, linked,
                   full, edge, thread, history, poll>>

\* nothing is left
Drained ==
    /\ mode = "loop" /\ pending = <<>>
    /\ IF status = "open" THEN UnsubWrite ELSE UNCHANGED writes
    /\ stack' = Front(stack) /\ mode' = "user"
    /\ UNCHANGED <<flags, queue, reads, delays, kernel, thread, history,
                   poll>>

\* the socket fails, a closed one at once: the data goes back to the front, and
\* on_write() closes
SocketFails ==
    /\ mode = "loop" /\ pending # <<>> /\ First.left > 0
    /\ Faults \/ status = "closed"
    /\ IF status = "closed"
       THEN /\ wready' = FALSE
            /\ UNCHANGED <<status, connecting, queue, subs, nospace, edge>>
       ELSE CloseNow
    /\ stack' = Front(stack) /\ mode' = "user"
    /\ UNCHANGED <<renable, delays, linked, full, thread, history, poll>>

\* code of the user that _send() called raises: on_write() closes
UserRaises ==
    /\ Faults /\ User /\ stack # <<>>
    /\ CloseNow
    /\ stack' = Front(stack)
    /\ UNCHANGED <<renable, delays, linked, full, mode, thread, history,
                   poll>>

\* the code of the user returns: to the _send() after the connect, even if
\* the connection was closed meanwhile, or to the next round
Return ==
    /\ User /\ stack # <<>> /\ Top \in {None, Connect}
    /\ IF Top = Connect THEN wready' = TRUE ELSE UNCHANGED wready
    /\ Owes(None) /\ mode' = "loop"
    /\ UNCHANGED <<status, connecting, renable, queue, subs, delays, kernel,
                   thread, history, poll>>

\* the listeners of "unpend" return, and the callback begins: one of the user,
\* or the one of close_flush() that closes
Callback ==
    /\ User /\ stack # <<>> /\ Top \in Ids
    /\ Owes(None)
    /\ done' = Append(done, Top)
    /\ IF Top = Closing
       THEN CloseNow /\ flushed' = (flushed \/ status = "open")
       ELSE UNCHANGED <<status, connecting, wready, queue, subs, nospace, edge,
                        flushed>>
    /\ UNCHANGED <<renable, delays, linked, full, mode, thread, offered, ends,
                   wire, raced, poll>>

-----------------------------------------------------------------------------
(* The peer, and another thread in send().                                 *)

\* the peer reads; the kernel raises the event it owes if there is someone to
\* tell
PeerReads(k) ==
    /\ k <= full
    /\ full' = full - k
    /\ nospace' = FALSE
    /\ edge' = (edge \/ (Edge /\ reads /\ nospace))
    /\ UNCHANGED <<flags, queue, subs, delays, linked, control, thread,
                   history, poll>>

\* _send() holds the lock of the queue until it returns, the rest of send()
\* takes none: not the test of the status, not the counter, not the flag
LockFree == \A i \in DOMAIN stack : stack[i] = Connect

ForeignSend(m) ==
    /\ m \in Foreign /\ tpc = "idle" /\ status = "open" /\ Fresh(m)
    /\ tmsg' = m /\ tpc' = "append"
    /\ UNCHANGED <<flags, queue, subs, delays, kernel, control, tsize,
                   history, poll>>

ForeignAppend ==
    /\ tpc = "append" /\ LockFree
    /\ Enter(tmsg)
    /\ tpc' = "read"
    /\ UNCHANGED <<flags, pendingS, subs, delays, kernel, control, tmsg,
                   tsize, wire, done, flushed, raced, poll>>

\* pending_s += data_l, read and written; the same in the loop is one step here
ForeignRead ==
    /\ tpc = "read"
    /\ tsize' = pendingS /\ tpc' = "write"
    /\ UNCHANGED <<flags, queue, subs, delays, kernel, control, tmsg, history,
                   poll>>

ForeignWrite ==
    /\ tpc = "write"
    /\ pendingS' = tsize + Size[tmsg] /\ tpc' = "wake"
    /\ raced' = (raced \/ pendingS # tsize \/ status = "closed")
    /\ UNCHANGED <<flags, pending, subs, delays, kernel, control, tmsg, tsize,
                   offered, ends, wire, done, flushed, poll>>

ForeignWake ==
    /\ tpc = "wake"
    /\ tpc' = (IF wready THEN "flush" ELSE "ensure")
    /\ UNCHANGED <<flags, queue, subs, delays, kernel, control, tmsg, tsize,
                   history, poll>>

\* a safe delay of _flush_write, or of ensure_write
ForeignDelay ==
    /\ \/ tpc = "flush" /\ flushes' = TRUE /\ UNCHANGED ensures
       \/ tpc = "ensure" /\ ensures' = ensures + 1 /\ UNCHANGED flushes
    /\ tpc' = "idle" /\ tmsg' = None
    /\ UNCHANGED <<flags, queue, subs, kernel, control, tsize, history, poll>>

-----------------------------------------------------------------------------
UserStep ==
    \/ \E connect \in BOOLEAN : Open(connect)
    \/ Close \/ CloseFlush \/ EnableRead \/ DisableRead
    \/ \E m \in Messages : SendAhead(m) \/ \E d \in BOOLEAN : Send(m, d)

LoopStep ==
    \/ PollWrite \/ DelayedFlush \/ DelayedEnsure
    \/ \E k \in 0 .. Capacity : Transmit(k)
    \/ Refused \/ SocketFails \/ Drained \/ Return \/ Callback

PeerStep == Connected \/ \E k \in 1 .. Capacity : PeerReads(k)

ForeignStep ==
    \/ ForeignAppend \/ ForeignRead \/ ForeignWrite \/ ForeignWake
    \/ ForeignDelay

ConnectionNext ==
    \/ UserStep \/ LoopStep \/ UserRaises \/ PeerStep \/ ForeignStep
    \/ \E m \in Messages : ForeignSend(m)


ConnectionSpec == ConnectionInit /\ [][ConnectionNext]_connectionVars

\* the loop, its callbacks and the peer go on: a cycle of the loop serves every
\* event and delayed call, and a peer that stops reading stops the connection
ConnectionFairness ==
    /\ WF_connectionVars(PollWrite) /\ WF_connectionVars(DelayedFlush)
    /\ WF_connectionVars(DelayedEnsure)
    /\ WF_connectionVars(\E k \in 0 .. Capacity : Transmit(k))
    /\ WF_connectionVars(Refused) /\ WF_connectionVars(Drained)
    /\ WF_connectionVars(Return) /\ WF_connectionVars(Callback)
    /\ WF_connectionVars(PeerStep) /\ WF_connectionVars(ForeignStep)

-----------------------------------------------------------------------------
(* Properties.                                                             *)

\* What send() accepted is on the wire or still in the queue, each unit once
\* and in the order it was accepted, over partial writes, refused writes and
\* _send() inside _send(): what is left of each message in the queue follows
\* what is before it.  A close drops a tail of it (_send(), pend()).
NothingLost ==
    /\ IsPrefix(wire, offered)
    /\ status # "closed" =>
          /\ \A i \in DOMAIN pending :
                ends[pending[i].id] - pending[i].left =
                    IF i = 1 THEN Len(wire) ELSE ends[pending[i - 1].id]
          /\ Len(offered) = IF pending = <<>> THEN Len(wire)
                           ELSE ends[Last(pending).id]

\* pending_s is the number of bytes in the queue, those that were accepted and
\* are not on the wire, whenever the other thread is not in send(), until that
\* thread has written over an update of the loop or counted what a close
\* dropped: the throttling of the proxies and the flow control of the
\* transports decide by it (pend(), _send(), close()).
Accounted ==
    tpc = "idle" /\ ~raced =>
        pendingS = IF pending = <<>> THEN 0 ELSE Len(offered) - Len(wire)

\* A callback is called once, when all of its data is with the socket, even if
\* the listeners or callbacks in between send, flush or close themselves (_send()).
CalledWhenSent ==
    /\ IsInjective(done)
    /\ \A i \in DOMAIN done :
          Length(done[i]) > 0 => ends[done[i]] \in Length(done[i]) .. Len(wire)

\* No callback is forgotten: while the connection is not closed, a message that
\* was accepted is in the queue, or sent and its callback called or owed by a
\* _send() under way.  A close drops those of the queue, and code of the user
\* that raises in _send() the one that was owed (_send(), close()).
NoneForgotten ==
    status # "closed" => \A id \in Ids : ~Fresh(id) =>
        \/ \E i \in DOMAIN pending : pending[i].id = id
        \/ \E i \in DOMAIN stack : stack[i] = id
        \/ \E i \in DOMAIN done : done[i] = id

\* Data is never left in the queue of an open connection with nobody to send
\* it: a flush is scheduled, or the poll will report the socket (send(),
\* ensure_write(), _send(), and the edge-triggered poll that reports once).
NeverStuck ==
    status = "open" /\ pending # <<>> /\ stack = <<>> /\ tpc = "idle" =>
        \/ flushes \/ ensures > 0
        \/ IF Edge THEN reads /\ (edge \/ nospace \/ ~linked) ELSE writes

\* close(flush=True) closes once everything accepted before it is with the
\* socket (close_flush(), _close_callback()).
FlushedBeforeClose == flushed => ends[Closing] \in 0 .. Len(wire)

\* What an open connection has accepted is sent, unless it is closed first: none
\* of it waits for ever.
Unsent ==
    status = "open" /\ \E m \in Messages : ends[m] > Len(wire)

\* The queue of a connection is whole, counted and on its way.
QueueSafety == ConnectionType /\ NothingLost /\ Accounted /\ NeverStuck

\* What is told to the user of a connection is true when it is told, and nothing
\* is left untold but by a close.
CallbackSafety == CalledWhenSent /\ NoneForgotten /\ FlushedBeforeClose
=============================================================================
