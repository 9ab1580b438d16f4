------------------------------ MODULE Protocol ------------------------------
(***************************************************************************)
(* Flow control between netius.base.protocol.StreamProtocol, the           *)
(* TransportStream of base/transport.py and the connection below it.  The  *)
(* transport listens to the changes of the connection's queue and pauses   *)
(* the protocol above the high mark, resumes it below the low one; a paused *)
(* protocol keeps what it is given in a list of its own.                   *)
(*                                                                         *)
(* All of it runs on the thread of the loop, by calls inside calls: what a *)
(* resume writes may be sent, and resume again, before the first call is   *)
(* over.  The stack is the stack of the calls under way:                   *)
(*   "ready"    on_write() of the connection after the connect             *)
(*   "opened"   the code of the user at the opening of the protocol        *)
(*   "send"     the loop of _send() of the connection                      *)
(*   "flush"    the loop of _flush_send() of the protocol                  *)
(*   a message  send() of the protocol, in the write of that message       *)
(* What the connection does with its queue is abstract here (the module    *)
(* Connection has it): the socket takes units of the first message, or none. *)
(***************************************************************************)
EXTENDS Integers, FiniteSets, SequencesExt

CONSTANTS Messages,     \* each is sent at most once
          Silent,       \* those that are sent without a callback
          Size,         \* bytes of each
          High, Low,    \* max_pending and min_pending of the connection
          Kinds,        \* "http": HTTPProtocol, that flushes when it opens;
                        \* "raw": StreamProtocol, that does not
          Early         \* those that are given data before the connection

ASSUME SizeAssumption == Size \in [Messages -> Nat \ {0}]
ASSUME MarksAssumption == High \in Nat /\ Low \in 0 .. High
ASSUME SilentAssumption == Silent \subseteq Messages
ASSUME NamesAssumption ==
    {"ready", "opened", "send", "flush"} \cap Messages = {}
ASSUME KindsAssumption ==
    Kinds \subseteq {"http", "raw"} /\ Early \subseteq Kinds

VARIABLES
    kind,        \* of the protocol
    phase,       \* of the protocol: _open, _closing, _closed
    writing,     \* `_writing`
    keptSends,   \* `_delayed`, messages
    callbacks,   \* `_callbacks`, the messages they belong to
    calls,       \* callbacks in the queue of the loop
    lost,        \* connection_lost() is there
    finishing,   \* finish() is there
    conn,        \* the connection, as the transport sees it
    exhausted,   \* `_exhausted` of the transport
    queue,       \* bytes left of each message in the connection
    pendingS,    \* `pending_s` of the connection
    wready,      \* the socket of the connection took all it was given
    stack,
    submitted, entered, called  \* history: the messages send() was given, that
                                \* entered the connection, whose callback ran

protocol == <<phase, writing, keptSends, callbacks>>
loop == <<calls, lost, finishing>>
connection == <<conn, queue, pendingS, wready>>
history == <<submitted, entered, called>>
protocolVars == <<kind, protocol, loop, connection, exhausted, stack, history>>

ProtocolTypeOK ==
    /\ kind \in Kinds
    /\ phase \in {"pending", "open", "closing", "closed"}
    /\ writing \in BOOLEAN
    /\ keptSends \in Seq(Messages) /\ callbacks \in Seq(Messages)
    /\ calls \in Seq(Messages)
    /\ lost \in BOOLEAN /\ finishing \in BOOLEAN
    /\ conn \in {"pending", "open", "closed"}
    /\ exhausted \in BOOLEAN
    /\ queue \in Seq(Nat \ {0}) /\ pendingS \in Nat /\ wready \in BOOLEAN
    /\ stack \in Seq({"ready", "opened", "send", "flush"} \cup Messages)
    /\ submitted \in Seq(Messages) /\ entered \in Seq(Messages)
    /\ called \in Seq(Messages)

ProtocolInit ==
    /\ kind \in Kinds
    /\ phase = "pending" /\ writing = TRUE
    /\ keptSends = <<>> /\ callbacks = <<>>
    /\ calls = <<>> /\ lost = FALSE /\ finishing = FALSE
    /\ conn = "pending" /\ exhausted = FALSE
    /\ queue = <<>> /\ pendingS = 0 /\ wready = FALSE
    /\ stack = <<>>
    /\ submitted = <<>> /\ entered = <<>> /\ called = <<>>

Top == Last(stack)
Runs(what) == stack # <<>> /\ Top = what
Idle == stack = <<>>

-----------------------------------------------------------------------------
(* The transport between the two: _handle_flow().                          *)

Exhausts(p) == ~exhausted /\ p > High

Restores(p) == exhausted /\ p <= Low

\* the delayed calls of one _flush_callbacks() share the variable of its loop:
\* each of them calls the last callback
Deferred == [i \in DOMAIN callbacks |-> Last(callbacks)]

\* mutant of HandleFlow: the protocol is not told that it may write again
FlowDeaf(p, calling) ==
    /\ exhausted' = ((exhausted \/ Exhausts(p)) /\ ~Restores(p))
    /\ writing' = (writing /\ ~Exhausts(p))
    /\ stack' = calling
    /\ UNCHANGED <<calls, callbacks>>

\* `p` bytes are pending, and `calling` is the stack of what called
HandleFlow(p, calling) ==
    IF Restores(p)
    THEN /\ exhausted' = FALSE /\ writing' = TRUE
         /\ calls' = calls \o Deferred /\ callbacks' = <<>>
         /\ stack' = Append(calling, "flush")
    ELSE /\ exhausted' = (exhausted \/ Exhausts(p))
         /\ writing' = (writing /\ ~Exhausts(p))
         /\ stack' = calling
         /\ UNCHANGED <<calls, callbacks>>

\* write() of the transport, for send() of the protocol: send(delay=False) of
\* the connection pends the message and enters _send() if the socket is ready.
\* A transport whose connection is gone drops the data.
TransportWrite(m, caller) ==
    IF conn = "open"
    THEN /\ queue' = Append(queue, Size[m])
         /\ pendingS' = pendingS + Size[m]
         /\ entered' = Append(entered, m)
         /\ HandleFlow(pendingS + Size[m],
                       caller \o (IF wready THEN <<m, "send">> ELSE <<m>>))
    ELSE /\ stack' = Append(caller, m)
         /\ UNCHANGED <<queue, pendingS, entered, exhausted, writing, calls,
                        callbacks>>

-----------------------------------------------------------------------------
(* The protocol.                                                           *)

\* send(): kept before there is a transport and while it is paused, else
\* written.  What the opening writes goes before what was kept.
Send(m) ==
    /\ Idle \/ Runs("opened")
    /\ phase \in {"pending", "open"} /\ (kind \in Early \/ conn # "pending")
    /\ m \notin Range(submitted)
    /\ IF conn = "pending" \/ ~writing
       THEN /\ keptSends' = Append(keptSends, m)
            /\ UNCHANGED <<queue, pendingS, entered, exhausted, writing, calls,
                           callbacks, stack>>
       ELSE TransportWrite(m, stack) /\ UNCHANGED keptSends
    /\ submitted' = IF Runs("opened") /\ writing
                    THEN entered \o <<m>> \o keptSends
                    ELSE Append(submitted, m)
    /\ UNCHANGED <<phase, lost, finishing, conn, wready, called, kind>>

\* the end of send(): written, and the callback is called soon, or kept until
\* the protocol is resumed
SendEnd ==
    /\ stack # <<>> /\ Top \in Messages
    /\ calls' = IF Top \notin Silent /\ writing THEN Append(calls, Top)
                                               ELSE calls
    /\ callbacks' = IF Top \in Silent \/ writing THEN callbacks
                    ELSE Append(callbacks, Top)
    /\ stack' = Front(stack)
    /\ UNCHANGED <<phase, writing, keptSends, lost, finishing, connection,
                   exhausted, history, kind>>

\* mutant of Flush: what was kept last goes first
FlushLast ==
    /\ Runs("flush")
    /\ IF keptSends # <<>> /\ writing
       THEN /\ keptSends' = Front(keptSends)
            /\ TransportWrite(Last(keptSends), stack)
       ELSE /\ stack' = Front(stack)
            /\ UNCHANGED <<keptSends, queue, pendingS, entered, exhausted,
                           writing, calls, callbacks>>
    /\ UNCHANGED <<phase, lost, finishing, conn, wready, submitted, called,
                   kind>>

\* a round of _flush_send()
Flush ==
    /\ Runs("flush")
    /\ IF keptSends # <<>> /\ writing
       THEN /\ keptSends' = Tail(keptSends)
            /\ TransportWrite(Head(keptSends), stack)
       ELSE /\ stack' = Front(stack)
            /\ UNCHANGED <<keptSends, queue, pendingS, entered, exhausted,
                           writing, calls, callbacks>>
    /\ UNCHANGED <<phase, lost, finishing, conn, wready, submitted, called,
                   kind>>

\* the loop calls a callback, with the transport or with none
Call(i) ==
    /\ Idle /\ i \in DOMAIN calls
    /\ called' = Append(called, calls[i])
    /\ calls' = RemoveAt(calls, i)
    /\ UNCHANGED <<protocol, lost, finishing, connection, exhausted, stack,
                   submitted, entered, kind>>

-----------------------------------------------------------------------------
(* Opening and closing.                                                    *)

\* the connection is made, unless the protocol was closed meanwhile
ConnectionMade ==
    /\ Idle /\ conn = "pending"
    /\ IF phase = "pending"
       THEN phase' = "open" /\ conn' = "open" /\ stack' = <<"ready", "opened">>
       ELSE conn' = "closed" /\ UNCHANGED <<phase, stack>>
    /\ UNCHANGED <<writing, keptSends, callbacks, loop, queue, pendingS,
                   wready, exhausted, history, kind>>

\* the code of the user at the opening ends; HTTPProtocol then flushes
Opened ==
    /\ Runs("opened")
    /\ stack' = IF kind = "http" THEN Append(Front(stack), "flush")
                               ELSE Front(stack)
    /\ UNCHANGED <<protocol, loop, connection, exhausted, history, kind>>

\* close() of the protocol aborts the connection; both ends go on in the loop
CloseProtocol ==
    /\ Idle /\ phase \in {"pending", "open"}
    /\ phase' = "closing" /\ finishing' = TRUE
    /\ IF conn = "open"
       THEN /\ conn' = "closed" /\ queue' = <<>> /\ pendingS' = 0
            /\ wready' = FALSE /\ exhausted' = FALSE /\ lost' = TRUE
       ELSE UNCHANGED <<conn, queue, pendingS, wready, exhausted, lost>>
    /\ UNCHANGED <<writing, keptSends, callbacks, calls, stack, history, kind>>

\* the connection closes below: its transport tells the protocol later
Disconnected ==
    /\ Idle /\ conn = "open"
    /\ conn' = "closed" /\ queue' = <<>> /\ pendingS' = 0
    /\ wready' = FALSE /\ exhausted' = FALSE /\ lost' = TRUE
    /\ UNCHANGED <<protocol, calls, finishing, stack, history, kind>>

ConnectionLost ==
    /\ Idle /\ lost
    /\ lost' = FALSE
    /\ IF phase \in {"pending", "open"}
       THEN phase' = "closing" /\ finishing' = TRUE
       ELSE UNCHANGED <<phase, finishing>>
    /\ UNCHANGED <<writing, keptSends, callbacks, calls, connection, exhausted,
                   stack, history, kind>>

Finish ==
    /\ Idle /\ finishing
    /\ finishing' = FALSE
    /\ IF phase = "closing"
       THEN /\ phase' = "closed" /\ writing' = TRUE
            /\ keptSends' = <<>> /\ callbacks' = <<>>
       ELSE UNCHANGED protocol
    /\ UNCHANGED <<calls, lost, connection, exhausted, stack, history, kind>>

-----------------------------------------------------------------------------
(* The connection: _send().                                                *)

\* the poll, or the end of the connect, finds the socket ready
WriteEvent ==
    /\ conn = "open"
    /\ \/ Idle /\ ~wready /\ queue # <<>> /\ stack' = <<"send">>
       \/ Runs("ready") /\ stack' = Append(Front(stack), "send")
    /\ wready' = TRUE
    /\ UNCHANGED <<protocol, loop, conn, queue, pendingS, exhausted, history,
                   kind>>

\* the socket takes k bytes of the first message
Take(k) ==
    /\ Runs("send") /\ queue # <<>>
    /\ k <= Head(queue)
    /\ queue' = IF k = Head(queue) THEN Tail(queue)
                                   ELSE <<Head(queue) - k>> \o Tail(queue)
    /\ pendingS' = pendingS - k
    /\ HandleFlow(pendingS - k, stack)
    /\ UNCHANGED <<phase, keptSends, lost, finishing, conn, wready, history,
                   kind>>

\* it takes no more, or there is no more
SendStops ==
    /\ Runs("send")
    /\ wready' = (queue = <<>>)
    /\ stack' = Front(stack)
    /\ UNCHANGED <<protocol, loop, conn, queue, pendingS, exhausted, history,
                   kind>>

-----------------------------------------------------------------------------
Sizes == {Size[m] : m \in Messages}
TakeSome == \E s \in Sizes : \E k \in 1 .. s : Take(k)

ProtocolNext ==
    \/ \E m \in Messages : Send(m)
    \/ SendEnd \/ Flush
    \/ \E i \in DOMAIN calls : Call(i)
    \/ ConnectionMade \/ Opened
    \/ CloseProtocol \/ Disconnected \/ ConnectionLost \/ Finish
    \/ WriteEvent \/ TakeSome \/ SendStops

ProtocolSpec == ProtocolInit /\ [][ProtocolNext]_protocolVars

-----------------------------------------------------------------------------
(* Properties.                                                             *)

\* What is sent enters the connection once and in the order it was sent, over
\* pauses, resumes and writes inside writes; what has not entered is kept
\* (send(), _flush_send(), _handle_flow()).
InOrder ==
    IF conn = "open" THEN entered \o keptSends = submitted
    ELSE IsPrefix(entered, submitted)

\* A paused protocol is resumed: it is paused only while so much is in the
\* connection that the drain of it will pass the low mark, and what it keeps it
\* keeps for that (pause_writing(), resume_writing(), _handle_flow()).
ResumeToCome ==
    Idle /\ conn = "open" =>
        /\ writing = ~exhausted
        /\ exhausted => pendingS > Low
        /\ writing => keptSends = <<>>

\* The connection never holds more than the high mark and one message.
Bounded == pendingS > High => \E m \in Messages : pendingS <= High + Size[m]

\* The callback of each message is called once, or yet to be called (send(),
\* _flush_callbacks()), as long as the protocol is not closed.
Times(m, s) == Cardinality({i \in DOMAIN s : s[i] = m})
CalledOnce ==
    phase = "open" =>
        \A m \in Range(submitted) \ Silent :
            Times(m, called) + Times(m, calls) + Times(m, callbacks)
            + Times(m, keptSends) + Times(m, stack) = 1

\* What a protocol keeps for later, because it is paused or not open yet, goes
\* out in the end, or the protocol or the connection is closed (_delayed,
\* _flush_send()).
EventuallyEntered ==
    keptSends # <<>> ~> keptSends = <<>> \/ conn = "closed" \/ phase = "closing"

\* What is sent stays in order, bounded, and has its resume to come.
ProtocolSafety == ProtocolTypeOK /\ InOrder /\ ResumeToCome /\ Bounded
=============================================================================
