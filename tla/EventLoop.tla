----------------------------- MODULE EventLoop -----------------------------
(***************************************************************************)
(* The deferred-call core of netius.base.common.AbstractBase: the heap of  *)
(* delayed callables (`_delayed`), the list other threads append to        *)
(* (`_delayed_n`), the event notifications (`_events`, `_notified`) and    *)
(* the loop that serves them, one tick after the other, on its own thread. *)
(*                                                                         *)
(* One scheduling call, delay() or delay_s(), is one member of Requests:   *)
(* it stands for the tuple the code pushes, and for its `options` list.    *)
(* The heap is the SET of its entries: which of the entries of equal       *)
(* target is popped first is left open (heapq compares the targets only,   *)
(* see module DelayHeap for the order it really gives).  The delay of a    *)
(* call is a number: -1 is immediately, 0 the next tick, more a timeout.   *)
(***************************************************************************)
EXTENDS Integers, Sequences, FiniteSets

CONSTANTS Requests,    \* scheduling calls
          Callables,   \* what is scheduled, or bound to an event
          Verified,    \* the callables scheduled with verify=True
          Events,      \* names of wait_event() and notify()
          Delays,      \* the delays asked for, a subset of {-1, 0} and Nat
          LidModulus,  \* 2147483647 in ticks()
          Foreign,     \* TRUE: other threads call delay_s() and notify()
          Recycled,    \* the delays a finished request is scheduled again with
          Stopping,    \* TRUE: the loop may be stopped, paused, interrupted
          MaxTime,     \* bound: nothing is scheduled beyond this time
          MaxNotified  \* bound: notifications pending at a time

ASSUME RequestsAssumption == Requests # {}
ASSUME CallablesAssumption == Verified \subseteq Callables
ASSUME DelaysAssumption == Delays \subseteq {-1} \cup Nat
ASSUME RecycledAssumption == Recycled \subseteq Delays
ASSUME LidAssumption == LidModulus \in Nat /\ LidModulus > 1
ASSUME BoundsAssumption == MaxTime \in Nat /\ MaxNotified \in Nat
ASSUME SwitchesAssumption ==
    Foreign \in BOOLEAN /\ Stopping \in BOOLEAN

VARIABLES
    delayed,    \* the heap: the entries to be called
    delayedN,   \* the list delay_s() appends to and delay_m() merges
    pendings,   \* local of _delays(): popped, to be pushed back
    run,        \* options[0] of each request: FALSE once cancelled
    notified,   \* the notifications to be processed
    events,     \* the callables bound to each event, in order
    calling,    \* local of _notifies(): binds still to be called
    lid,        \* the loop (tick) identifier
    now,        \* the clock, time.time()
    current,    \* local of _delays(): the time the tick began to serve
    running,    \* the flag loop() tests
    pausing,    \* the flag finalize() tests
    merged,     \* iterator of delay_m(): elements already taken
    active,     \* the requests whose callable is executing (one or none)
    pc,         \* where the loop thread is
    \* history, not in the code:
    fate,       \* what became of each request
    fresh       \* the target 0 requests scheduled since the tick began

vars == <<delayed, delayedN, pendings, run, notified, events, calling, lid,
          now, current, running, pausing, merged, active, pc, fate, fresh>>

Fates == {"free", "next", "queued", "running", "ran", "cancelled",
          "duplicate", "lost", "dropped"}
Finished == {"ran", "cancelled", "duplicate", "lost", "dropped"}
Pcs == {"stopped", "tick", "merge", "clear", "begin", "delays", "notifying",
        "call", "bind", "check", "poll", "paused", "closing"}

\* the points at which the loop thread runs the code of its users: before
\* start(), in a delayed callable, in one bound to an event, in the handlers
\* of the sockets the poll returned, in the closing of the connections
Handlers == {"stopped", "call", "bind", "poll", "closing"}

Targets == {-1} \cup Nat
Entries == [req: Requests, target: Targets, callable: Callables,
            lid: 0 .. LidModulus - 1]
Items == [req: Requests, callable: Callables, delay: {-1} \cup Nat]

TypeOK ==
    /\ delayed \subseteq Entries
    /\ delayedN \in Seq(Items)
    /\ pendings \subseteq Entries
    /\ run \in [Requests -> BOOLEAN]
    /\ notified \in Seq(Events)
    /\ events \in [Events -> Seq(Callables)]
    /\ calling \in Seq(Callables)
    /\ lid \in 0 .. LidModulus - 1
    /\ now \in Nat /\ current \in Nat
    /\ running \in BOOLEAN /\ pausing \in BOOLEAN
    /\ merged \in 0 .. Len(delayedN)
    /\ active \subseteq Requests
    /\ pc \in Pcs
    /\ fate \in [Requests -> Fates]
    /\ fresh \subseteq Requests

Init ==
    /\ delayed = {} /\ delayedN = <<>> /\ pendings = {}
    /\ run = [r \in Requests |-> TRUE]
    /\ notified = <<>> /\ events = [e \in Events |-> <<>>] /\ calling = <<>>
    /\ lid = 0 /\ now = 1 /\ current = 0
    /\ running = FALSE /\ pausing = FALSE
    /\ merged = 0 /\ active = {} /\ pc = "stopped"
    /\ fate = [r \in Requests |-> "free"] /\ fresh = {}

-----------------------------------------------------------------------------
(* Scheduling.                                                             *)

Target(d) == IF d > 0 THEN now + d ELSE d

\* a request that may be the next call: each is one call, or, with Recycled,
\* the same few calls go on for ever
Free(r, d) == fate[r] = "free" \/ (d \in Recycled /\ fate[r] \in Finished)

\* mutant: the verify flag is forgotten
NeverDuplicate(c, d) == FALSE

\* the test of the verify flag, made on the copy of the heap without ids
IsDuplicate(c, d) ==
    c \in Verified /\ \E e \in delayed : e.target = Target(d) /\ e.callable = c

\* the body of delay(), run on the loop thread
Push(r, c, d) ==
    IF IsDuplicate(c, d)
    THEN /\ fate' = [fate EXCEPT ![r] = "duplicate"]
         /\ UNCHANGED <<delayed, run, fresh>>
    ELSE /\ delayed' = delayed \cup {[req |-> r, target |-> Target(d),
                                      callable |-> c, lid |-> lid]}
         /\ run' = [run EXCEPT ![r] = TRUE]
         /\ fresh' = IF d = 0 THEN fresh \cup {r} ELSE fresh \ {r}
         /\ fate' = [fate EXCEPT ![r] = "queued"]

Delay(r, c, d) ==
    /\ pc \in Handlers /\ Free(r, d) /\ now + d <= MaxTime
    /\ Push(r, c, d)
    /\ UNCHANGED <<delayedN, pendings, notified, events, calling, lid, now,
                   current, running, pausing, merged, active, pc>>

\* delay_s(), from another thread at any moment or from a handler: the append
\* is done under the lock `_delayed_l`, that no other method takes
DelayS(r, c, d) ==
    /\ Foreign \/ pc \in Handlers
    /\ Free(r, d) /\ now + d <= MaxTime
    /\ delayedN' = Append(delayedN, [req |-> r, callable |-> c, delay |-> d])
    /\ fate' = [fate EXCEPT ![r] = "next"]
    /\ UNCHANGED <<delayed, pendings, run, notified, events, calling, lid,
                   now, current, running, pausing, merged, active, pc, fresh>>

\* Handle.cancel(), on a request that was given a handle: delay() returns the
\* tuple of the entry it pushed, delay_s() returns none
Cancel(r) ==
    /\ pc \in Handlers /\ fate[r] = "queued" /\ run[r]
    /\ run' = [run EXCEPT ![r] = FALSE]
    /\ UNCHANGED <<delayed, delayedN, pendings, notified, events, calling,
                   lid, now, current, running, pausing, merged, active, pc,
                   fate, fresh>>

-----------------------------------------------------------------------------
(* Event notification.                                                     *)

WaitEvent(c, ev) ==
    /\ pc \in Handlers
    /\ \A i \in 1 .. Len(events[ev]) : events[ev][i] # c
    /\ events' = [events EXCEPT ![ev] = Append(@, c)]
    /\ UNCHANGED <<delayed, delayedN, pendings, run, notified, calling, lid,
                   now, current, running, pausing, merged, active, pc, fate,
                   fresh>>

UnwaitEvent(c, ev) ==
    /\ pc \in Handlers
    /\ \E i \in 1 .. Len(events[ev]) :
           /\ events[ev][i] = c
           /\ events' = [events EXCEPT ![ev] =
                            SubSeq(@, 1, i - 1) \o SubSeq(@, i + 1, Len(@))]
    /\ UNCHANGED <<delayed, delayedN, pendings, run, notified, calling, lid,
                   now, current, running, pausing, merged, active, pc, fate,
                   fresh>>

Notify(ev) ==
    /\ Foreign \/ pc \in Handlers
    /\ Len(notified) < MaxNotified
    /\ notified' = Append(notified, ev)
    /\ UNCHANGED <<delayed, delayedN, pendings, run, events, calling, lid,
                   now, current, running, pausing, merged, active, pc, fate,
                   fresh>>

-----------------------------------------------------------------------------
(* One tick: ticks(), delay_m() and _delays(), then the poll.              *)

\* mutant: the identifier is not taken modulo
TickNoWrap ==
    /\ pc = "tick"
    /\ lid' = lid + 1
    /\ fresh' = {} /\ merged' = 0
    /\ pc' = "merge"
    /\ UNCHANGED <<delayed, delayedN, pendings, run, notified, events,
                   calling, now, current, running, pausing, active, fate>>

\* mutant: the identifier stays the same
TickSameId ==
    /\ pc = "tick"
    /\ fresh' = {} /\ merged' = 0
    /\ pc' = "merge"
    /\ UNCHANGED <<delayed, delayedN, pendings, run, notified, events, lid,
                   calling, now, current, running, pausing, active, fate>>

Tick ==
    /\ pc = "tick"
    /\ lid' = (lid + 1) % LidModulus
    /\ fresh' = {} /\ merged' = 0
    /\ pc' = "merge"
    /\ UNCHANGED <<delayed, delayedN, pendings, run, notified, events,
                   calling, now, current, running, pausing, active, fate>>

\* one turn of the iteration of delay_m(): the iterator of a list reads it
\* live, so that it reaches what is appended while it runs
MergeNext ==
    /\ pc = "merge" /\ merged < Len(delayedN)
    /\ LET item == delayedN[merged + 1]
       IN  Push(item.req, item.callable, item.delay)
    /\ merged' = merged + 1
    /\ UNCHANGED <<delayedN, pendings, notified, events, calling, lid, now,
                   current, running, pausing, active, pc>>

MergeEnd ==
    /\ pc = "merge" /\ merged = Len(delayedN)
    /\ pc' = IF merged = 0 THEN "begin" ELSE "clear"
    /\ UNCHANGED <<delayed, delayedN, pendings, run, notified, events,
                   calling, lid, now, current, running, pausing, merged,
                   active, fate, fresh>>

\* the requests of the list that the iteration did not reach
Unmerged == {delayedN[i].req : i \in merged + 1 .. Len(delayedN)}

\* mutant: the list is not cleared
MergeKeep ==
    /\ pc = "clear"
    /\ merged' = 0
    /\ pc' = "begin"
    /\ UNCHANGED <<delayed, delayedN, pendings, run, notified, events, calling,
                   lid, now, current, running, pausing, active, fate, fresh>>

\* `del self._delayed_n[:]`, whatever the list holds by now
MergeClear ==
    /\ pc = "clear"
    /\ delayedN' = <<>> /\ merged' = 0
    /\ fate' = [r \in Requests |-> IF r \in Unmerged THEN "lost" ELSE fate[r]]
    /\ pc' = "begin"
    /\ UNCHANGED <<delayed, pendings, run, notified, events, calling, lid,
                   now, current, running, pausing, active, fresh>>

\* _delays() up to its loop: it returns when there is nothing to serve
Begin ==
    /\ pc = "begin"
    /\ IF delayed = {} /\ notified = <<>>
       THEN pc' = "check" /\ UNCHANGED current
       ELSE pc' = "delays" /\ current' = now
    /\ UNCHANGED <<delayed, delayedN, pendings, run, notified, events,
                   calling, lid, now, running, pausing, merged, active, fate,
                   fresh>>

\* _notifies(), that the loop runs before each pop
NotifiesPop ==
    /\ pc = "delays" /\ notified # <<>>
    /\ notified' = Tail(notified)
    /\ calling' = events[Head(notified)]
    /\ events' = [events EXCEPT ![Head(notified)] = <<>>]
    /\ pc' = "notifying"
    /\ UNCHANGED <<delayed, delayedN, pendings, run, lid, now, current,
                   running, pausing, merged, active, fate, fresh>>

NotifiesCall ==
    /\ pc = "notifying"
    /\ IF calling = <<>>
       THEN pc' = "delays" /\ UNCHANGED calling
       ELSE pc' = "bind" /\ calling' = Tail(calling)
    /\ UNCHANGED <<delayed, delayedN, pendings, run, notified, events, lid,
                   now, current, running, pausing, merged, active, fate,
                   fresh>>

BindReturn ==
    /\ pc = "bind"
    /\ pc' = "notifying"
    /\ UNCHANGED <<delayed, delayedN, pendings, run, notified, events,
                   calling, lid, now, current, running, pausing, merged,
                   active, fate, fresh>>

\* the entries heappop() may return
First == {e \in delayed : \A f \in delayed : e.target <= f.target}

\* mutant: the pending entries are forgotten
RestoreNone(heap, pending) ==
    /\ delayed' = heap
    /\ pendings' = {}
    /\ pc' = "check"

\* leaving the loop of _delays() pushes the pending entries back
Restore(heap, pending) ==
    /\ delayed' = heap \cup pending
    /\ pendings' = {}
    /\ pc' = "check"

\* a time that has not come ends the loop: the entries left are later still
PopNotDue(e) ==
    /\ e.target > current
    /\ Restore(delayed \ {e}, pendings \cup {e})
    /\ UNCHANGED <<active, fate>>

\* mutant: break in place of continue
BreakNextTick(e) ==
    /\ e.target = 0 /\ e.lid = lid
    /\ Restore(delayed \ {e}, pendings \cup {e})
    /\ UNCHANGED <<active, fate>>

\* scheduled for the next tick, and this is still the tick it was done in
PopNextTick(e) ==
    /\ e.target = 0 /\ e.lid = lid
    /\ delayed' = delayed \ {e} /\ pendings' = pendings \cup {e}
    /\ UNCHANGED <<active, fate, pc>>

\* mutant: the loop identifier is not looked at
PopSameTick(e) ==
    /\ e.target <= current
    /\ delayed' = delayed \ {e}
    /\ active' = {e.req} /\ pc' = "call"
    /\ fate' = [fate EXCEPT ![e.req] = "running"]
    /\ UNCHANGED pendings

PopDue(e) ==
    /\ e.target <= current
    /\ ~(e.target = 0 /\ e.lid = lid)
    /\ delayed' = delayed \ {e}
    /\ IF run[e.req]
       THEN /\ active' = {e.req} /\ pc' = "call"
            /\ fate' = [fate EXCEPT ![e.req] = "running"]
       ELSE /\ fate' = [fate EXCEPT ![e.req] = "cancelled"]
            /\ UNCHANGED <<active, pc>>
    /\ UNCHANGED pendings

Pop ==
    /\ pc = "delays" /\ notified = <<>>
    /\ \E e \in First : PopNotDue(e) \/ PopNextTick(e) \/ PopDue(e)
    /\ UNCHANGED <<delayedN, run, notified, events, calling, lid, now,
                   current, running, pausing, merged, fresh>>

DelaysEnd ==
    /\ pc = "delays" /\ notified = <<>> /\ delayed = {}
    /\ Restore({}, pendings)
    /\ UNCHANGED <<delayedN, run, notified, events, calling, lid, now,
                   current, running, pausing, merged, active, fate, fresh>>

\* the callable returns, or raises an exception that is logged and forgotten
CallReturn ==
    /\ pc = "call"
    /\ fate' = [r \in Requests |-> IF r \in active THEN "ran" ELSE fate[r]]
    /\ active' = {}
    /\ pc' = "delays"
    /\ UNCHANGED <<delayed, delayedN, pendings, run, notified, events,
                   calling, lid, now, current, running, pausing, merged,
                   fresh>>

\* the test of loop() after the ticks: go on to the poll
Continue ==
    /\ pc = "check" /\ running
    /\ pc' = "poll"
    /\ UNCHANGED <<delayed, delayedN, pendings, run, notified, events,
                   calling, lid, now, current, running, pausing, merged,
                   active, fate, fresh>>

PollReturn ==
    /\ pc = "poll"
    /\ pc' = "tick"
    /\ UNCHANGED <<delayed, delayedN, pendings, run, notified, events,
                   calling, lid, now, current, running, pausing, merged,
                   active, fate, fresh>>

-----------------------------------------------------------------------------
(* The life of the loop: start(), stop(), pause(), main(), cleanup().      *)

\* start() of a loop that is stopped, or of one that is paused: main()
Start ==
    /\ pc \in {"stopped", "paused"}
    /\ running' = TRUE /\ pausing' = FALSE
    /\ pc' = "tick"
    /\ UNCHANGED <<delayed, delayedN, pendings, run, notified, events,
                   calling, lid, now, current, merged, active, fate, fresh>>

\* cleanup(): what was scheduled is dropped, then the connections are closed
\* (their handlers run at "closing")
Cleanup ==
    /\ delayed' = {} /\ delayedN' = <<>> /\ pendings' = {}
    /\ notified' = <<>> /\ events' = [e \in Events |-> <<>>]
    /\ calling' = <<>> /\ merged' = 0 /\ active' = {} /\ fresh' = {}
    /\ fate' = [r \in Requests |->
                   CASE fate[r] \in {"next", "queued"} -> "dropped"
                     [] fate[r] = "running" -> "ran"
                     [] OTHER -> fate[r]]
    /\ running' = FALSE
    /\ pc' = "closing"
    /\ UNCHANGED <<run, lid, now, current, pausing>>

\* stop(), from a handler or another thread: a paused loop is finished on the
\* spot, a running one leaves its loop after the ticks
Stop ==
    /\ Stopping
    /\ \/ pc = "paused" /\ Cleanup
       \/ /\ running /\ (Foreign \/ pc \in Handlers)
          /\ running' = FALSE
          /\ UNCHANGED <<delayed, delayedN, pendings, run, notified, events,
                         calling, lid, now, current, pausing, merged, active,
                         pc, fate, fresh>>

Pause ==
    /\ Stopping /\ pc \in Handlers
    /\ running' = FALSE /\ pausing' = TRUE
    /\ UNCHANGED <<delayed, delayedN, pendings, run, notified, events,
                   calling, lid, now, current, merged, active, pc, fate,
                   fresh>>

\* loop() ends and finalize() tells a pause, kept for a later start(), from
\* the end of the service
Finalize ==
    /\ pc = "check" /\ ~running
    /\ IF pausing
       THEN /\ pc' = "paused"
            /\ UNCHANGED <<delayed, delayedN, pendings, run, notified, events,
                           calling, lid, now, current, running, pausing,
                           merged, active, fate, fresh>>
       ELSE Cleanup

\* an exception that _delays() does not catch: an interrupt or exit in a
\* delayed callable, any exception in one bound to an event (_notifies() is
\* called outside the try block) or in the handling of a poll
Abort == Stopping /\ pc \in {"call", "bind", "poll"} /\ Cleanup

Closed ==
    /\ pc = "closing"
    /\ pc' = "stopped"
    /\ UNCHANGED <<delayed, delayedN, pendings, run, notified, events,
                   calling, lid, now, current, running, pausing, merged,
                   active, fate, fresh>>

\* time passes; at the bound only as far as a timer still waits for it
Clock ==
    /\ now < MaxTime \/ \E e \in delayed : e.target > now
    /\ now' = now + 1
    /\ UNCHANGED <<delayed, delayedN, pendings, run, notified, events,
                   calling, lid, current, running, pausing, merged, active,
                   pc, fate, fresh>>

-----------------------------------------------------------------------------
Serve == \/ Tick \/ MergeNext \/ MergeEnd \/ MergeClear \/ Begin
         \/ NotifiesPop \/ NotifiesCall \/ Pop \/ DelaysEnd \/ Continue
         \/ Finalize \/ Closed

\* the code of the users returns
Return == BindReturn \/ CallReturn \/ PollReturn

Schedule == \E r \in Requests, c \in Callables, d \in Delays :
                Delay(r, c, d) \/ DelayS(r, c, d)

Bind == \E c \in Callables, ev \in Events :
            WaitEvent(c, ev) \/ UnwaitEvent(c, ev)

Next == \/ Serve \/ Return \/ Schedule \/ Bind
        \/ \E r \in Requests : Cancel(r)
        \/ \E ev \in Events : Notify(ev)
        \/ Start \/ Stop \/ Pause \/ Abort \/ Clock

Spec == Init /\ [][Next]_vars

\* the thread of the loop runs, what it calls returns, the clock advances,
\* and the owner of a loop that is not running starts it
LiveSpec == /\ Spec
            /\ WF_vars(Serve) /\ WF_vars(Return) /\ WF_vars(Start)
            /\ WF_vars(Clock)

-----------------------------------------------------------------------------
(* Properties.                                                             *)

\* where a request is while it waits to be called
Held == {e.req : e \in delayed \cup pendings}

\* An accepted request is never forgotten: until it is called, cancelled or
\* dropped by the end of the loop, delay_m() and the pendings of _delays()
\* hand it over without loss, and no call of delay_s() is lost in between.
NoLostRequest ==
    \A r \in Requests :
        /\ fate[r] # "lost"
        /\ fate[r] = "queued" => r \in Held
        /\ fate[r] = "next" => r \in Unmerged

\* Other threads can only lose a request in the gap between the end of the
\* merge and the clearing of the list: once in the heap it is never forgotten,
\* and before the merge ends nothing of the list is.
LostOnlyInMerge ==
    \A r \in Requests :
        /\ fate[r] = "queued" => r \in Held
        /\ fate[r] = "next" => r \in Unmerged

\* The heap and the pendings never hold the same scheduling call twice, so
\* that no callable runs twice for one delay().
HeldOnce ==
    /\ \A e, f \in delayed \cup pendings : e.req = f.req => e = f
    /\ delayed \cap pendings = {}
    /\ \A e \in delayed \cup pendings : fate[e.req] = "queued"

\* When the tick ends, all that was due has been called: what is left was
\* scheduled for the next tick in this one, or its time comes later, and no
\* notification of this thread waits for another tick.
TickDrains ==
    pc = "check" =>
        /\ pendings = {}
        /\ \A e \in delayed : \/ e.target > current
                              \/ e.target = 0 /\ e.req \in fresh
        /\ ~Foreign => notified = <<>>

\* Two pending calls of a callable scheduled immediately with verify=True, the
\* way Connection.send() schedules `_flush_write`, are never both in the heap.
OneFlush ==
    \A e, f \in delayed \cup pendings :
        /\ e.target = -1 /\ f.target = -1
        /\ e.callable = f.callable /\ e.callable \in Verified
        => e = f

Called(r) == r \in active' /\ r \notin active

\* A request is called in its turn: not if it was cancelled, wherever it then
\* was; not in the tick that scheduled it for the next one (by a handler, or
\* merged from another thread), whatever the loop identifier wraps around to;
\* and with a timeout not before it.
CalledInTurn ==
    [][\A r \in Requests : Called(r) =>
           /\ run[r] /\ r \notin fresh
           /\ \E e \in delayed : e.req = r /\ e.target <= now]_vars

\* What became of a request does not change any more: it is called once, and
\* not after it was dropped or found a duplicate.
FateIsFinal ==
    [][\A r \in Requests : fate[r] \in Finished => fate'[r] = fate[r]]_vars

\* Every scheduled request is called or cancelled in the end.
EventuallyServed ==
    \A r \in Requests :
        fate[r] \in {"next", "queued"} ~> fate[r] \in Finished

\* A tick that serves ends, and the sockets are polled, however often the callables
\* schedule themselves anew: _delays() defers "to avoid loops in calls".
PollsAgain == pc = "begin" ~> pc = "poll"

\* The loop goes on, for what is scheduled and for the sockets (start(), ticks()).
LoopGoes == EventuallyServed /\ PollsAgain

-----------------------------------------------------------------------------
(* The inductive invariant of the proofs (module EventLoopProofs).         *)

\* the points of a tick at which _delays() may hold pendings
Serving == {"delays", "notifying", "call", "bind"}

\* the list and the heap own each request once, in the phase of its fate
Ownership ==
    /\ LostOnlyInMerge
    /\ HeldOnce
    /\ \A i, j \in merged + 1 .. Len(delayedN) :
           /\ fate[delayedN[i].req] = "next"
           /\ delayedN[i].req = delayedN[j].req => i = j
    /\ \A r \in Requests : r \in active <=> fate[r] = "running"
    /\ pc # "call" => active = {}
    /\ merged # 0 => pc \in {"merge", "clear"}

\* the loop identifier tells the target 0 entries of this tick from those of
\* the tick before, which are the only others there can be
TickIds ==
    /\ \A e \in delayed \cup pendings :
           e.req \in fresh <=> e.target = 0 /\ e.lid = lid
    /\ \A e \in pendings : e.target = 0 /\ e.lid = lid
    /\ pendings # {} => pc \in Serving
    /\ pc \notin Serving \cup {"merge", "clear", "begin"} =>
           \A e \in delayed : e.target = 0 => e.lid = lid
    /\ current <= now /\ now > 0

IInv == TypeOK /\ Ownership /\ TickIds /\ TickDrains /\ OneFlush
=============================================================================
