----------------------------- MODULE DelayHeap ------------------------------
(***************************************************************************)
(* The two heaps of netius.base.common.AbstractBase that hold the delayed  *)
(* calls, as the lists they are, with the algorithms of heapq.  delay()    *)
(* pushes a call on both, with its identifier on `_delayed` and without it *)
(* on `_delayed_o`, where verify=True looks for it; _delays() pops both.   *)
(* Nothing but the algorithm, which sees only the targets, keeps the two   *)
(* in step.  The module Heapq has the algorithm, EventLoop the rest of the *)
(* loop.                                                                   *)
(***************************************************************************)
EXTENDS Heapq

CONSTANTS Callables,
          Verified,  \* those that are scheduled with verify=True
          Targets,   \* -1 immediately, 0 the next tick, more a time
          MaxHeld,   \* bound: calls held at a time
          MaxIds     \* bound: identifiers given before the heap is empty

ASSUME CallablesAssumption == Verified \subseteq Callables
ASSUME TargetsAssumption == Targets \subseteq {-1} \cup Nat
ASSUME BoundsAssumption == MaxHeld \in Nat /\ MaxIds \in Nat

VARIABLES
    delayed,        \* `_delayed`
    delayedO,       \* `_delayed_o`
    did,            \* `_did`, the next identifier
    lid,            \* the tick, modulo 2: the loop tells two ticks apart
    serving,        \* in the loop of _delays()
    current,        \* its time
    aside, asideO   \* its `pendings` and `pendings_o`

heapVars == <<delayed, delayedO, did, lid, serving, current, aside, asideO>>

Plain(call) == [target |-> call.target, callable |-> call.callable]
Elements(s) == {s[i] : i \in DOMAIN s}

HeapInit ==
    /\ delayed = <<>> /\ delayedO = <<>> /\ did = 0
    /\ lid = 0 /\ serving = FALSE /\ current = 0
    /\ aside = <<>> /\ asideO = <<>>

-----------------------------------------------------------------------------
IsDuplicate(o) == o.callable \in Verified /\ o \in Elements(delayedO)

\* delay(), before, between or inside the calls; a duplicate changes nothing
Delay(c, t) ==
    LET call == [target |-> t, did |-> did, callable |-> c, lid |-> lid]
    IN  /\ Len(delayed) + Len(aside) < MaxHeld /\ did < MaxIds
        /\ ~IsDuplicate(Plain(call))
        /\ delayed' = HeapPush(delayed, call)
        /\ delayedO' = HeapPush(delayedO, Plain(call))
        /\ did' = did + 1
        /\ UNCHANGED <<lid, serving, current, aside, asideO>>

\* a tick begins to serve, unless there is nothing to serve
Begin(time) ==
    /\ ~serving /\ time >= current
    /\ lid' = 1 - lid
    /\ IF delayed # <<>> THEN serving' = TRUE /\ current' = time
                         ELSE UNCHANGED <<serving, current>>
    /\ UNCHANGED <<delayed, delayedO, did, aside, asideO>>

\* the end of _delays(): what was set aside goes back
Restore(heap, heapO, calls, callsO) ==
    /\ delayed' = PushAll(heap, calls) /\ delayedO' = PushAll(heapO, callsO)
    /\ did' = IF delayed' = <<>> THEN 0 ELSE did
    /\ aside' = <<>> /\ asideO' = <<>> /\ serving' = FALSE

Top == Head(delayed)
NotDue == Top.target > current
NextTick == Top.target = 0 /\ Top.lid = lid

\* a call whose time has not come ends the loop
PopNotDue ==
    /\ serving /\ delayed # <<>> /\ NotDue
    /\ Restore(HeapPop(delayed), HeapPop(delayedO),
               Append(aside, Top), Append(asideO, Head(delayedO)))
    /\ UNCHANGED <<lid, current>>

\* one of the next tick is set aside
PopNextTick ==
    /\ serving /\ delayed # <<>> /\ ~NotDue /\ NextTick
    /\ delayed' = HeapPop(delayed) /\ delayedO' = HeapPop(delayedO)
    /\ aside' = Append(aside, Top) /\ asideO' = Append(asideO, Head(delayedO))
    /\ UNCHANGED <<did, lid, serving, current>>

\* one that is due is called, or was cancelled
PopDue ==
    /\ serving /\ delayed # <<>> /\ ~NotDue /\ ~NextTick
    /\ delayed' = HeapPop(delayed) /\ delayedO' = HeapPop(delayedO)
    /\ UNCHANGED <<did, lid, serving, current, aside, asideO>>

End ==
    /\ serving /\ delayed = <<>>
    /\ Restore(delayed, delayedO, aside, asideO)
    /\ UNCHANGED <<lid, current>>

HeapNext ==
    \/ \E c \in Callables, t \in Targets : Delay(c, t)
    \/ \E t \in Targets \cap Nat : Begin(t)
    \/ PopNotDue \/ PopNextTick \/ PopDue \/ End


-----------------------------------------------------------------------------
(* Properties.                                                             *)

\* The two heaps hold the same calls at the same places, though equal targets
\* may go anywhere, so that what is popped, and set aside, belongs together
\* (delay(), _delays()).
InStep ==
    /\ delayedO = [i \in DOMAIN delayed |-> Plain(delayed[i])]
    /\ asideO = [i \in DOMAIN aside |-> Plain(aside[i])]

\* No two calls held have one identifier: it begins anew only when none is
\* held (the end of _delays()).
UniqueIds ==
    LET all == delayed \o aside
    IN  /\ \A i, j \in DOMAIN all : all[i].did = all[j].did => i = j
        /\ \A i \in DOMAIN all : all[i].did < did

\* The heap is the queue it stands for: it loses nothing, holds nothing twice
\* and gives one of the earliest calls (heappush(), heappop()).
Queue == INSTANCE DelayQueue WITH held <- Elements(delayed)
IsQueue == Queue!Spec

\* Both: what _delays() pops and sets aside is one call, and the one it is for.
HeapSafety == InStep /\ UniqueIds
=============================================================================
