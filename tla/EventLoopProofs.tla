-------------------------- MODULE EventLoopProofs --------------------------
(***************************************************************************)
(* What the runs of MCEventLoop show on small instances, proved for every  *)
(* number of requests, callables and events, every set of delays and every *)
(* modulus of the loop identifier; and, of the protocols of that module,   *)
(* the sessions of Pop for every number of sessions, mails and chunks, the *)
(* transfers of Tftp for every number of clients and length of files, and  *)
(* the leases of Dhcp for every pool and length of a lease.                *)
(***************************************************************************)
EXTENDS EventLoop, Pop, Tftp, Dhcp, FiniteSetTheorems, WellFoundedInduction, TLAPS

\* Removing one element of a sequence leaves a sequence.
LEMMA RemoveIsSeq ==
    ASSUME NEW S, NEW s \in Seq(S), NEW i \in 1 .. Len(s)
    PROVE  SubSeq(s, 1, i - 1) \o SubSeq(s, i + 1, Len(s)) \in Seq(S)
  OBVIOUS

LEMMA EmptyIsSeq == \A S : <<>> \in Seq(S) /\ Len(<<>>) = 0
  OBVIOUS

LEMMA TailIsSeq == ASSUME NEW S, NEW s \in Seq(S), s # <<>> PROVE Tail(s) \in Seq(S)
  OBVIOUS

\* delay() adds entries of the right type.
LEMMA PushType ==
    ASSUME TypeOK, NEW r \in Requests, NEW c \in Callables,
           NEW d \in {-1} \cup Nat, Push(r, c, d)
    PROVE  /\ delayed' \subseteq Entries
           /\ run' \in [Requests -> BOOLEAN]
           /\ fate' \in [Requests -> Fates]
           /\ fresh' \subseteq Requests
<1>1. Target(d) \in Targets
  BY DEF TypeOK, Target, Targets
<1>2. [req |-> r, target |-> Target(d), callable |-> c, lid |-> lid] \in Entries
  BY <1>1 DEF TypeOK, Entries
<1>3. CASE IsDuplicate(c, d)
  BY <1>3 DEF TypeOK, Push, Fates
<1>4. CASE ~IsDuplicate(c, d)
  BY <1>2, <1>4 DEF TypeOK, Push, Fates
<1> QED BY <1>3, <1>4

\* cleanup() leaves a state of the right type.
LEMMA CleanupType == TypeOK /\ Cleanup => TypeOK'
<1> SUFFICES ASSUME TypeOK, Cleanup PROVE TypeOK'
  OBVIOUS
<1>1. fate' \in [Requests -> Fates]
  BY DEF TypeOK, Cleanup, Fates
<1>2. events' \in [Events -> Seq(Callables)]
  BY EmptyIsSeq DEF TypeOK, Cleanup
<1>3. /\ delayedN' \in Seq(Items) /\ notified' \in Seq(Events)
      /\ calling' \in Seq(Callables) /\ merged' \in 0 .. Len(delayedN')
  BY EmptyIsSeq DEF TypeOK, Cleanup
<1> QED BY <1>1, <1>2, <1>3 DEF TypeOK, Cleanup, Pcs

\* TypeOK is inductive: the state keeps its type, in particular the loop
\* identifier its range and the iterator of delay_m() the bounds of the list.
LEMMA TypeStep == TypeOK /\ [Next]_vars => TypeOK'
<1> SUFFICES ASSUME TypeOK, [Next]_vars PROVE TypeOK'
  OBVIOUS
<1> USE LidAssumption, DelaysAssumption, CallablesAssumption DEF TypeOK
<1>1. CASE Serve
  <2>1. ASSUME Tick PROVE TypeOK'
    BY <2>1 DEF Tick, Pcs
  <2>2. ASSUME MergeNext PROVE TypeOK'
    <3>1. /\ delayedN[merged + 1] \in Items
          /\ merged + 1 \in 0 .. Len(delayedN)
      BY <2>2 DEF MergeNext
    <3>2. PICK item \in Items : /\ item = delayedN[merged + 1]
                               /\ Push(item.req, item.callable, item.delay)
      BY <2>2, <3>1 DEF MergeNext
    <3>3. /\ item.req \in Requests /\ item.callable \in Callables
          /\ item.delay \in {-1} \cup Nat
      BY DEF Items
    <3>4. /\ delayed' \subseteq Entries
          /\ run' \in [Requests -> BOOLEAN]
          /\ fate' \in [Requests -> Fates]
          /\ fresh' \subseteq Requests
      BY <3>2, <3>3, PushType
    <3> QED BY <2>2, <3>1, <3>4 DEF MergeNext
  <2>3. ASSUME MergeEnd PROVE TypeOK'
    BY <2>3 DEF MergeEnd, Pcs
  <2>4. ASSUME MergeClear PROVE TypeOK'
    BY <2>4 DEF MergeClear, Pcs, Fates
  <2>5. ASSUME Begin PROVE TypeOK'
    BY <2>5 DEF Begin, Pcs
  <2>6. ASSUME NotifiesPop PROVE TypeOK'
    BY <2>6 DEF NotifiesPop, Pcs
  <2>7. ASSUME NotifiesCall PROVE TypeOK'
    <3>1. calling' \in Seq(Callables)
      <4>1. CASE calling = <<>>
        BY <2>7, <4>1 DEF NotifiesCall
      <4>2. CASE calling # <<>>
        BY <2>7, <4>2, TailIsSeq DEF NotifiesCall
      <4> QED BY <4>1, <4>2
    <3> QED BY <2>7, <3>1 DEF NotifiesCall, Pcs
  <2>8. ASSUME Pop PROVE TypeOK'
    BY SMTT(30), <2>8 DEF Pop, First, PopNotDue, PopNextTick, PopDue, Restore, Pcs, Fates, Entries
  <2>9. ASSUME DelaysEnd PROVE TypeOK'
    BY <2>9 DEF DelaysEnd, Restore, Pcs
  <2>10. ASSUME Continue PROVE TypeOK'
    BY <2>10 DEF Continue, Pcs
  <2>11. ASSUME Finalize PROVE TypeOK'
    BY <2>11, CleanupType DEF Finalize, Pcs
  <2>12. ASSUME Closed PROVE TypeOK'
    BY <2>12 DEF Closed, Pcs
  <2> QED BY <1>1, <2>1, <2>2, <2>3, <2>4, <2>5, <2>6, <2>7, <2>8, <2>9, <2>10, <2>11, <2>12 DEF Serve
<1>2. CASE Return
  BY <1>2 DEF Return, BindReturn, CallReturn, PollReturn, Pcs, Fates
<1>3. CASE Schedule
  <2> SUFFICES ASSUME NEW r \in Requests, NEW c \in Callables, NEW d \in Delays,
                      Delay(r, c, d) \/ DelayS(r, c, d)
               PROVE  TypeOK'
    BY <1>3 DEF Schedule
  <2>1. CASE Delay(r, c, d)
    BY <2>1, PushType DEF Delay
  <2>2. CASE DelayS(r, c, d)
    BY <2>2 DEF DelayS, Items, Fates
  <2> QED BY <2>1, <2>2
<1>4. CASE Bind
  <2> SUFFICES ASSUME NEW c \in Callables, NEW ev \in Events,
                      WaitEvent(c, ev) \/ UnwaitEvent(c, ev)
               PROVE  TypeOK'
    BY <1>4 DEF Bind
  <2>1. CASE WaitEvent(c, ev)
    BY <2>1 DEF WaitEvent
  <2>2. CASE UnwaitEvent(c, ev)
    BY <2>2, RemoveIsSeq DEF UnwaitEvent
  <2> QED BY <2>1, <2>2
<1>5. ASSUME NEW r \in Requests, Cancel(r) PROVE TypeOK'
  BY <1>5 DEF Cancel
<1>6. ASSUME NEW ev \in Events, Notify(ev) PROVE TypeOK'
  BY <1>6 DEF Notify
<1>7. CASE Start
  BY <1>7 DEF Start, Pcs
<1>8. CASE Stop \/ Pause \/ Abort
  BY <1>8, CleanupType DEF Stop, Pause, Abort, Pcs
<1>9. CASE Clock
  BY <1>9 DEF Clock
<1>10. CASE UNCHANGED vars
  BY <1>10 DEF vars
<1> QED BY <1>1, <1>2, <1>3, <1>4, <1>5, <1>6, <1>7, <1>8, <1>9, <1>10 DEF Next

LEMMA InitType == Init => TypeOK
<1> SUFFICES ASSUME Init PROVE TypeOK
  OBVIOUS
<1>1. events \in [Events -> Seq(Callables)]
  BY EmptyIsSeq DEF Init
<1>2. /\ delayedN \in Seq(Items) /\ notified \in Seq(Events)
      /\ calling \in Seq(Callables) /\ merged \in 0 .. Len(delayedN)
  BY EmptyIsSeq DEF Init
<1>3. /\ run \in [Requests -> BOOLEAN] /\ fate \in [Requests -> Fates]
      /\ lid \in 0 .. LidModulus - 1 /\ pc \in Pcs
  BY LidAssumption DEF Init, Pcs, Fates
<1> QED BY <1>1, <1>2, <1>3 DEF Init, TypeOK

\* Every state the loop reaches has its type.
THEOREM TypeCorrect == Spec => []TypeOK
BY InitType, TypeStep, PTL DEF Spec

-----------------------------------------------------------------------------
(* Who owns a request: the invariant Ownership.                            *)

\* The loop identifier changes at every tick, also when it wraps around.
LEMMA LidAdvances ==
    ASSUME NEW l \in 0 .. LidModulus - 1
    PROVE  (l + 1) % LidModulus \in 0 .. LidModulus - 1 /\ (l + 1) % LidModulus # l
<1> USE LidAssumption
<1>1. CASE l + 1 < LidModulus
  <2>1. (l + 1) % LidModulus = l + 1
    BY <1>1
  <2> QED BY <2>1, <1>1
<1>2. CASE l + 1 = LidModulus
  <2>1. LidModulus % LidModulus = 0
    OBVIOUS
  <2> QED BY <2>1, <1>2
<1> QED BY <1>1, <1>2

\* What delay() does with a request that is not in the heap: it finds a
\* duplicate, or adds one entry of its own.
LEMMA PushEntry ==
    ASSUME TypeOK, HeldOnce, NEW r \in Requests, NEW c \in Callables,
           NEW d \in {-1} \cup Nat, fate[r] # "queued", Push(r, c, d)
    PROVE  \/ /\ fate' = [fate EXCEPT ![r] = "duplicate"]
              /\ delayed' = delayed /\ fresh' = fresh
           \/ /\ fate' = [fate EXCEPT ![r] = "queued"]
              /\ ~IsDuplicate(c, d)
              /\ fresh' = IF d = 0 THEN fresh \cup {r} ELSE fresh \ {r}
              /\ \E e \in Entries :
                     /\ delayed' = delayed \cup {e}
                     /\ e.req = r /\ e.lid = lid
                     /\ e.callable = c /\ e.target = Target(d)
                     /\ e.target = 0 <=> d = 0
                     /\ \A f \in delayed \cup pendings : f.req # r
<1> DEFINE e == [req |-> r, target |-> Target(d), callable |-> c, lid |-> lid]
<1>1. Target(d) \in Targets /\ (Target(d) = 0 <=> d = 0)
  BY DEF TypeOK, Target, Targets
<1>2. e \in Entries
  BY <1>1 DEF TypeOK, Entries
<1>3. \A f \in delayed \cup pendings : f.req # r
  BY DEF HeldOnce
<1>4. CASE IsDuplicate(c, d)
  BY <1>4 DEF Push
<1>5. CASE ~IsDuplicate(c, d)
  <2>1. /\ fate' = [fate EXCEPT ![r] = "queued"]
        /\ fresh' = IF d = 0 THEN fresh \cup {r} ELSE fresh \ {r}
        /\ delayed' = delayed \cup {e}
    BY <1>5 DEF Push
  <2> QED BY <1>1, <1>2, <1>3, <1>5, <2>1
<1> QED BY <1>4, <1>5

\* The other requests stay where they are, and no entry is added twice.
LEMMA PushOwns ==
    ASSUME TypeOK, HeldOnce, NEW r \in Requests, NEW c \in Callables,
           NEW d \in {-1} \cup Nat, fate[r] # "queued", Push(r, c, d),
           pendings' = pendings
    PROVE  /\ \A q \in Requests : q # r => fate'[q] = fate[q]
           /\ fate'[r] \in {"duplicate", "queued"}
           /\ \A q \in Requests : q \in Held => q \in Held'
           /\ fate'[r] = "queued" => r \in Held'
           /\ HeldOnce'
<1>1. \A f \in delayed \cup pendings : f.req \in Requests /\ f.req # r
  BY DEF TypeOK, HeldOnce, Entries
<1>2. CASE fate' = [fate EXCEPT ![r] = "duplicate"] /\ delayed' = delayed
  BY <1>1, <1>2 DEF TypeOK, Held, HeldOnce
<1>3. ASSUME fate' = [fate EXCEPT ![r] = "queued"],
             NEW e \in Entries, e.req = r, delayed' = delayed \cup {e}
      PROVE  /\ \A q \in Requests : q # r => fate'[q] = fate[q]
             /\ fate'[r] \in {"duplicate", "queued"}
             /\ \A q \in Requests : q \in Held => q \in Held'
             /\ fate'[r] = "queued" => r \in Held'
             /\ HeldOnce'
  <2>1. \A q \in Requests : fate'[q] = IF q = r THEN "queued" ELSE fate[q]
    BY <1>3 DEF TypeOK
  <2>2. HeldOnce'
    <3>1. \A f, g \in delayed' \cup pendings' : f.req = g.req => f = g
      BY <1>1, <1>3 DEF HeldOnce
    <3>2. delayed' \cap pendings' = {}
      BY <1>1, <1>3 DEF HeldOnce
    <3>3. \A f \in delayed' \cup pendings' : fate'[f.req] = "queued"
      BY <1>1, <1>3, <2>1 DEF HeldOnce
    <3> QED BY <3>1, <3>2, <3>3 DEF HeldOnce
  <2> QED BY <1>3, <2>1, <2>2 DEF Held
<1> QED BY <1>2, <1>3, PushEntry

\* What the list holds.
LEMMA ItemType ==
    ASSUME TypeOK, NEW i \in 1 .. Len(delayedN)
    PROVE  /\ delayedN[i] \in Items /\ delayedN[i].req \in Requests
           /\ delayedN[i].callable \in Callables
           /\ delayedN[i].delay \in {-1} \cup Nat
<1>1. delayedN[i] \in Items
  BY DEF TypeOK
<1> QED BY <1>1 DEF Items

LEMMA UnmergedType ==
    ASSUME TypeOK
    PROVE  \A i \in merged + 1 .. Len(delayedN) :
               i \in 1 .. Len(delayedN) /\ delayedN[i].req \in Requests
<1> SUFFICES ASSUME NEW i \in merged + 1 .. Len(delayedN)
             PROVE  i \in 1 .. Len(delayedN) /\ delayedN[i].req \in Requests
  OBVIOUS
<1>1. i \in 1 .. Len(delayedN)
  BY DEF TypeOK
<1> QED BY <1>1, ItemType

\* A step that leaves the heap, the list and the fates alone keeps Ownership,
\* provided it does not go on from a callable or from a merge under way.
LEMMA OwnershipFrame ==
    ASSUME Ownership,
           UNCHANGED <<delayed, delayedN, pendings, fate, active, merged>>,
           \/ pc' = pc
           \/ pc # "call" /\ merged = 0
           \/ pc # "call" /\ pc' = "clear"
    PROVE  Ownership'
  BY DEF Ownership, LostOnlyInMerge, HeldOnce, Held, Unmerged

\* Cleanup leaves nothing to own.
LEMMA OwnershipCleanup == ASSUME IInv, Cleanup PROVE Ownership'
<1>1. delayedN' = <<>> /\ merged' = 0 /\ Len(delayedN') = 0
  BY EmptyIsSeq DEF Cleanup
<1>2. \A r \in Requests : fate'[r] \notin {"next", "queued", "running"}
  BY DEF IInv, TypeOK, Cleanup, Fates
<1> QED
  BY <1>1, <1>2 DEF Cleanup, Ownership, LostOnlyInMerge, HeldOnce, Unmerged, Held

LEMMA OwnershipStep == IInv /\ [Next]_vars => Ownership'
<1> SUFFICES ASSUME IInv, [Next]_vars PROVE Ownership'
  OBVIOUS
<1>0. TypeOK /\ TypeOK' /\ Ownership /\ HeldOnce /\ TickIds
  BY TypeStep DEF IInv, Ownership
<1>1. CASE Tick
  BY <1>0, <1>1, OwnershipFrame DEF Tick, Ownership
<1>2. CASE MergeNext
  <2>1. PICK item \in Items : /\ item = delayedN[merged + 1]
                             /\ Push(item.req, item.callable, item.delay)
    BY <1>0, <1>2 DEF MergeNext, TypeOK
  <2>2. /\ item.req \in Requests /\ item.callable \in Callables
        /\ item.delay \in {-1} \cup Nat
    BY DEF Items
  <2>3. merged + 1 \in merged + 1 .. Len(delayedN) /\ fate[item.req] = "next"
    BY <1>0, <1>2, <2>1 DEF MergeNext, TypeOK, Ownership
  <2>4. \A i \in merged + 2 .. Len(delayedN) :
            i \in merged + 1 .. Len(delayedN) /\ delayedN[i].req # item.req
    BY <1>0, <2>1, <2>3 DEF TypeOK, Ownership
  <2>5. \A i \in merged + 1 .. Len(delayedN) :
            i = merged + 1 \/ i \in merged + 2 .. Len(delayedN)
    BY <1>0 DEF TypeOK
  <2>6. /\ \A r \in Requests : r # item.req => fate'[r] = fate[r]
        /\ fate'[item.req] \in {"duplicate", "queued"}
        /\ \A r \in Requests : r \in Held => r \in Held'
        /\ fate'[item.req] = "queued" => item.req \in Held'
        /\ HeldOnce'
    <3>1. pendings' = pendings /\ fate[item.req] # "queued"
      BY <1>2, <2>3 DEF MergeNext
    <3> QED BY <1>0, <2>1, <2>2, <3>1, PushOwns
  <2>9. \A r \in Requests : r # item.req /\ r \in Unmerged => r \in Unmerged'
    <3>1. delayedN' = delayedN /\ merged' = merged + 1
      BY <1>2 DEF MergeNext
    <3>2. (merged + 1) + 1 = merged + 2
      BY <1>0 DEF TypeOK
    <3>3. Unmerged' = {delayedN[i].req : i \in merged + 2 .. Len(delayedN)}
      BY <3>1, <3>2 DEF Unmerged
    <3> QED BY <2>1, <2>5, <3>3 DEF Unmerged
  <2>10. LostOnlyInMerge'
    BY <1>0, <2>6, <2>9 DEF Ownership, LostOnlyInMerge
  <2>11. \A i, j \in merged + 2 .. Len(delayedN) :
             /\ fate'[delayedN[i].req] = "next"
             /\ delayedN[i].req = delayedN[j].req => i = j
    <3> SUFFICES ASSUME NEW i \in merged + 2 .. Len(delayedN),
                        NEW j \in merged + 2 .. Len(delayedN)
                 PROVE  /\ fate'[delayedN[i].req] = "next"
                        /\ delayedN[i].req = delayedN[j].req => i = j
      OBVIOUS
    <3>1. i \in 1 .. Len(delayedN)
      BY <1>0 DEF TypeOK
    <3>2. delayedN[i].req \in Requests
      BY <1>0, <3>1, ItemType
    <3> QED BY <1>0, <2>4, <2>6, <3>2 DEF Ownership
  <2>12. (merged + 1) + 1 = merged + 2
    BY <1>0 DEF TypeOK
  <2> QED
    BY <1>0, <1>2, <2>2, <2>3, <2>6, <2>10, <2>11, <2>12
       DEF Ownership, MergeNext
<1>3. CASE MergeEnd
  BY <1>0, <1>3, OwnershipFrame DEF MergeEnd
<1>4. CASE MergeClear
  <2>1. delayedN' = <<>> /\ merged' = 0 /\ Len(delayedN') = 0
    BY <1>4, EmptyIsSeq DEF MergeClear
  <2>2. \A r \in Requests : /\ fate[r] = "next" => fate'[r] = "lost"
                            /\ fate[r] # "next" => fate'[r] = fate[r]
    BY <1>0, <1>4 DEF MergeClear, TypeOK, Ownership, LostOnlyInMerge, Unmerged
  <2>3. \A e \in delayed \cup pendings : e.req \in Requests
    BY <1>0 DEF TypeOK, Entries
  <2>4. /\ HeldOnce'
        /\ \A r \in Requests : fate'[r] = "queued" => r \in Held'
    BY <1>0, <1>4, <2>2, <2>3
       DEF MergeClear, Ownership, LostOnlyInMerge, HeldOnce, Held
  <2>5. \A r \in Requests : /\ fate'[r] # "next"
                            /\ r \in active' <=> fate'[r] = "running"
    BY <1>0, <1>4, <2>2 DEF MergeClear, Ownership
  <2> QED
    BY <1>0, <1>4, <2>1, <2>4, <2>5 DEF MergeClear, Ownership, LostOnlyInMerge
<1>5. CASE Begin \/ NotifiesPop \/ NotifiesCall \/ BindReturn \/ Continue
           \/ PollReturn \/ Closed \/ Start
  BY <1>0, <1>5, OwnershipFrame
     DEF Begin, NotifiesPop, NotifiesCall, BindReturn, Continue, PollReturn,
         Closed, Start, Ownership
<1>6. CASE Pop
  <2>1. PICK e \in First : PopNotDue(e) \/ PopNextTick(e) \/ PopDue(e)
    BY <1>6 DEF Pop
  <2>2. /\ e \in delayed /\ e.req \in Requests /\ fate[e.req] = "queued"
        /\ pc = "delays" /\ active = {} /\ merged = 0
        /\ UNCHANGED <<delayedN, merged>>
    BY <1>0, <1>6 DEF Pop, First, TypeOK, Entries, HeldOnce, Ownership
  <2>3. CASE PopNotDue(e) \/ PopNextTick(e)
    <3>1. /\ delayed' \cup pendings' = delayed \cup pendings
          /\ UNCHANGED <<fate, active>> /\ pc' # "call"
      BY <2>2, <2>3 DEF PopNotDue, PopNextTick, Restore
    <3>2. delayed' \cap pendings' = {}
      BY <1>0, <2>2, <2>3 DEF PopNotDue, PopNextTick, Restore, HeldOnce
    <3> QED
      BY <1>0, <2>2, <3>1, <3>2
         DEF Ownership, LostOnlyInMerge, HeldOnce, Held, Unmerged
  <2>4. CASE PopDue(e)
    <3>1. /\ delayed' = delayed \ {e} /\ pendings' = pendings
          /\ fate'[e.req] \in {"running", "cancelled"}
          /\ \A r \in Requests : r # e.req => fate'[r] = fate[r]
          /\ \A r \in Requests : r \in active' <=> fate'[r] = "running"
          /\ pc' # "call" => active' = {}
      BY <1>0, <2>2, <2>4 DEF PopDue, TypeOK, Ownership
    <3>2. \A f \in delayed' \cup pendings' :
              f.req \in Requests /\ f.req # e.req /\ fate'[f.req] = "queued"
      BY <1>0, <2>2, <3>1 DEF HeldOnce, TypeOK, Entries
    <3>3. HeldOnce'
      BY <1>0, <3>1, <3>2 DEF HeldOnce
    <3>4. \A r \in Requests : r # e.req /\ r \in Held => r \in Held'
      BY <3>1 DEF Held
    <3>5. LostOnlyInMerge'
      BY <1>0, <2>2, <3>1, <3>4 DEF Ownership, LostOnlyInMerge, Unmerged
    <3>6. \A i \in merged + 1 .. Len(delayedN) :
              delayedN[i].req # e.req /\ delayedN[i].req \in Requests
      BY <1>0, <2>2, UnmergedType DEF Ownership
    <3> QED BY <1>0, <2>2, <3>1, <3>3, <3>5, <3>6 DEF Ownership
  <2> QED BY <2>1, <2>3, <2>4
<1>7. CASE DelaysEnd
  BY <1>0, <1>7
     DEF DelaysEnd, Restore, Ownership, LostOnlyInMerge, HeldOnce, Held, Unmerged
<1>8. CASE CallReturn
  <2>1. \A r \in Requests : /\ fate[r] = "running" => fate'[r] = "ran"
                            /\ fate[r] # "running" => fate'[r] = fate[r]
    BY <1>0, <1>8 DEF CallReturn, Ownership, TypeOK
  <2>2. /\ \A e \in delayed \cup pendings : e.req \in Requests
        /\ \A i \in merged + 1 .. Len(delayedN) : delayedN[i].req \in Requests
    BY <1>0, UnmergedType DEF TypeOK, Entries
  <2> QED
    BY <1>0, <1>8, <2>1, <2>2
       DEF CallReturn, Ownership, LostOnlyInMerge, HeldOnce, Held, Unmerged, TypeOK
<1>9. ASSUME NEW r \in Requests, NEW c \in Callables, NEW d \in Delays, Delay(r, c, d)
      PROVE  Ownership'
  <2>1. /\ Push(r, c, d) /\ d \in {-1} \cup Nat
        /\ fate[r] \notin {"queued", "next", "running"}
        /\ UNCHANGED <<delayedN, pendings, merged, active, pc>>
    BY <1>9, DelaysAssumption DEF Delay, Free, Finished
  <2>2. /\ \A q \in Requests : q # r => fate'[q] = fate[q]
        /\ fate'[r] \in {"duplicate", "queued"}
        /\ \A q \in Requests : q \in Held => q \in Held'
        /\ fate'[r] = "queued" => r \in Held'
        /\ HeldOnce'
    BY <1>0, <2>1, PushOwns
  <2>5. LostOnlyInMerge'
    BY <1>0, <2>1, <2>2 DEF Ownership, LostOnlyInMerge, Unmerged
  <2>6. \A i \in merged + 1 .. Len(delayedN) :
            delayedN[i].req # r /\ delayedN[i].req \in Requests
    BY <1>0, <2>1, UnmergedType DEF Ownership
  <2> QED BY <1>0, <2>1, <2>2, <2>5, <2>6 DEF Ownership
<1>10. ASSUME NEW r \in Requests, NEW c \in Callables, NEW d \in Delays, DelayS(r, c, d)
       PROVE  Ownership'
  <2> DEFINE item == [req |-> r, callable |-> c, delay |-> d]
  <2>1. /\ delayedN' = Append(delayedN, item)
        /\ fate' = [fate EXCEPT ![r] = "next"]
        /\ fate[r] \notin {"queued", "next", "running"}
        /\ UNCHANGED <<delayed, pendings, merged, active, pc>>
    BY <1>10 DEF DelayS, Free, Finished
  <2>2. /\ Len(delayedN') = Len(delayedN) + 1
        /\ delayedN'[Len(delayedN) + 1].req = r
        /\ \A i \in 1 .. Len(delayedN) : delayedN'[i] = delayedN[i]
    BY <1>0, <2>1 DEF TypeOK
  <2>3. \A i \in merged + 1 .. Len(delayedN) :
            /\ i \in 1 .. Len(delayedN)
            /\ delayedN[i].req # r /\ delayedN[i].req \in Requests
    BY <1>0, <2>1, UnmergedType DEF Ownership
  <2>4. \A i \in merged + 1 .. Len(delayedN') :
            i = Len(delayedN) + 1 \/ i \in merged + 1 .. Len(delayedN)
    BY SMTT(30), <1>0, <2>2 DEF TypeOK
  <2>5. /\ Len(delayedN) + 1 \in merged + 1 .. Len(delayedN')
        /\ merged + 1 .. Len(delayedN) \subseteq merged + 1 .. Len(delayedN')
    BY SMTT(30), <1>0, <2>2 DEF TypeOK
  <2>6. \A q \in Requests : fate'[q] = "next" => q \in Unmerged'
    BY <1>0, <2>1, <2>2, <2>3, <2>5 DEF Ownership, LostOnlyInMerge, Unmerged, TypeOK
  <2>7. \A e \in delayed \cup pendings : e.req # r /\ e.req \in Requests
    BY <1>0, <2>1 DEF HeldOnce, TypeOK, Entries
  <2>8. HeldOnce'
    BY <1>0, <2>1, <2>7 DEF HeldOnce, TypeOK
  <2>9. \A q \in Requests : fate'[q] = "queued" => q \in Held'
    BY <1>0, <2>1 DEF Ownership, LostOnlyInMerge, Held, TypeOK
  <2>10. \A i, j \in merged + 1 .. Len(delayedN') :
             /\ fate'[delayedN'[i].req] = "next"
             /\ delayedN'[i].req = delayedN'[j].req => i = j
    BY SMTT(30), <1>0, <2>1, <2>2, <2>3, <2>4 DEF Ownership, TypeOK
  <2> QED BY <1>0, <2>1, <2>6, <2>8, <2>9, <2>10 DEF Ownership, LostOnlyInMerge, TypeOK
<1>11. ASSUME NEW c \in Callables, NEW ev \in Events,
              WaitEvent(c, ev) \/ UnwaitEvent(c, ev)
       PROVE  Ownership'
  BY <1>0, <1>11, OwnershipFrame DEF WaitEvent, UnwaitEvent
<1>12. ASSUME NEW r \in Requests, Cancel(r) PROVE Ownership'
  BY <1>0, <1>12, OwnershipFrame DEF Cancel
<1>13. ASSUME NEW ev \in Events, Notify(ev) PROVE Ownership'
  BY <1>0, <1>13, OwnershipFrame DEF Notify
<1>14. CASE Stop \/ Abort \/ Finalize
  BY <1>0, <1>14, OwnershipFrame, OwnershipCleanup DEF Stop, Abort, Finalize, Ownership
<1>15. CASE Pause \/ Clock \/ UNCHANGED vars
  BY <1>0, <1>15, OwnershipFrame DEF Pause, Clock, vars
<1> QED
  BY <1>1, <1>2, <1>3, <1>4, <1>5, <1>6, <1>7, <1>8, <1>9, <1>10, <1>11,
     <1>12, <1>13, <1>14, <1>15
     DEF Next, Serve, Return, Schedule, Bind

-----------------------------------------------------------------------------
(* What the loop identifiers say: the invariant TickIds.                   *)

\* A step that neither adds to the heap, nor begins a tick, nor leaves one.
LEMMA TickIdsFrame ==
    ASSUME TypeOK, TickIds, UNCHANGED <<delayed, pendings, lid, fresh>>,
           current' <= now', now' > 0,
           \/ pc' = pc
           \/ pendings = {} /\ pc' \in Serving \cup {"merge", "clear", "begin"}
           \/ pc \in Serving /\ pc' \in Serving
           \/ pc \notin Serving \cup {"merge", "clear", "begin"} /\ pc' \notin Serving
           \/ pendings = {} /\ delayed = {}
    PROVE  TickIds'
  BY DEF TickIds, Serving

LEMMA TickIdsPush ==
    ASSUME TypeOK, TickIds, HeldOnce, NEW r \in Requests, NEW c \in Callables,
           NEW d \in {-1} \cup Nat, fate[r] # "queued", Push(r, c, d),
           UNCHANGED <<pendings, lid, now, current, pc>>
    PROVE  TickIds'
<1>1. \A f \in delayed \cup pendings : f.req # r
  BY DEF HeldOnce
<1>2. CASE delayed' = delayed /\ fresh' = fresh
  BY <1>2 DEF TickIds
<1>3. ASSUME fresh' = (IF d = 0 THEN fresh \cup {r} ELSE fresh \ {r}),
             NEW e \in Entries, delayed' = delayed \cup {e},
             e.req = r, e.lid = lid, e.target = 0 <=> d = 0
      PROVE  TickIds'
  <2>1. \A f \in delayed' \cup pendings' :
            f.req \in fresh' <=> f.target = 0 /\ f.lid = lid'
    BY <1>1, <1>3 DEF TickIds
  <2>2. /\ \A f \in pendings' : f.target = 0 /\ f.lid = lid'
        /\ pendings' # {} => pc' \in Serving
        /\ current' <= now' /\ now' > 0
    BY DEF TickIds
  <2>3. pc' \notin Serving \cup {"merge", "clear", "begin"} =>
            \A f \in delayed' : f.target = 0 => f.lid = lid'
    BY <1>3 DEF TickIds
  <2> QED BY <2>1, <2>2, <2>3 DEF TickIds
<1> QED BY <1>2, <1>3, PushEntry

LEMMA TickIdsCleanup == ASSUME IInv, Cleanup PROVE TickIds'
  BY DEF IInv, TickIds, Cleanup, Serving

LEMMA TickIdsStep == IInv /\ [Next]_vars => TickIds'
<1> SUFFICES ASSUME IInv, [Next]_vars PROVE TickIds'
  OBVIOUS
<1>0. /\ TypeOK /\ TypeOK' /\ Ownership /\ HeldOnce /\ TickIds
      /\ now \in Nat /\ current \in Nat
  BY TypeStep DEF IInv, Ownership, TypeOK
<1>1. CASE Tick
  <2>1. lid' # lid
    BY <1>0, <1>1, LidAdvances DEF Tick, TypeOK
  <2> QED BY <1>0, <1>1, <2>1 DEF Tick, TickIds, Serving
<1>2. CASE MergeNext
  <2>1. merged + 1 \in 1 .. Len(delayedN) /\ merged + 1 \in merged + 1 .. Len(delayedN)
    BY <1>0, <1>2 DEF MergeNext, TypeOK
  <2>2. PICK item \in Items : /\ item = delayedN[merged + 1]
                             /\ Push(item.req, item.callable, item.delay)
    BY <1>0, <1>2, <2>1, ItemType DEF MergeNext
  <2>3. /\ item.req \in Requests /\ item.callable \in Callables
        /\ item.delay \in {-1} \cup Nat /\ fate[item.req] = "next"
    BY <1>0, <2>1, <2>2, ItemType DEF Ownership
  <2> QED BY <1>0, <1>2, <2>2, <2>3, TickIdsPush DEF MergeNext
<1>3. CASE MergeEnd \/ MergeClear \/ Begin \/ NotifiesPop \/ NotifiesCall
           \/ BindReturn \/ CallReturn
  <2>1. pc' \in Serving \cup {"merge", "clear", "begin"} \/ delayed = {}
    BY <1>3 DEF MergeEnd, MergeClear, Begin, NotifiesPop, NotifiesCall,
                BindReturn, CallReturn, Serving
  <2>2. pc \in Serving \/ pendings = {}
    BY <1>0 DEF TickIds
  <2>3. pc \in Serving => pc' \in Serving
    BY <1>3 DEF MergeEnd, MergeClear, Begin, NotifiesPop, NotifiesCall,
                BindReturn, CallReturn, Serving
  <2>4. UNCHANGED <<delayed, pendings, lid, fresh>> /\ current' <= now' /\ now' > 0
    BY <1>0, <1>3 DEF MergeEnd, MergeClear, Begin, NotifiesPop, NotifiesCall,
                      BindReturn, CallReturn, TickIds
  <2> QED BY <1>0, <2>1, <2>2, <2>3, <2>4, TickIdsFrame
<1>4. CASE Continue \/ PollReturn \/ Closed \/ Start
  BY <1>0, <1>4, TickIdsFrame
     DEF Continue, PollReturn, Closed, Start, Serving, TickIds
<1>5. CASE Pop
  <2>1. PICK e \in First : PopNotDue(e) \/ PopNextTick(e) \/ PopDue(e)
    BY <1>5 DEF Pop
  <2>2. /\ e \in delayed /\ pc = "delays"
        /\ \A f \in delayed : e.target <= f.target
        /\ UNCHANGED <<lid, now, current, fresh>>
    BY <1>5 DEF Pop, First
  <2>3. \A f \in delayed : f.target \in Targets
    BY <1>0 DEF TypeOK, Entries
  <2>4. CASE PopNotDue(e)
    <3>1. \A f \in delayed : f.target # 0
      BY <1>0, <2>2, <2>3, <2>4 DEF PopNotDue, Targets
    <3> QED
      BY <1>0, <2>2, <2>4, <3>1 DEF PopNotDue, Restore, TickIds, Serving
  <2>5. CASE PopNextTick(e)
    BY <1>0, <2>2, <2>5 DEF PopNextTick, TickIds, Serving
  <2>6. CASE PopDue(e)
    BY <1>0, <2>2, <2>6 DEF PopDue, TickIds, Serving
  <2> QED BY <2>1, <2>4, <2>5, <2>6
<1>6. CASE DelaysEnd
  BY <1>0, <1>6 DEF DelaysEnd, Restore, TickIds, Serving
<1>7. ASSUME NEW r \in Requests, NEW c \in Callables, NEW d \in Delays, Delay(r, c, d)
      PROVE  TickIds'
  <2>1. /\ Push(r, c, d) /\ d \in {-1} \cup Nat /\ fate[r] # "queued"
        /\ UNCHANGED <<pendings, lid, now, current, pc>>
    BY <1>7, DelaysAssumption DEF Delay, Free, Finished
  <2> QED BY <1>0, <2>1, TickIdsPush
<1>8. ASSUME NEW r \in Requests, NEW c \in Callables, NEW d \in Delays, DelayS(r, c, d)
      PROVE  TickIds'
  BY <1>0, <1>8 DEF DelayS, TickIds
<1>9. ASSUME NEW c \in Callables, NEW ev \in Events,
             WaitEvent(c, ev) \/ UnwaitEvent(c, ev)
      PROVE  TickIds'
  BY <1>0, <1>9 DEF WaitEvent, UnwaitEvent, TickIds
<1>10. ASSUME NEW r \in Requests, Cancel(r) PROVE TickIds'
  BY <1>0, <1>10 DEF Cancel, TickIds
<1>11. ASSUME NEW ev \in Events, Notify(ev) PROVE TickIds'
  BY <1>0, <1>11 DEF Notify, TickIds
<1>12. CASE Stop \/ Abort \/ Finalize
  BY <1>0, <1>12, TickIdsFrame, TickIdsCleanup
     DEF Stop, Abort, Finalize, TickIds, Serving
<1>13. CASE Pause \/ Clock \/ UNCHANGED vars
  BY <1>0, <1>13, TickIdsFrame DEF Pause, Clock, vars, TickIds
<1> QED
  BY <1>1, <1>2, <1>3, <1>4, <1>5, <1>6, <1>7, <1>8, <1>9, <1>10, <1>11,
     <1>12, <1>13
     DEF Next, Serve, Return, Schedule, Bind

-----------------------------------------------------------------------------
(* The end of a tick, and the flush that is scheduled once.                *)

LEMMA TickDrainsStep == IInv /\ [Next]_vars => TickDrains'
<1> SUFFICES ASSUME IInv, [Next]_vars, pc' = "check" PROVE TickDrains'
  BY DEF TickDrains
<1>0. TypeOK /\ TypeOK' /\ Ownership /\ HeldOnce /\ TickIds /\ TickDrains
  BY TypeStep DEF IInv, Ownership
<1>1. CASE Begin
  BY <1>0, <1>1 DEF Begin, TickDrains, TickIds, Serving
<1>2. CASE Pop
  <2>1. PICK e \in First : PopNotDue(e)
    BY <1>2 DEF Pop, PopNextTick, PopDue
  <2>2. /\ e \in delayed /\ e.target > current
        /\ \A f \in delayed : e.target <= f.target
        /\ delayed' = delayed \cup pendings /\ pendings' = {}
        /\ UNCHANGED <<current, fresh, notified>> /\ notified = <<>>
    BY <1>2, <2>1 DEF Pop, First, PopNotDue, Restore
  <2>3. current \in Int /\ \A f \in delayed : f.target \in Int
    BY <1>0 DEF TypeOK, Entries, Targets
  <2>4. \A f \in delayed : f.target > current
    BY <2>2, <2>3
  <2>5. \A f \in pendings : f.target = 0 /\ f.req \in fresh
    BY <1>0 DEF TickIds
  <2> QED BY <2>2, <2>4, <2>5 DEF TickDrains
<1>3. CASE DelaysEnd
  BY <1>0, <1>3 DEF DelaysEnd, Restore, TickDrains, TickIds
<1>4. CASE pc = "check"
  <2>1. UNCHANGED <<delayed, pendings, current, fresh>> /\ (Foreign \/ notified' = notified)
    <3>1. \A r, c, d : ~Delay(r, c, d)
      BY <1>4 DEF Delay, Handlers
    <3>2. /\ ~Serve /\ ~Return /\ ~Bind /\ ~Start /\ ~Pause /\ ~Abort
          /\ \A r \in Requests : ~Cancel(r)
      BY <1>4 DEF Serve, Tick, MergeNext, MergeEnd, MergeClear, Begin,
                  NotifiesPop, NotifiesCall, Pop, DelaysEnd, Continue,
                  Finalize, Cleanup, Closed, Return, BindReturn, CallReturn,
                  PollReturn, Bind, WaitEvent, UnwaitEvent, Start, Pause,
                  Abort, Cancel, Handlers
    <3> QED
      BY <1>4, <3>1, <3>2
         DEF Next, Schedule, DelayS, Notify, Stop, Cleanup, Clock, vars, Handlers
  <2> QED BY <1>0, <1>4, <2>1 DEF TickDrains
<1>5. CASE pc # "check" /\ ~Begin /\ ~Pop /\ ~DelaysEnd
  BY <1>5 DEF Next, Serve, Return, Schedule, Bind, Tick, MergeNext, MergeEnd,
              MergeClear, NotifiesPop, NotifiesCall, Continue, Finalize,
              Cleanup, Closed, BindReturn, CallReturn, PollReturn, Delay,
              DelayS, WaitEvent, UnwaitEvent, Cancel, Notify, Start, Stop,
              Pause, Abort, Clock, vars
<1> QED BY <1>1, <1>2, <1>3, <1>4, <1>5

LEMMA OneFlushPush ==
    ASSUME TypeOK, TickIds, HeldOnce, OneFlush, NEW r \in Requests,
           NEW c \in Callables, NEW d \in {-1} \cup Nat, fate[r] # "queued",
           Push(r, c, d), pendings' = pendings
    PROVE  OneFlush'
<1>1. CASE delayed' = delayed
  BY <1>1 DEF OneFlush
<1>2. ASSUME ~IsDuplicate(c, d), NEW e \in Entries, delayed' = delayed \cup {e},
             e.callable = c, e.target = Target(d)
      PROVE  OneFlush'
  <2>1. \A f \in pendings : f.target # -1
    BY DEF TickIds
  <2>2. \A f \in delayed : c \in Verified => ~(f.target = e.target /\ f.callable = c)
    BY <1>2 DEF IsDuplicate
  <2> QED BY <1>2, <2>1, <2>2 DEF OneFlush
<1> QED BY <1>1, <1>2, PushEntry

LEMMA OneFlushStep == IInv /\ [Next]_vars => OneFlush'
<1> SUFFICES ASSUME IInv, [Next]_vars PROVE OneFlush'
  OBVIOUS
<1>0. TypeOK /\ Ownership /\ HeldOnce /\ TickIds /\ OneFlush
  BY DEF IInv, Ownership
<1>1. CASE delayed' \cup pendings' \subseteq delayed \cup pendings
  BY <1>0, <1>1 DEF OneFlush
<1>2. CASE MergeNext
  <2>1. merged + 1 \in 1 .. Len(delayedN) /\ merged + 1 \in merged + 1 .. Len(delayedN)
    BY <1>0, <1>2 DEF MergeNext, TypeOK
  <2>2. PICK item \in Items : /\ item = delayedN[merged + 1]
                             /\ Push(item.req, item.callable, item.delay)
    BY <1>0, <1>2, <2>1, ItemType DEF MergeNext
  <2>3. /\ item.req \in Requests /\ item.callable \in Callables
        /\ item.delay \in {-1} \cup Nat /\ fate[item.req] = "next"
    BY <1>0, <2>1, <2>2, ItemType DEF Ownership
  <2> QED BY <1>0, <1>2, <2>2, <2>3, OneFlushPush DEF MergeNext
<1>3. ASSUME NEW r \in Requests, NEW c \in Callables, NEW d \in Delays, Delay(r, c, d)
      PROVE  OneFlush'
  <2>1. /\ Push(r, c, d) /\ d \in {-1} \cup Nat /\ fate[r] # "queued"
        /\ pendings' = pendings
    BY <1>3, DelaysAssumption DEF Delay, Free, Finished
  <2> QED BY <1>0, <2>1, OneFlushPush
<1>4. CASE Pop
  BY <1>1, <1>4 DEF Pop, First, PopNotDue, PopNextTick, PopDue, Restore
<1>5. CASE Serve /\ ~MergeNext /\ ~Pop
  BY <1>1, <1>5
     DEF Serve, Tick, MergeEnd, MergeClear, Begin, NotifiesPop, NotifiesCall,
         DelaysEnd, Restore, Continue, Finalize, Cleanup, Closed
<1>6. CASE Return \/ Start \/ Stop \/ Pause \/ Abort \/ Clock \/ UNCHANGED vars
  BY <1>1, <1>6
     DEF Return, BindReturn, CallReturn, PollReturn, Start, Stop, Pause, Abort,
         Cleanup, Clock, vars
<1>7. ASSUME NEW r \in Requests, NEW c \in Callables, NEW d \in Delays, DelayS(r, c, d)
      PROVE  OneFlush'
  BY <1>1, <1>7 DEF DelayS
<1>8. CASE Bind \/ (\E r \in Requests : Cancel(r)) \/ (\E ev \in Events : Notify(ev))
  BY <1>1, <1>8 DEF Bind, WaitEvent, UnwaitEvent, Cancel, Notify
<1> QED BY <1>2, <1>3, <1>4, <1>5, <1>6, <1>7, <1>8 DEF Next, Schedule

-----------------------------------------------------------------------------
(* The theorems.                                                           *)

\* IInv holds in every state the loop reaches.
THEOREM Invariance == Spec => []IInv
<1>1. Init => IInv
  <2> SUFFICES ASSUME Init PROVE IInv
    OBVIOUS
  <2>1. TypeOK
    BY InitType
  <2>2. delayedN = <<>> /\ Len(delayedN) = 0 /\ merged = 0
    BY EmptyIsSeq DEF Init
  <2>3. Ownership
    BY <2>2 DEF Init, Ownership, LostOnlyInMerge, HeldOnce
  <2>4. TickIds /\ TickDrains /\ OneFlush
    BY DEF Init, TickIds, TickDrains, OneFlush
  <2> QED BY <2>1, <2>3, <2>4 DEF IInv
<1>2. IInv /\ [Next]_vars => IInv'
  BY TypeStep, OwnershipStep, TickIdsStep, TickDrainsStep, OneFlushStep DEF IInv
<1>3. QED BY <1>1, <1>2, PTL DEF Spec

\* The heap, the pendings and the list of other threads own each request once
\* until it is served; nothing of the heap is ever lost.
THEOREM RequestsOwned == Spec => [](LostOnlyInMerge /\ HeldOnce)
<1>1. IInv => LostOnlyInMerge /\ HeldOnce
  BY DEF IInv, Ownership
<1>2. QED BY <1>1, Invariance, PTL

\* A tick leaves nothing behind that was due in it.
THEOREM TicksDrain == Spec => []TickDrains
<1>1. IInv => TickDrains
  BY DEF IInv
<1>2. QED BY <1>1, Invariance, PTL

\* A verified callable is at most once in the heap to be called immediately.
THEOREM FlushedOnce == Spec => []OneFlush
<1>1. IInv => OneFlush
  BY DEF IInv
<1>2. QED BY <1>1, Invariance, PTL

\* Only the pop of a due entry calls a request.
LEMMA CalledByPop ==
    ASSUME IInv, [Next]_vars, NEW r \in Requests, Called(r)
    PROVE  \E e \in delayed : e.req = r /\ PopDue(e) /\ run[e.req]
<1>1. Pop
  BY DEF Called, Next, Serve, Return, Schedule, Bind, Tick, MergeNext, MergeEnd,
         MergeClear, Begin, NotifiesPop, NotifiesCall, DelaysEnd, Continue,
         Finalize, Cleanup, Closed, BindReturn, CallReturn, PollReturn, Delay,
         DelayS, WaitEvent, UnwaitEvent, Cancel, Notify, Start, Stop, Pause,
         Abort, Clock, vars
<1>2. PICK e \in First : PopNotDue(e) \/ PopNextTick(e) \/ PopDue(e)
  BY <1>1 DEF Pop
<1>3. PopDue(e)
  BY <1>2 DEF PopNotDue, PopNextTick, Called
<1> QED BY <1>2, <1>3 DEF PopDue, Called, First

\* No callable runs once it is cancelled, or in the tick it was scheduled in
\* for the next one, and no timer before its time.
THEOREM CallsInTurn == Spec => CalledInTurn
<1>1. IInv /\ [Next]_vars =>
          [\A r \in Requests : Called(r) =>
               /\ run[r] /\ r \notin fresh
               /\ \E e \in delayed : e.req = r /\ e.target <= now]_vars
  <2> SUFFICES ASSUME IInv, [Next]_vars, NEW r \in Requests, Called(r)
               PROVE  /\ run[r] /\ r \notin fresh
                      /\ \E e \in delayed : e.req = r /\ e.target <= now
    OBVIOUS
  <2>1. PICK e \in delayed : e.req = r /\ PopDue(e) /\ run[e.req]
    BY CalledByPop
  <2>2. e.target \in Targets /\ current \in Nat /\ now \in Nat /\ current <= now
    BY DEF IInv, TypeOK, TickIds, Entries
  <2> QED BY <2>1, <2>2 DEF IInv, TickIds, PopDue, Targets
<1>2. QED BY <1>1, Invariance, PTL DEF Spec, CalledInTurn

\* What became of a request that is scheduled once does not change any more.
THEOREM FatesFinal == ASSUME Recycled = {} PROVE Spec => FateIsFinal
<1>1. IInv /\ [Next]_vars =>
          [\A r \in Requests : fate[r] \in Finished => fate'[r] = fate[r]]_vars
  <2> SUFFICES ASSUME IInv, [Next]_vars, NEW r \in Requests, fate[r] \in Finished
               PROVE  fate'[r] = fate[r]
    OBVIOUS
  <2>0. TypeOK /\ Ownership /\ HeldOnce /\ fate \in [Requests -> Fates]
    BY DEF IInv, Ownership, TypeOK
  <2>1. CASE MergeNext
    <3>1. merged + 1 \in 1 .. Len(delayedN) /\ merged + 1 \in merged + 1 .. Len(delayedN)
      BY <2>0, <2>1 DEF MergeNext, TypeOK
    <3>2. PICK item \in Items : /\ item = delayedN[merged + 1]
                               /\ Push(item.req, item.callable, item.delay)
      BY <2>0, <2>1, <3>1, ItemType DEF MergeNext
    <3>3. item.req \in Requests /\ fate[item.req] = "next"
      BY <2>0, <3>1, <3>2, ItemType DEF Ownership
    <3> QED BY <2>0, <3>2, <3>3 DEF Push, Finished
  <2>2. CASE Pop
    BY <2>0, <2>2 DEF Pop, First, PopNotDue, PopNextTick, PopDue, HeldOnce, Finished
  <2>3. CASE MergeClear
    BY <2>0, <2>3 DEF MergeClear, Unmerged, Ownership, Finished
  <2>4. CASE CallReturn
    BY <2>0, <2>4 DEF CallReturn, Ownership, Finished
  <2>5. CASE Stop \/ Abort \/ Finalize
    BY <2>0, <2>5 DEF Stop, Abort, Finalize, Cleanup, Finished
  <2>6. ASSUME NEW q \in Requests, NEW c \in Callables, NEW d \in Delays,
               Delay(q, c, d) \/ DelayS(q, c, d)
        PROVE  fate'[r] = fate[r]
    <3>1. fate[q] = "free"
      BY <2>6 DEF Delay, DelayS, Free
    <3> QED BY <2>0, <2>6, <3>1 DEF Delay, DelayS, Push, Finished
  <2>7. CASE UNCHANGED fate
    BY <2>7
  <2> QED
    BY <2>1, <2>2, <2>3, <2>4, <2>5, <2>6, <2>7
       DEF Next, Serve, Return, Schedule, Bind, Tick, MergeEnd, Begin,
           NotifiesPop, NotifiesCall, DelaysEnd, Continue, Closed, BindReturn,
           PollReturn, WaitEvent, UnwaitEvent, Cancel, Notify, Start, Pause,
           Clock, vars
<1>2. QED BY <1>1, Invariance, PTL DEF Spec, FateIsFinal

-----------------------------------------------------------------------------
(***************************************************************************)
(* The sessions of a mailbox (Pop).                                        *)
(***************************************************************************)

PopWords == [what : {"ok", "list", "chunk", "end"}, of : SUBSET Mails, part : Nat]
PopItems == [said : PopWords, next : BOOLEAN]
PopFiles == [of : SUBSET Mails, at : Nat]
PopConnections ==
    [status : {"open", "closing", "closed"}, state : {"helo", "auth", "session"},
     count : Nat, keys : Seq(Mails), file : PopFiles, queue : Seq(PopItems)]
PopClients ==
    [asked : {"greeting", "nothing", "ok", "list", "retr"}, key : SUBSET Mails,
     got : Seq(PopWords), left : Int]

\* the answer that has message k, word by word
Nth(k, i) ==
    IF i = 1 THEN Word("ok")
    ELSE IF i = Chunks[k] + 2 THEN Word("end") ELSE Part({k}, i - 1)

\* what came of it, and what is to be sent, come in their places
Begun(k, got, queue) ==
    /\ Len(got) + Len(queue) <= Chunks[k] + 2
    /\ \A i \in 1 .. Len(got) : got[i] = Nth(k, i)
    /\ \A i \in 1 .. Len(queue) : queue[i].said = Nth(k, Len(got) + i)

\* a chain of callbacks reads the file of k, or all of it is in the queue
ReadsOn(k, got, file, queue) ==
    /\ file.of = {k} /\ file.at <= Chunks[k]
    /\ Len(got) + Len(queue) = file.at + 1
    /\ \A i \in 1 .. Len(queue) : queue[i].next
HasRead(k, got, file, queue) ==
    file = NoMessage /\ Len(got) + Len(queue) = Chunks[k] + 2

\* what holds of a connection and its client
OneAnswer(status, file, queue, asked, key) ==
    /\ file = NoMessage /\ key = {}
    /\ status # "closed" =>
          /\ Len(queue) = 1 /\ ~queue[1].next
          /\ asked # "greeting" => queue[1].said.what = asked
Goes(status, file, queue, asked, key, got) ==
    /\ status = "closed" => file = NoMessage /\ queue = <<>>
    /\ status = "closing" => asked = "ok"
    /\ status = "open" /\ asked = "nothing" => file = NoMessage /\ queue = <<>>
    /\ asked \in {"ok", "list", "greeting"} => OneAnswer(status, file, queue, asked, key)
    /\ status = "open" /\ asked = "retr" =>
          /\ queue # <<>>
          /\ \E k \in Mails : /\ key = {k}
                              /\ \/ ReadsOn(k, got, file, queue)
                                 \/ HasRead(k, got, file, queue)
    /\ \A k \in key : Begun(k, got, queue)

GoesOn(c, p) == Goes(c.status, c.file, c.queue, p.asked, p.key, p.got)

PopInv ==
    /\ mailbox \subseteq Mails
    /\ pop \in [Sessions -> PopConnections] /\ client \in [Sessions -> PopClients]
    /\ \A s \in Sessions : GoesOn(pop[s], client[s])

LEMMA PopWord == ASSUME NEW w \in {"ok", "list", "chunk", "end"} PROVE Word(w) \in PopWords
<1>1. {} \in SUBSET Mails
  OBVIOUS
<1>2. [what |-> w, of |-> {}, part |-> 0] \in PopWords
  BY <1>1 DEF PopWords
<1> QED BY <1>2 DEF Word

LEMMA PopPart == ASSUME NEW k \in Mails, NEW n \in Nat PROVE Part({k}, n) \in PopWords
  BY DEF Part, PopWords

LEMMA Listed ==
    ASSUME NEW S, NEW n \in Nat, NEW f \in [1 .. n -> S]
    PROVE  f \in Seq(S) /\ Len(f) = n
  OBVIOUS

LEMMA Joined ==
    ASSUME NEW S, NEW u \in Seq(S), NEW v \in Seq(S), NEW w, w = u \o v
    PROVE  /\ w \in Seq(S) /\ Len(w) = Len(u) + Len(v)
           /\ \A i \in 1 .. Len(u) : w[i] = u[i]
           /\ \A i \in 1 .. Len(v) : w[Len(u) + i] = v[i]
  OBVIOUS

LEMMA InitPop == PopInit => PopInv
<1> SUFFICES ASSUME PopInit PROVE PopInv
  OBVIOUS
<1>1. Word("ok") \in PopWords /\ NoMessage \in PopFiles
  BY DEF Word, PopWords, NoMessage, PopFiles
<1>2. PICK q : q = <<[said |-> Word("ok"), next |-> FALSE]>>
  OBVIOUS
<1>3. q \in Seq(PopItems) /\ Len(q) = 1 /\ ~q[1].next
  BY <1>1, <1>2 DEF PopItems
<1>4. PICK c : c = [status |-> "open", state |-> "helo", count |-> 0, keys |-> <<>>,
                    file |-> NoMessage, queue |-> q]
  OBVIOUS
<1>5. PICK p : p = [asked |-> "greeting", key |-> {}, got |-> <<>>, left |-> MaxLines]
  OBVIOUS
<1>6. c \in PopConnections /\ p \in PopClients
  BY <1>1, <1>3, <1>4, <1>5, PopAssumption DEF PopConnections, PopClients
<1>7. GoesOn(c, p)
  BY <1>3, <1>4, <1>5 DEF GoesOn, Goes, OneAnswer
<1>8. pop = [s \in Sessions |-> c] /\ client = [s \in Sessions |-> p]
  BY <1>2, <1>4, <1>5 DEF PopInit
<1> QED BY <1>6, <1>7, <1>8 DEF PopInit, PopInv

\* What has come is the first part of the whole answer.
LEMMA BegunIsPrefix ==
    ASSUME NEW k \in Mails, NEW got \in Seq(PopWords), NEW queue \in Seq(PopItems),
           Begun(k, got, queue)
    PROVE  IsPrefix(got \o [i \in 1 .. Len(queue) |-> queue[i].said], WholeAnswer(k))
<1> DEFINE sent == [i \in 1 .. Len(queue) |-> queue[i].said]
           parts == [i \in 1 .. Chunks[k] |-> Part({k}, i)]
<1>1. PICK n : n = Chunks[k]
  OBVIOUS
<1>2. n \in Nat
  BY <1>1, PopAssumption
<1>3. /\ Word("ok") \in PopWords /\ Word("end") \in PopWords
      /\ \A i \in 1 .. n : Part({k}, i) \in PopWords
  BY <1>2, PopWord, PopPart
<1>4. parts \in Seq(PopWords) /\ Len(parts) = n /\ \A i \in 1 .. n : parts[i] = Part({k}, i)
  <2>1. parts = [i \in 1 .. n |-> Part({k}, i)]
    BY <1>1
  <2>2. PICK f : f = parts
    OBVIOUS
  <2>3. f \in [1 .. n -> PopWords] /\ \A i \in 1 .. n : f[i] = Part({k}, i)
    BY <1>3, <2>1, <2>2
  <2>4. f \in Seq(PopWords) /\ Len(f) = n
    BY <1>2, <2>3, Listed
  <2> QED BY <2>2, <2>3, <2>4
<1>5. sent \in Seq(PopWords) /\ Len(sent) = Len(queue) /\ Len(queue) \in Nat
      /\ \A i \in 1 .. Len(queue) : sent[i] = queue[i].said
  <2>1. PICK m : m = Len(queue)
    OBVIOUS
  <2>2. m \in Nat /\ \A i \in 1 .. m : queue[i].said \in PopWords
    <3>1. m \in Nat /\ \A i \in 1 .. m : queue[i] \in PopItems
      BY <2>1
    <3>2. \A x \in PopItems : x.said \in PopWords
      BY DEF PopItems
    <3> QED BY <3>1, <3>2
  <2>3. PICK f : f = [i \in 1 .. m |-> queue[i].said]
    OBVIOUS
  <2>4. f \in [1 .. m -> PopWords] /\ \A i \in 1 .. m : f[i] = queue[i].said
    BY <2>2, <2>3
  <2>5. f \in Seq(PopWords) /\ Len(f) = m
    BY <2>2, <2>4, Listed
  <2> QED BY <2>1, <2>2, <2>3, <2>4, <2>5
<1>6. PICK w : w = WholeAnswer(k)
  OBVIOUS
<1>7. w \in Seq(PopWords) /\ Len(w) = n + 2 /\ \A i \in 1 .. n + 2 : w[i] = Nth(k, i)
  <2>1. w = (<<Word("ok")>> \o parts) \o <<Word("end")>>
    BY <1>6 DEF WholeAnswer
  <2>2. PICK v : v = <<Word("ok")>> \o parts
    OBVIOUS
  <2>3. /\ v \in Seq(PopWords) /\ Len(v) = n + 1 /\ v[1] = Word("ok")
        /\ \A i \in 2 .. n + 1 : v[i] = Part({k}, i - 1)
    <3>1. PICK f : f = parts
      OBVIOUS
    <3>2. f \in Seq(PopWords) /\ Len(f) = n /\ \A i \in 1 .. n : f[i] = Part({k}, i)
      BY <3>1, <1>4
    <3>3. v = <<Word("ok")>> \o f
      BY <2>2, <3>1
    <3>4. v \in Seq(PopWords) /\ Len(v) = n + 1 /\ v[1] = Word("ok")
      BY <3>2, <3>3, <1>2, <1>3
    <3>5. \A i \in 2 .. n + 1 : v[i] = f[i - 1] /\ i - 1 \in 1 .. n
      BY <3>2, <3>3, <1>2
    <3> QED BY <3>2, <3>4, <3>5
  <2>4. /\ w \in Seq(PopWords) /\ Len(w) = n + 2 /\ w[n + 2] = Word("end")
        /\ \A i \in 1 .. n + 1 : w[i] = v[i]
    <3>1. PICK u : u = <<Word("end")>>
      OBVIOUS
    <3>2. u \in Seq(PopWords) /\ Len(u) = 1 /\ u[1] = Word("end") /\ w = v \o u
      BY <3>1, <1>3, <2>1, <2>2
    <3>6. v \in Seq(PopWords) /\ u \in Seq(PopWords) /\ w = v \o u
      BY <2>3, <3>2
    <3>7. /\ w \in Seq(PopWords) /\ Len(w) = Len(v) + Len(u)
          /\ \A i \in 1 .. Len(v) : w[i] = v[i]
          /\ \A i \in 1 .. Len(u) : w[Len(v) + i] = u[i]
      BY ONLY <3>6, Joined
    <3>3. /\ w \in Seq(PopWords) /\ Len(w) = n + 1 + 1
          /\ \A i \in 1 .. Len(v) : w[i] = v[i]
          /\ \A i \in 1 .. Len(u) : w[Len(v) + i] = u[i]
      BY <3>2, <3>7, <2>3
    <3>4. n + 1 + 1 = n + 2 /\ 1 \in 1 .. Len(u)
      BY <1>2, <3>2
    <3>5. w[n + 2] = u[1]
      BY <3>3, <3>4, <2>3
    <3> QED BY <3>2, <3>3, <3>4, <3>5, <2>3
  <2>5. ASSUME NEW i \in 1 .. n + 2 PROVE w[i] = Nth(k, i)
    <3>1. CASE i = n + 2
      BY <3>1, <2>4, <1>1, <1>2 DEF Nth
    <3>2. CASE i = 1
      BY <3>2, <2>3, <2>4, <1>1, <1>2 DEF Nth
    <3>3. CASE i # 1 /\ i # n + 2
      <4>1. i \in 2 .. n + 1 /\ i \in 1 .. n + 1
        BY <3>3, <1>2
      <4>2. w[i] = Part({k}, i - 1)
        BY <4>1, <2>3, <2>4
      <4>3. Nth(k, i) = Part({k}, i - 1)
        BY <3>3, <1>1 DEF Nth
      <4> QED BY <4>2, <4>3
    <3> QED BY <3>1, <3>2, <3>3
  <2> QED BY <2>4, <2>5
<1>8. PICK t : t = got \o sent
  OBVIOUS
<1>9. /\ t \in Seq(PopWords) /\ Len(t) = Len(got) + Len(queue)
      /\ \A i \in 1 .. Len(t) : t[i] = Nth(k, i)
  <2>1. PICK l : l = Len(got)
    OBVIOUS
  <2>2. /\ t \in Seq(PopWords) /\ Len(t) = l + Len(queue) /\ l \in Nat
        /\ \A i \in 1 .. l : t[i] = got[i]
        /\ \A i \in l + 1 .. Len(t) : t[i] = sent[i - l]
    BY <1>5, <1>8, <2>1
  <2>3. \A i \in l + 1 .. Len(t) : i - l \in 1 .. Len(queue) /\ l + (i - l) = i
    BY <2>2, <1>5
  <2>4. \A i \in 1 .. Len(queue) : queue[i].said = Nth(k, l + i)
    BY <2>1 DEF Begun
  <2>5. ASSUME NEW i \in l + 1 .. Len(t) PROVE t[i] = Nth(k, i)
    BY <2>2, <2>3, <2>4, <1>5
  <2>6. ASSUME NEW i \in 1 .. l PROVE t[i] = Nth(k, i)
    BY <2>1, <2>2 DEF Begun
  <2>7. \A i \in 1 .. Len(t) : i \in 1 .. l \/ i \in l + 1 .. Len(t)
    BY <2>2
  <2> QED BY <2>1, <2>2, <2>5, <2>6, <2>7
<1>10. Len(t) <= Len(w) /\ \A i \in 1 .. Len(t) : t[i] = w[i]
  BY <1>1, <1>2, <1>7, <1>9 DEF Begun
<1>11. SubSeq(t, 1, Len(t)) = SubSeq(w, 1, Len(t))
  BY <1>7, <1>9, <1>10
<1> QED BY <1>6, <1>8, <1>10, <1>11 DEF IsPrefix

\* The properties of sessions follow.
LEMMA SafePop == PopInv => PopSafety
<1> SUFFICES ASSUME PopInv PROVE PopSafety
  OBVIOUS
<1>1. ASSUME NEW s \in Sessions, NEW k \in client[s].key
      PROVE  IsPrefix(client[s].got \o [i \in 1 .. Len(pop[s].queue) |->
                                           pop[s].queue[i].said], WholeAnswer(k))
  <2>1. pop[s] \in PopConnections /\ client[s] \in PopClients /\ GoesOn(pop[s], client[s])
    BY DEF PopInv
  <2>2. k \in Mails /\ client[s].got \in Seq(PopWords) /\ pop[s].queue \in Seq(PopItems)
    BY <2>1 DEF PopConnections, PopClients
  <2>3. Begun(k, client[s].got, pop[s].queue)
    BY <2>1 DEF GoesOn, Goes
  <2> QED BY <2>2, <2>3, BegunIsPrefix
<1>2. ASSUME NEW s \in Sessions, pop[s].status = "open", client[s].asked # "nothing"
      PROVE  pop[s].queue # <<>>
  <2>1. client[s] \in PopClients /\ GoesOn(pop[s], client[s])
    BY DEF PopInv
  <2>2. client[s].asked \in {"ok", "list", "greeting", "retr"}
    BY <2>1, <1>2 DEF PopClients
  <2> QED BY <2>1, <2>2, <1>2 DEF GoesOn, Goes, OneAnswer
<1>3. ASSUME NEW s \in Sessions, pop[s].file # NoMessage
      PROVE  pop[s].status = "open" /\ client[s].asked = "retr"
  <2>1. pop[s] \in PopConnections /\ client[s] \in PopClients /\ GoesOn(pop[s], client[s])
    BY DEF PopInv
  <2>2. /\ client[s].asked \in {"greeting", "nothing", "ok", "list", "retr"}
        /\ pop[s].status \in {"open", "closing", "closed"}
    BY <2>1 DEF PopConnections, PopClients
  <2> QED BY <2>1, <2>2, <1>3 DEF GoesOn, Goes, OneAnswer
<1> QED BY <1>1, <1>2, <1>3 DEF PopInv, PopSafety, InFull, Answering, FilesClosed

LEMMA OneChanged ==
    ASSUME PopInv, NEW s \in Sessions, NEW c \in PopConnections, NEW p \in PopClients,
           pop' = [pop EXCEPT ![s] = c], client' = [client EXCEPT ![s] = p],
           mailbox' \subseteq Mails, GoesOn(c, p)
    PROVE  PopInv'
<1>1. /\ pop' \in [Sessions -> PopConnections] /\ client' \in [Sessions -> PopClients]
      /\ \A t \in Sessions : pop'[t] = IF t = s THEN c ELSE pop[t]
      /\ \A t \in Sessions : client'[t] = IF t = s THEN p ELSE client[t]
  BY DEF PopInv
<1>2. ASSUME NEW t \in Sessions PROVE GoesOn(pop'[t], client'[t])
  BY <1>1 DEF PopInv
<1> QED BY <1>1, <1>2 DEF PopInv

LEMMA SaysIs ==
    ASSUME NEW c \in PopConnections, NEW w \in PopWords, NEW b \in BOOLEAN, NEW d,
           d = Says(c, w, b)
    PROVE  /\ d \in PopConnections
           /\ d.status = c.status /\ d.keys = c.keys /\ d.file = c.file
           /\ d.queue = Append(c.queue, [said |-> w, next |-> b])
<1>1. PICK x : x = [said |-> w, next |-> b]
  OBVIOUS
<1>2. x \in PopItems
  BY <1>1 DEF PopItems
<1>3. d = [c EXCEPT !.queue = Append(@, x)]
  BY <1>1 DEF Says
<1>4. PICK q : q = Append(c.queue, x)
  OBVIOUS
<1>5. q \in Seq(PopItems)
  BY <1>2, <1>4 DEF PopConnections
<1>6. d = [c EXCEPT !.queue = q]
  BY <1>3, <1>4 DEF PopConnections
<1>7. /\ d \in PopConnections /\ d.queue = q
      /\ d.status = c.status /\ d.keys = c.keys /\ d.file = c.file
  BY <1>5, <1>6 DEF PopConnections
<1> QED BY <1>1, <1>4, <1>7

LEMMA PopClosedIs ==
    ASSUME NEW c \in PopConnections, NEW d, d = PopClosed(c)
    PROVE  /\ d \in PopConnections
           /\ d.status = "closed" /\ d.file = NoMessage /\ d.queue = <<>>
<1>1. NoMessage \in PopFiles
  <2>1. {} \in SUBSET Mails
    OBVIOUS
  <2> QED BY <2>1 DEF NoMessage, PopFiles
<1>2. <<>> \in Seq(PopItems)
  OBVIOUS
<1> QED BY <1>1, <1>2 DEF PopClosed, PopConnections

\* A client that has nothing asked knows an empty queue and no open file.
LEMMA IdleHasNothing ==
    ASSUME PopInv, NEW s \in Sessions, ClientIdle(s)
    PROVE  /\ pop[s] \in PopConnections /\ pop[s].status = "open"
           /\ pop[s].file = NoMessage /\ pop[s].queue = <<>>
           /\ client[s] \in PopClients /\ client[s].left \in Int
  BY DEF PopInv, ClientIdle, GoesOn, Goes, PopClients

\* the connection has one answer to give, or is closed
GivesOne(d, word) ==
    /\ d \in PopConnections /\ d.file = NoMessage
    /\ \/ d.status = "closed" /\ d.queue = <<>>
       \/ /\ d.status = "open" \/ (d.status = "closing" /\ word = "ok")
          /\ d.queue = <<[said |-> Word(word), next |-> FALSE]>>

\* An answer to what is asked without a message.
LEMMA AskOne ==
    ASSUME PopInv, NEW s \in Sessions, NEW word \in {"ok", "list"}, NEW d,
           Asks(s, word, {}, d), ClientIdle(s) => GivesOne(d, word),
           mailbox' \subseteq Mails
    PROVE  PopInv'
<1>1. ClientIdle(s) /\ GivesOne(d, word)
  BY DEF Asks
<1>2. PICK l : l = IF pop[s].state = "session" THEN client[s].left - 1 ELSE client[s].left
  OBVIOUS
<1>3. l \in Int
  BY <1>1, <1>2, IdleHasNothing
<1>4. PICK p : p = [asked |-> word, key |-> {}, got |-> <<>>, left |-> l]
  OBVIOUS
<1>5. p \in PopClients
  BY <1>3, <1>4 DEF PopClients
<1>6. client' = [client EXCEPT ![s] = p] /\ pop' = [pop EXCEPT ![s] = d]
  BY <1>2, <1>4 DEF Asks, PopInv
<1>7. GoesOn(d, p)
  <2>1. /\ p.asked = word /\ p.asked \notin {"nothing", "retr", "greeting"}
        /\ p.key = {} /\ p.got = <<>>
    BY <1>4
  <2>2. CASE d.status = "closed"
    BY <2>1, <2>2, <1>1 DEF GoesOn, Goes, OneAnswer, GivesOne
  <2>3. CASE d.status # "closed"
    <3>1. PICK x : x = [said |-> Word(word), next |-> FALSE]
      OBVIOUS
    <3>2. d.queue = <<x>> /\ x.next = FALSE /\ x.said.what = word
      BY <3>1, <2>3, <1>1 DEF GivesOne, Word
    <3>3. Len(d.queue) = 1 /\ ~d.queue[1].next /\ d.queue[1].said.what = p.asked
      BY <3>2, <2>1
    <3> QED BY <3>3, <2>1, <2>3, <1>1 DEF GoesOn, Goes, OneAnswer, GivesOne
  <2> QED BY <2>2, <2>3
<1>8. d \in PopConnections
  BY <1>1 DEF GivesOne
<1> QED BY <1>5, <1>6, <1>7, <1>8, OneChanged

\* What is said to one who waited for nothing, or its connection closed.
LEMMA SaysOne ==
    ASSUME NEW c \in PopConnections, c.status = "open", c.file = NoMessage,
           c.queue = <<>>, NEW word \in {"ok", "list"}
    PROVE  /\ GivesOne(Says(c, Word(word), FALSE), word)
           /\ GivesOne(PopClosed(c), word)
<1>1. Word(word) \in PopWords /\ FALSE \in BOOLEAN
  BY PopWord
<1>2. PICK d : d = Says(c, Word(word), FALSE)
  OBVIOUS
<1>3. /\ d \in PopConnections /\ d.status = "open" /\ d.file = NoMessage
      /\ d.queue = Append(c.queue, [said |-> Word(word), next |-> FALSE])
  BY <1>1, <1>2, SaysIs
<1>4. d.queue = <<[said |-> Word(word), next |-> FALSE]>>
  BY <1>3
<1>5. GivesOne(d, word)
  BY <1>3, <1>4 DEF GivesOne
<1>6. GivesOne(PopClosed(c), word)
  BY PopClosedIs DEF GivesOne
<1> QED BY <1>2, <1>5, <1>6

LEMMA AskPop ==
    ASSUME PopInv, NEW s \in Sessions,
           OnCapa(s) \/ OnAuth(s) \/ OnStat(s) \/ OnLists(s) \/ OnQuit(s)
           \/ \E i \in 1 .. Cardinality(Mails) : OnDele(s, i)
    PROVE  PopInv'
<1>1. ClientIdle(s) /\ mailbox' \subseteq Mails
  BY DEF OnCapa, OnAuth, OnStat, OnLists, OnQuit, OnDele, Asks, PopInv
<1>2. PICK c : c = pop[s]
  OBVIOUS
<1>3. /\ c \in PopConnections /\ c.status = "open" /\ c.file = NoMessage /\ c.queue = <<>>
  BY <1>1, <1>2, IdleHasNothing
<1>4. Cardinality(mailbox) \in Nat
  BY PopAssumption, FS_Subset, FS_CardinalityType DEF PopInv
<1> DEFINE Plain(d) == d \in PopConnections /\ d.status = "open" /\ d.file = NoMessage
                       /\ d.queue = <<>>
<1>5. /\ Plain(c) /\ Plain([c EXCEPT !.state = "auth"])
      /\ Plain([c EXCEPT !.state = "session"])
      /\ Plain([c EXCEPT !.count = Cardinality(mailbox)])
      /\ \A o \in Listing : Plain([c EXCEPT !.keys = o])
  <2>1. ASSUME NEW o \in Listing PROVE o \in Seq(Mails)
    <3>1. o \in [1 .. Cardinality(mailbox) -> mailbox]
      BY DEF Listing, SetToSeqs
    <3>2. o \in [1 .. Cardinality(mailbox) -> Mails]
      BY <3>1 DEF PopInv
    <3> QED BY <3>2, <1>4, Listed
  <2>2. Plain(c) /\ Plain([c EXCEPT !.state = "auth"])
        /\ Plain([c EXCEPT !.state = "session"])
    BY <1>3 DEF PopConnections
  <2>3. Plain([c EXCEPT !.count = Cardinality(mailbox)])
    BY <1>3, <1>4 DEF PopConnections
  <2>4. ASSUME NEW o \in Listing PROVE Plain([c EXCEPT !.keys = o])
    BY <1>3, <2>1 DEF PopConnections
  <2> QED BY <2>2, <2>3, <2>4
<1>6. ASSUME NEW d, Plain(d), NEW w \in {"ok", "list"}
      PROVE  GivesOne(Says(d, Word(w), FALSE), w) /\ GivesOne(PopClosed(d), w)
  BY <1>6, SaysOne
<1> HIDE DEF Plain
<1>7. CASE OnCapa(s)
  <2>1. Asks(s, "list", {}, Capa(c)) /\ GivesOne(Capa(c), "list")
    BY <1>2, <1>5, <1>6, <1>7 DEF OnCapa, Capa
  <2> QED BY <2>1, <1>1, AskOne
<1>8. CASE OnAuth(s)
  <2>1. GivesOne(AcceptAuth(c), "ok")
    BY <1>5, <1>6 DEF AcceptAuth
  <2>2. \A right \in BOOLEAN : GivesOne(OnUser(c, right), "ok")
    BY <1>5, <1>6 DEF OnUser
  <2>3. CASE Asks(s, "ok", {}, AcceptAuth(c))
    BY <2>1, <2>3, <1>1, AskOne
  <2>4. ASSUME NEW right \in BOOLEAN, Asks(s, "ok", {}, OnUser(c, right)) PROVE PopInv'
    <3>1. GivesOne(OnUser(c, right), "ok")
      BY <2>2
    <3> QED BY <2>4, <3>1, <1>1, AskOne
  <2> QED BY <2>3, <2>4, <1>2, <1>8 DEF OnAuth
<1>9. CASE OnStat(s)
  <2> DEFINE d == Says([c EXCEPT !.count = Cardinality(mailbox)], Word("ok"), FALSE)
  <2>1. GivesOne(d, "ok")
    BY <1>5, <1>6
  <2>2. Asks(s, "ok", {}, d)
    BY <1>2, <1>9 DEF OnStat
  <2> QED BY <2>1, <2>2, <1>1, AskOne
<1>10. CASE OnLists(s)
  <2>1. PICK w \in {"ok", "list"} : w = IF c.count = 0 THEN "ok" ELSE "list"
    OBVIOUS
  <2>2. CASE Asks(s, w, {}, ListSizes(c))
    <3>1. GivesOne(ListSizes(c), w)
      BY <1>5, <1>6, <2>1 DEF ListSizes
    <3> QED BY <3>1, <2>2, <1>1, AskOne
  <2>3. ASSUME NEW o \in Listing, Asks(s, w, {}, ListKeys(c, o)) PROVE PopInv'
    <3>1. GivesOne(ListKeys(c, o), w)
      <4>1. PICK d : d = [c EXCEPT !.keys = o]
        OBVIOUS
      <4>2. GivesOne(Says(d, Word(w), FALSE), w) /\ GivesOne(PopClosed(d), w)
        BY <4>1, <1>5, <1>6
      <4>3. /\ ListKeys(c, o) = IF c.count > Len(o) THEN PopClosed(d)
                                ELSE Says(d, Word(w), FALSE)
        BY <4>1, <2>1 DEF ListKeys
      <4> QED BY <4>2, <4>3
    <3> QED BY <3>1, <2>3, <1>1, AskOne
  <2> QED BY <2>1, <2>2, <2>3, <1>2, <1>10 DEF OnLists
<1>11. CASE OnQuit(s)
  <2>1. PICK d : d = Says(c, Word("ok"), FALSE)
    OBVIOUS
  <2>2. GivesOne(d, "ok") /\ d.status = "open"
    BY <2>1, <1>3, <1>5, <1>6, PopWord, SaysIs
  <2>3. PICK e : e = FlushClose(d)
    OBVIOUS
  <2>4. /\ e \in PopConnections /\ e.status = "closing" /\ e.file = d.file
        /\ e.queue = d.queue
    BY <2>2, <2>3 DEF FlushClose, GivesOne, PopConnections
  <2>5. GivesOne(e, "ok")
    BY <2>2, <2>4 DEF GivesOne
  <2>6. Asks(s, "ok", {}, e)
    BY <2>1, <2>3, <1>2, <1>11 DEF OnQuit
  <2> QED BY <2>5, <2>6, <1>1, AskOne
<1>12. ASSUME NEW i \in 1 .. Cardinality(Mails), OnDele(s, i) PROVE PopInv'
  <2>1. PICK d : d = IF pop[s].keys[i] \in mailbox THEN Says(pop[s], Word("ok"), FALSE)
                     ELSE PopClosed(pop[s])
    OBVIOUS
  <2>2. GivesOne(d, "ok")
    BY <2>1, <1>2, <1>5, <1>6
  <2>3. Asks(s, "ok", {}, d)
    BY <2>1, <1>12 DEF OnDele
  <2> QED BY <2>2, <2>3, <1>1, AskOne
<1> QED BY <1>7, <1>8, <1>9, <1>10, <1>11, <1>12

\* One more of the answer in the queue.
LEMMA BegunOn ==
    ASSUME NEW k \in Mails, NEW got \in Seq(PopWords), NEW queue \in Seq(PopItems),
           Begun(k, got, queue), NEW x \in PopItems, NEW q, q = Append(queue, x),
           x.said = Nth(k, Len(got) + Len(queue) + 1),
           Len(got) + Len(queue) < Chunks[k] + 2
    PROVE  /\ Begun(k, got, q) /\ q # <<>> /\ Len(q) = Len(queue) + 1
           /\ \A i \in 1 .. Len(q) : (i \in 1 .. Len(queue) /\ q[i] = queue[i]) \/ q[i] = x
<1>1. PICK n : n = Chunks[k]
  OBVIOUS
<1>2. PICK l : l = Len(got)
  OBVIOUS
<1>3. PICK m : m = Len(queue)
  OBVIOUS
<1>4. n \in Nat /\ l \in Nat /\ m \in Nat /\ l + m < n + 2
  BY <1>1, <1>2, <1>3, PopAssumption
<1>5. /\ q \in Seq(PopItems) /\ Len(q) = m + 1 /\ q[m + 1] = x
      /\ \A i \in 1 .. m : q[i] = queue[i]
  BY <1>3, <1>4
<1>6. ASSUME NEW i \in 1 .. m + 1 PROVE q[i].said = Nth(k, l + i)
  <2>1. CASE i = m + 1
    <3>1. l + i = l + m + 1
      BY <2>1, <1>4
    <3> QED BY <3>1, <2>1, <1>2, <1>3, <1>5
  <2>2. CASE i # m + 1
    <3>1. i \in 1 .. m
      BY <2>2, <1>4
    <3> QED BY <3>1, <1>2, <1>3, <1>5 DEF Begun
  <2> QED BY <2>1, <2>2
<1>7. Begun(k, got, q)
  BY <1>1, <1>2, <1>4, <1>5, <1>6 DEF Begun
<1>8. q # <<>>
  BY <1>4, <1>5
<1>9. ASSUME NEW i \in 1 .. m + 1 PROVE (i \in 1 .. m /\ q[i] = queue[i]) \/ q[i] = x
  BY <1>4, <1>5
<1> QED BY <1>3, <1>5, <1>7, <1>8, <1>9

\* The first of the queue came.
LEMMA BegunCame ==
    ASSUME NEW k \in Mails, NEW got \in Seq(PopWords), NEW queue \in Seq(PopItems),
           Begun(k, got, queue), queue # <<>>, NEW g, g = Append(got, Head(queue).said)
    PROVE  Begun(k, g, Tail(queue))
<1>1. PICK l : l = Len(got)
  OBVIOUS
<1>2. PICK m : m = Len(queue)
  OBVIOUS
<1>3. PICK x : x = queue[1]
  OBVIOUS
<1>4. PICK t : t = Tail(queue)
  OBVIOUS
<1>5. PICK w : w = x.said
  OBVIOUS
<1>6. l \in Nat /\ m \in Nat /\ m > 0 /\ x \in PopItems /\ Head(queue) = x
  BY <1>1, <1>2, <1>3
<1>7. w \in PopWords /\ w = Nth(k, l + 1)
  <2>1. w = Nth(k, Len(got) + 1)
    BY <1>2, <1>3, <1>5, <1>6 DEF Begun
  <2>2. \A y \in PopItems : y.said \in PopWords
    BY DEF PopItems
  <2> QED BY <2>1, <2>2, <1>1, <1>5, <1>6
<1>8. /\ t \in Seq(PopItems) /\ Len(t) = m - 1
      /\ \A i \in 1 .. m - 1 : t[i] = queue[i + 1]
  BY <1>2, <1>4, <1>6
<1>9. /\ g \in Seq(PopWords) /\ Len(g) = l + 1 /\ g[l + 1] = w
      /\ \A i \in 1 .. l : g[i] = got[i]
  <2>1. g = Append(got, w)
    BY <1>5, <1>6
  <2> QED BY <2>1, <1>1, <1>7
<1>10. Len(g) + Len(t) <= Chunks[k] + 2
  BY <1>1, <1>2, <1>6, <1>8, <1>9 DEF Begun
<1>11. ASSUME NEW i \in 1 .. l + 1 PROVE g[i] = Nth(k, i)
  <2>1. CASE i = l + 1
    BY <2>1, <1>7, <1>9
  <2>2. CASE i # l + 1
    <3>1. i \in 1 .. l
      BY <2>2, <1>6
    <3> QED BY <3>1, <1>1, <1>9 DEF Begun
  <2> QED BY <2>1, <2>2
<1>12. ASSUME NEW i \in 1 .. m - 1 PROVE t[i].said = Nth(k, l + 1 + i)
  <2>1. i + 1 \in 1 .. m /\ l + 1 + i = l + (i + 1)
    BY <1>6
  <2>2. queue[i + 1].said = Nth(k, l + (i + 1))
    BY <2>1, <1>1, <1>2 DEF Begun
  <2> QED BY <2>1, <2>2, <1>8
<1>13. Begun(k, g, t)
  BY <1>8, <1>9, <1>10, <1>11, <1>12 DEF Begun
<1> QED BY <1>4, <1>13

\* The callback of a file goes on, to its end.
LEMMA ReadsChunk ==
    ASSUME NEW c \in PopConnections, NEW k \in Mails, NEW got \in Seq(PopWords),
           Begun(k, got, c.queue), ReadsOn(k, got, c.file, c.queue),
           NEW d, d = ReadChunk(c)
    PROVE  /\ d \in PopConnections /\ d.status = c.status /\ d.queue # <<>>
           /\ Begun(k, got, d.queue)
           /\ ReadsOn(k, got, d.file, d.queue) \/ HasRead(k, got, d.file, d.queue)
<1>1. PICK f : f = c.file
  OBVIOUS
<1>2. PICK n : n = Chunks[k]
  OBVIOUS
<1>3. PICK q : q = c.queue
  OBVIOUS
<1>4. PICK a : a = f.at
  OBVIOUS
<1>5. /\ f.of = {k} /\ a \in Nat /\ a <= n /\ n \in Nat /\ q \in Seq(PopItems)
      /\ Len(got) + Len(q) = a + 1 /\ \A i \in 1 .. Len(q) : q[i].next
      /\ Begun(k, got, q)
  BY <1>1, <1>2, <1>3, <1>4, PopAssumption DEF ReadsOn, PopConnections, PopFiles
<1>6. (\A j \in f.of : f.at < Chunks[j]) <=> a < n
  BY <1>2, <1>4, <1>5
<1>7. CASE a < n
  <2>1. PICK g : g = [of |-> {k}, at |-> a + 1]
    OBVIOUS
  <2>2. g \in PopFiles /\ g.of = {k} /\ g.at = a + 1
    BY <2>1, <1>5 DEF PopFiles
  <2>3. PICK e : e = [c EXCEPT !.file = g]
    OBVIOUS
  <2>4. /\ e \in PopConnections /\ e.file = g /\ e.queue = q /\ e.status = c.status
    BY <2>2, <2>3, <1>3 DEF PopConnections
  <2>5. PICK w : w = Part({k}, a + 1)
    OBVIOUS
  <2>6. w \in PopWords
    BY <2>5, <1>5, PopPart
  <2>7. d = Says(e, w, TRUE)
    BY <2>1, <2>3, <2>5, <1>1, <1>4, <1>5, <1>6, <1>7 DEF ReadChunk
  <2>8. PICK x : x = [said |-> w, next |-> TRUE]
    OBVIOUS
  <2>9. x \in PopItems /\ x.said = w /\ x.next
    BY <2>6, <2>8 DEF PopItems
  <2>10. /\ d \in PopConnections /\ d.status = c.status /\ d.file = g
         /\ d.queue = Append(q, x)
    BY <2>4, <2>6, <2>7, <2>8, SaysIs
  <2>11. w = Nth(k, Len(got) + Len(q) + 1)
    <3>1. Len(got) + Len(q) + 1 = a + 2 /\ a + 2 # 1 /\ a + 2 # n + 2 /\ (a + 2) - 1 = a + 1
      BY <1>5, <1>7
    <3> QED BY <3>1, <2>5, <1>2 DEF Nth
  <2>12. PICK r : r = d.queue
    OBVIOUS
  <2>13. Len(got) + Len(q) < Chunks[k] + 2
    BY <1>2, <1>5, <1>7
  <2>14. /\ Begun(k, got, r) /\ r # <<>> /\ Len(r) = Len(q) + 1
         /\ \A i \in 1 .. Len(r) : (i \in 1 .. Len(q) /\ r[i] = q[i]) \/ r[i] = x
    <3>1. /\ q \in Seq(PopItems) /\ Begun(k, got, q) /\ x \in PopItems
          /\ r = Append(q, x) /\ k \in Mails /\ got \in Seq(PopWords)
      BY <2>9, <2>10, <2>12, <1>5
    <3>2. x.said = Nth(k, Len(got) + Len(q) + 1)
      BY <2>9, <2>11
    <3>3. Begun(k, got, r) /\ r # <<>> /\ Len(r) = Len(q) + 1
      BY ONLY <3>1, <3>2, <2>13, BegunOn
    <3>4. \A i \in 1 .. Len(r) : (i \in 1 .. Len(q) /\ r[i] = q[i]) \/ r[i] = x
      BY <3>1
    <3> QED BY <3>3, <3>4
  <2>15. Len(got) + Len(r) = g.at + 1 /\ g.at <= Chunks[k]
    BY <2>2, <2>14, <1>2, <1>5, <1>7
  <2>16. \A i \in 1 .. Len(r) : r[i].next
    BY <2>9, <2>14, <1>5
  <2>17. ReadsOn(k, got, g, r)
    BY <2>2, <2>15, <2>16 DEF ReadsOn
  <2> QED BY <2>10, <2>12, <2>14, <2>17
<1>8. CASE ~(a < n)
  <2>1. NoMessage \in PopFiles
    <3>1. {} \in SUBSET Mails
      OBVIOUS
    <3> QED BY <3>1 DEF NoMessage, PopFiles
  <2>2. PICK e : e = [c EXCEPT !.file = NoMessage]
    OBVIOUS
  <2>3. /\ e \in PopConnections /\ e.file = NoMessage /\ e.queue = q /\ e.status = c.status
    BY <2>1, <2>2, <1>3 DEF PopConnections
  <2>4. Word("end") \in PopWords
    BY PopWord
  <2>5. d = Says(e, Word("end"), FALSE)
    BY <2>2, <1>1, <1>5, <1>6, <1>8 DEF ReadChunk
  <2>6. PICK x : x = [said |-> Word("end"), next |-> FALSE]
    OBVIOUS
  <2>7. x \in PopItems /\ x.said = Word("end")
    BY <2>4, <2>6 DEF PopItems
  <2>8. /\ d \in PopConnections /\ d.status = c.status /\ d.file = NoMessage
        /\ d.queue = Append(q, x)
    BY <2>3, <2>4, <2>5, <2>6, SaysIs
  <2>9. Word("end") = Nth(k, Len(got) + Len(q) + 1)
    <3>1. Len(got) + Len(q) + 1 = n + 2 /\ n + 2 # 1
      BY <1>5, <1>8
    <3> QED BY <3>1, <1>2 DEF Nth
  <2>10. PICK r : r = d.queue
    OBVIOUS
  <2>11. Len(got) + Len(q) < Chunks[k] + 2
    BY <1>2, <1>5, <1>8
  <2>12. Begun(k, got, r) /\ r # <<>> /\ Len(r) = Len(q) + 1
    <3>1. /\ q \in Seq(PopItems) /\ Begun(k, got, q) /\ x \in PopItems
          /\ r = Append(q, x) /\ k \in Mails /\ got \in Seq(PopWords)
      BY <2>7, <2>8, <2>10, <1>5
    <3>2. x.said = Nth(k, Len(got) + Len(q) + 1)
      BY <2>7, <2>9
    <3> QED BY ONLY <3>1, <3>2, <2>11, BegunOn
  <2>13. Len(got) + Len(r) = Chunks[k] + 2
    BY <2>12, <1>2, <1>5, <1>8
  <2>14. HasRead(k, got, NoMessage, r)
    BY <2>13 DEF HasRead
  <2> QED BY <2>8, <2>10, <2>12, <2>14
<1> QED BY <1>7, <1>8

\* A message is asked for.
LEMMA RetrPop ==
    ASSUME PopInv, NEW s \in Sessions, NEW i \in Nat \ {0}, OnRetr(s, i)
    PROVE  PopInv'
<1>1. ClientIdle(s) /\ mailbox' = mailbox /\ mailbox \subseteq Mails
  BY DEF OnRetr, Asks, PopInv
<1>2. PICK c : c = pop[s]
  OBVIOUS
<1>3. /\ c \in PopConnections /\ c.status = "open" /\ c.file = NoMessage /\ c.queue = <<>>
  BY <1>1, <1>2, IdleHasNothing
<1>4. PICK l : l = IF pop[s].state = "session" THEN client[s].left - 1 ELSE client[s].left
  OBVIOUS
<1>5. l \in Int
  BY <1>1, <1>4, IdleHasNothing
<1>6. PICK K : K = IF i \in DOMAIN c.keys THEN {c.keys[i]} ELSE {}
  OBVIOUS
<1>7. c.keys \in Seq(Mails) /\ K \in SUBSET Mails
  BY <1>3, <1>6 DEF PopConnections
<1>8. PICK p : p = [asked |-> "retr", key |-> K, got |-> <<>>, left |-> l]
  OBVIOUS
<1>9. /\ p \in PopClients /\ p.asked = "retr" /\ p.key = K /\ p.got = <<>>
      /\ p.asked \notin {"nothing", "ok", "list", "greeting"}
  BY <1>5, <1>7, <1>8 DEF PopClients
<1>10. PICK d : d = Retr(c, i)
  OBVIOUS
<1>11. client' = [client EXCEPT ![s] = p] /\ pop' = [pop EXCEPT ![s] = d]
  BY <1>2, <1>4, <1>6, <1>8, <1>10 DEF OnRetr, Asks, PopInv
<1>12. d \in PopConnections /\ GoesOn(d, p)
  <2>1. CASE i > Len(c.keys) \/ c.keys[i] \notin mailbox
    <3>1. d \in PopConnections /\ d.status = "closed" /\ d.file = NoMessage /\ d.queue = <<>>
      BY <2>1, <1>3, <1>10, PopClosedIs DEF Retr
    <3>2. \A k \in K : Begun(k, p.got, d.queue)
      BY <3>1, <1>7, <1>9, PopAssumption DEF Begun
    <3> QED BY <3>1, <3>2, <1>9 DEF GoesOn, Goes
  <2>2. CASE ~(i > Len(c.keys) \/ c.keys[i] \notin mailbox)
    <3>1. PICK k : k = c.keys[i]
      OBVIOUS
    <3>2. k \in Mails /\ K = {k}
      BY <3>1, <2>2, <1>1, <1>6, <1>7
    <3>3. PICK g : g = [of |-> {k}, at |-> 0]
      OBVIOUS
    <3>4. g \in PopFiles /\ g.of = {k} /\ g.at = 0
      BY <3>2, <3>3 DEF PopFiles
    <3>5. PICK e : e = [c EXCEPT !.file = g]
      OBVIOUS
    <3>6. e \in PopConnections /\ e.file = g /\ e.queue = <<>> /\ e.status = "open"
      BY <3>4, <3>5, <1>3 DEF PopConnections
    <3>7. PICK h : h = Says(e, Word("ok"), TRUE)
      OBVIOUS
    <3>8. PICK x : x = [said |-> Word("ok"), next |-> TRUE]
      OBVIOUS
    <3>9. Word("ok") \in PopWords
      BY PopWord
    <3>10. x \in PopItems /\ x.said = Word("ok") /\ x.next
      BY <3>8, <3>9 DEF PopItems
    <3>11. h \in PopConnections /\ h.file = g /\ h.status = "open" /\ h.queue = <<x>>
      <4>1. TRUE \in BOOLEAN
        OBVIOUS
      <4>2. /\ h \in PopConnections /\ h.file = g /\ h.status = "open"
            /\ h.queue = Append(e.queue, x)
        BY <4>1, <3>6, <3>7, <3>8, <3>9, SaysIs
      <4> QED BY <4>2, <3>6
    <3>12. PICK got \in Seq(PopWords) : got = <<>>
      <4>1. <<>> \in Seq(PopWords)
        OBVIOUS
      <4> QED BY <4>1
    <3>13. PICK q : q = h.queue
      OBVIOUS
    <3>14. q \in Seq(PopItems) /\ Len(q) = 1 /\ q[1] = x /\ Len(got) = 0
      BY <3>10, <3>11, <3>12, <3>13
    <3>15. Begun(k, got, q)
      <4>1. Len(got) + Len(q) <= Chunks[k] + 2
        BY <3>2, <3>14, PopAssumption
      <4>2. q[1].said = Nth(k, Len(got) + 1)
        BY <3>10, <3>14 DEF Nth
      <4>3. \A j \in 1 .. Len(q) : j = 1
        BY <3>14
      <4>4. \A j \in 1 .. Len(got) : FALSE
        BY <3>14
      <4> QED BY <4>1, <4>2, <4>3, <4>4 DEF Begun
    <3>16. ReadsOn(k, got, g, q)
      BY <3>2, <3>4, <3>10, <3>14, PopAssumption DEF ReadsOn
    <3>17. d = ReadChunk(h)
      BY <3>1, <3>3, <3>5, <3>7, <2>2, <1>10 DEF Retr
    <3>18. /\ d \in PopConnections /\ d.status = "open" /\ d.queue # <<>>
           /\ Begun(k, got, d.queue)
           /\ ReadsOn(k, got, d.file, d.queue) \/ HasRead(k, got, d.file, d.queue)
      BY <3>2, <3>11, <3>12, <3>13, <3>15, <3>16, <3>17, ReadsChunk
    <3> QED BY <3>2, <3>12, <3>18, <1>9 DEF GoesOn, Goes
  <2> QED BY <2>1, <2>2
<1> QED BY <1>1, <1>9, <1>11, <1>12, OneChanged

\* What is first in the queue is sent, and what its callback reads is said.
LEMMA SendPop == ASSUME PopInv, NEW s \in Sessions, SendNext(s) PROVE PopInv'
<1>1. PICK c : c = pop[s]
  OBVIOUS
<1>2. PICK p : p = client[s]
  OBVIOUS
<1>3. /\ c \in PopConnections /\ p \in PopClients /\ GoesOn(c, p) /\ c.queue # <<>>
      /\ mailbox' = mailbox /\ mailbox \subseteq Mails
  BY <1>1, <1>2 DEF PopInv, SendNext
<1>4. PICK q : q = c.queue
  OBVIOUS
<1>5. q \in Seq(PopItems) /\ q # <<>>
  BY <1>3, <1>4 DEF PopConnections
<1>6. PICK x : x = Head(q)
  OBVIOUS
<1>7. PICK t : t = Tail(q)
  OBVIOUS
<1>8. /\ x \in PopItems /\ x = q[1] /\ t \in Seq(PopItems) /\ Len(t) = Len(q) - 1
      /\ Len(q) \in Nat /\ Len(q) > 0
  BY <1>5, <1>6, <1>7
<1>9. x.said \in PopWords /\ x.next \in BOOLEAN
  BY <1>8 DEF PopItems
<1>10. PICK e : e = [c EXCEPT !.queue = t]
  OBVIOUS
<1>11. /\ e \in PopConnections /\ e.queue = t /\ e.status = c.status /\ e.file = c.file
  BY <1>3, <1>8, <1>10 DEF PopConnections
<1>12. PICK d : d = IF x.next THEN ReadChunk(e) ELSE e
  OBVIOUS
<1>13. PICK f : f = IF d.queue = <<>> /\ d.status = "closing" THEN PopClosed(d) ELSE d
  OBVIOUS
<1>14. PICK v : v = IF p.asked = "greeting"
                       \/ x.said.what = (IF p.asked = "retr" THEN "end" ELSE p.asked)
                    THEN "nothing" ELSE p.asked
  OBVIOUS
<1>15. PICK g : g = Append(p.got, x.said)
  OBVIOUS
<1>16. PICK r : r = [asked |-> v, key |-> p.key, got |-> g, left |-> p.left]
  OBVIOUS
<1>17. /\ p.asked \in {"greeting", "nothing", "ok", "list", "retr"} /\ p.key \in SUBSET Mails
       /\ p.got \in Seq(PopWords) /\ p.left \in Int
  BY <1>3 DEF PopClients
<1>18. g \in Seq(PopWords) /\ v \in {"greeting", "nothing", "ok", "list", "retr"}
  BY <1>9, <1>14, <1>15, <1>17
<1>19. r \in PopClients /\ r.asked = v /\ r.key = p.key /\ r.got = g
  BY <1>16, <1>17, <1>18 DEF PopClients
<1>20. pop' = [pop EXCEPT ![s] = f] /\ client' = [client EXCEPT ![s] = r]
  <2>1. [c EXCEPT !.queue = Tail(@)] = e
    BY <1>3, <1>4, <1>7, <1>10 DEF PopConnections
  <2>2. pop' = [pop EXCEPT ![s] = f]
    BY <2>1, <1>1, <1>4, <1>6, <1>12, <1>13 DEF SendNext
  <2>3. client' = [client EXCEPT ![s] = r]
    BY <1>1, <1>2, <1>4, <1>6, <1>14, <1>15, <1>16 DEF SendNext, PopInv
  <2> QED BY <2>2, <2>3
<1>21. c.status \in {"open", "closing", "closed"} /\ c.status # "closed"
  BY <1>3 DEF GoesOn, Goes, PopConnections
<1>22. p.asked # "nothing" /\ (c.status = "closing" => p.asked = "ok")
  BY <1>3, <1>21 DEF GoesOn, Goes
<1>23. ASSUME p.asked \in {"ok", "list", "greeting"} PROVE f \in PopConnections /\ GoesOn(f, r)
  <2>1. /\ c.file = NoMessage /\ p.key = {} /\ Len(q) = 1 /\ ~x.next
        /\ p.asked # "greeting" => x.said.what = p.asked
    BY <1>3, <1>4, <1>8, <1>21, <1>23 DEF GoesOn, Goes, OneAnswer
  <2>2. v = "nothing"
    BY <2>1, <1>14, <1>23
  <2>3. t = <<>> /\ d = e
    BY <2>1, <1>8, <1>12
  <2>4. /\ f \in PopConnections /\ f.file = NoMessage /\ f.queue = <<>>
        /\ f.status \in {"open", "closed"}
    <3>1. CASE c.status = "closing"
      BY <3>1, <2>1, <2>3, <1>11, <1>13, PopClosedIs
    <3>2. CASE c.status = "open"
      BY <3>2, <2>1, <2>3, <1>11, <1>13
    <3> QED BY <3>1, <3>2, <1>21
  <2>5. r.asked \notin {"ok", "list", "greeting", "retr"} /\ r.key = {}
    BY <2>1, <2>2, <1>19
  <2> QED BY <2>4, <2>5, <1>19 DEF GoesOn, Goes
<1>24. ASSUME p.asked = "retr" PROVE f \in PopConnections /\ GoesOn(f, r)
  <2>1. c.status = "open"
    BY <1>21, <1>22, <1>24
  <2>2. PICK k \in Mails : /\ p.key = {k}
                           /\ ReadsOn(k, p.got, c.file, q) \/ HasRead(k, p.got, c.file, q)
    BY <2>1, <1>3, <1>4, <1>24 DEF GoesOn, Goes
  <2>3. Begun(k, p.got, q)
    BY <2>2, <1>3, <1>4 DEF GoesOn, Goes
  <2>4. Begun(k, g, t)
    BY <2>3, <1>5, <1>6, <1>7, <1>15, <1>17, BegunCame
  <2>5. PICK n : n = Chunks[k]
    OBVIOUS
  <2>6. PICK l : l = Len(p.got)
    OBVIOUS
  <2>7. n \in Nat /\ l \in Nat /\ Len(g) = l + 1 /\ Len(g) + Len(t) = l + Len(q)
    BY <2>5, <2>6, <1>8, <1>9, <1>15, <1>17, PopAssumption
  <2>8. x.said = Nth(k, l + 1)
    BY <2>3, <2>6, <1>8 DEF Begun
  <2>9. CASE ReadsOn(k, p.got, c.file, q)
    <3>1. c.file.at <= n /\ l + Len(q) = c.file.at + 1 /\ c.file.at \in Nat
      BY <2>5, <2>6, <2>9, <1>3 DEF ReadsOn, PopConnections, PopFiles
    <3>2. x.next /\ \A i \in 1 .. Len(t) : t[i].next
      BY <2>9, <1>5, <1>7, <1>8 DEF ReadsOn
    <3>3. ReadsOn(k, g, e.file, e.queue)
      BY <2>7, <2>9, <3>1, <3>2, <1>11, <2>6 DEF ReadsOn
    <3>4. d = ReadChunk(e) /\ Begun(k, g, e.queue)
      BY <3>2, <2>4, <1>11, <1>12
    <3>5. /\ d \in PopConnections /\ d.status = "open" /\ d.queue # <<>>
          /\ Begun(k, g, d.queue)
          /\ ReadsOn(k, g, d.file, d.queue) \/ HasRead(k, g, d.file, d.queue)
      BY <3>3, <3>4, <2>1, <1>11, <1>18, ReadsChunk
    <3>6. x.said.what # "end"
      <4>1. l + 1 # n + 2
        BY <3>1, <2>7, <1>8
      <4> QED BY <4>1, <2>5, <2>8 DEF Nth, Word, Part
    <3>7. v = "retr" /\ f = d
      BY <3>5, <3>6, <1>13, <1>14, <1>24
    <3> QED BY <3>5, <3>7, <2>2, <1>19 DEF GoesOn, Goes
  <2>10. CASE HasRead(k, p.got, c.file, q)
    <3>1. c.file = NoMessage /\ l + Len(q) = n + 2
      BY <2>5, <2>6, <2>10 DEF HasRead
    <3>2. d = e
      BY <3>1, <1>11, <1>12 DEF ReadChunk, NoMessage
    <3>3. f = e /\ e.status = "open"
      BY <3>2, <2>1, <1>11, <1>13
    <3>4. HasRead(k, g, NoMessage, t)
      BY <3>1, <2>5, <2>7 DEF HasRead
    <3>5. CASE Len(q) = 1
      <4>1. l + 1 = n + 2 /\ l + 1 # 1
        BY <3>1, <3>5, <2>7
      <4>2. x.said.what = "end"
        BY <4>1, <2>5, <2>8 DEF Nth, Word
      <4>3. v = "nothing" /\ t = <<>>
        BY <4>2, <3>5, <1>8, <1>14, <1>24
      <4> QED BY <4>3, <3>1, <3>3, <2>2, <2>4, <1>11, <1>19 DEF GoesOn, Goes
    <3>6. CASE Len(q) # 1
      <4>1. l + 1 # n + 2 /\ t # <<>>
        BY <3>1, <3>6, <2>7, <1>8
      <4>2. x.said.what # "end"
        BY <4>1, <2>5, <2>8 DEF Nth, Word, Part
      <4>3. v = "retr"
        BY <4>2, <1>14, <1>24
      <4> QED BY <4>1, <4>3, <3>1, <3>3, <3>4, <2>2, <2>4, <1>11, <1>19 DEF GoesOn, Goes
    <3> QED BY <3>5, <3>6
  <2> QED BY <2>2, <2>9, <2>10
<1>25. f \in PopConnections /\ GoesOn(f, r)
  BY <1>17, <1>22, <1>23, <1>24
<1> QED BY <1>3, <1>19, <1>20, <1>25, OneChanged

\* A client that goes away leaves a closed connection.
LEMMA LeavesPop == ASSUME PopInv, NEW s \in Sessions, Disconnect(s) PROVE PopInv'
<1>1. PICK c : c = pop[s]
  OBVIOUS
<1>2. PICK p : p = client[s]
  OBVIOUS
<1>3. c \in PopConnections /\ p \in PopClients /\ GoesOn(c, p) /\ mailbox \subseteq Mails
  BY <1>1, <1>2 DEF PopInv
<1>4. PICK d : d = PopClosed(c)
  OBVIOUS
<1>5. d \in PopConnections /\ d.status = "closed" /\ d.file = NoMessage /\ d.queue = <<>>
  BY <1>3, <1>4, PopClosedIs
<1>6. /\ pop' = [pop EXCEPT ![s] = d] /\ client' = [client EXCEPT ![s] = p]
      /\ mailbox' = mailbox
  BY <1>1, <1>2, <1>4 DEF Disconnect, PopInv
<1>7. ASSUME NEW k \in p.key PROVE Begun(k, p.got, d.queue)
  <2>1. Begun(k, p.got, c.queue) /\ c.queue \in Seq(PopItems) /\ p.got \in Seq(PopWords)
        /\ k \in Mails
    BY <1>3 DEF GoesOn, Goes, PopConnections, PopClients
  <2>2. PICK m : m = Len(c.queue)
    OBVIOUS
  <2>3. m \in Nat /\ Len(p.got) \in Nat /\ Len(d.queue) = 0 /\ Chunks[k] \in Nat
    BY <2>1, <2>2, <1>5, PopAssumption
  <2>4. Len(p.got) + m <= Chunks[k] + 2 /\ \A i \in 1 .. Len(p.got) : p.got[i] = Nth(k, i)
    BY <2>1, <2>2 DEF Begun
  <2> QED BY <2>3, <2>4 DEF Begun
<1>8. GoesOn(d, p)
  BY <1>3, <1>5, <1>7 DEF GoesOn, Goes, OneAnswer
<1> QED BY <1>3, <1>5, <1>6, <1>8, OneChanged

\* What is sent for a message is all of it, in order and once, a client that
\* waits has something to come, and no file stays open (servers/pop.py).
THEOREM PopSafe == PopSpec => []PopSafety
<1>1. PopInv /\ [PopNext]_popVars => PopInv'
  <2> SUFFICES ASSUME PopInv, [PopNext]_popVars PROVE PopInv'
    OBVIOUS
  <2>1. ASSUME NEW s \in Sessions,
               OnCapa(s) \/ OnAuth(s) \/ OnStat(s) \/ OnLists(s) \/ OnQuit(s)
        PROVE  PopInv'
    BY <2>1, AskPop
  <2>2. Cardinality(Mails) \in Nat
    BY PopAssumption, FS_CardinalityType
  <2>3. ASSUME NEW s \in Sessions, NEW i \in 1 .. Cardinality(Mails), OnRetr(s, i)
        PROVE  PopInv'
    <3>1. i \in Nat \ {0}
      BY <2>2
    <3> QED BY <3>1, <2>3, RetrPop
  <2>4. ASSUME NEW s \in Sessions, NEW i \in 1 .. Cardinality(Mails), OnDele(s, i)
        PROVE  PopInv'
    BY <2>4, AskPop
  <2>5. ASSUME NEW s \in Sessions, SendNext(s) PROVE PopInv'
    BY <2>5, SendPop
  <2>6. ASSUME NEW s \in Sessions, Disconnect(s) PROVE PopInv'
    BY <2>6, LeavesPop
  <2>7. CASE UNCHANGED popVars
    BY <2>7 DEF popVars, PopInv
  <2> QED BY <2>1, <2>3, <2>4, <2>5, <2>6, <2>7 DEF PopNext
<1> QED BY InitPop, SafePop, <1>1, PTL DEF PopSpec

-----------------------------------------------------------------------------
(***************************************************************************)
(* Transfers of files over datagrams.                                      *)
(***************************************************************************)

Transfers == [at : Nat, sequence : Nat, completed : BOOLEAN]
Clients == [at : {"idle", "get", "done", "failed"}, got : Nat]

\* what the server says, and the clients
Answered == {Data(a, n, n) : a \in Addresses, n \in 1 .. blocks}
            \cup {Error(a) : a \in Addresses}
Asked == {ReadRequest(a) : a \in Addresses}
         \cup {Ack(a, n) : a \in Addresses, n \in Nat}

\* of the transfer of a
Of(d, a) == IF d.to = "server" THEN d.from = a ELSE d.to = a

\* d is what the transfer of a waits for, given what the server and the client know
Fits(d, a, s, p) ==
    \/ d = ReadRequest(a) /\ p.got = 0
    \/ d = Ack(a, p.got) /\ p.got > 0 /\ s.sequence = p.got /\ ~s.completed
    \/ d = Data(a, p.got + 1, p.got + 1) /\ s.sequence = p.got + 1
    \/ d = Error(a)

\* where nothing is lost, a transfer has one datagram, on its way or pending
InNet(a, s, p, N, Q) ==
    /\ \E d \in N : Of(d, a) /\ Fits(d, a, s, p) /\ \A e \in N : Of(e, a) => e = d
    /\ \A k \in 1 .. Len(Q) : ~Of(Q[k], a)
InQueue(a, s, p, N, Q) ==
    /\ \A e \in N : ~Of(e, a)
    /\ \E k \in 1 .. Len(Q) :
           /\ Of(Q[k], a) /\ Fits(Q[k], a, s, p)
           /\ \A l \in 1 .. Len(Q) : Of(Q[l], a) => l = k
Over(a, s, p, N, Q) ==
    /\ p.at = "idle" => p.got = 0
    /\ \A e \in N : Of(e, a) => p.at = "done" /\ e = Ack(a, p.got) /\ s.completed
    /\ \A k \in 1 .. Len(Q) : ~Of(Q[k], a)
Talks(a, s, p, N, Q) ==
    IF p.at = "get" THEN InNet(a, s, p, N, Q) \/ InQueue(a, s, p, N, Q)
                    ELSE Over(a, s, p, N, Q)

TftpTyped ==
    /\ faults \in Nat /\ blocks \in Nat
    /\ session \in [Addresses -> Transfers]
    /\ out \in [pending : Seq(Answered), wready : BOOLEAN, flush : BOOLEAN,
                writes : BOOLEAN]
    /\ net \subseteq Answered \cup Asked
    /\ peer \in [Addresses -> Clients]

\* a session has read as many parts as it has numbered
Numbered ==
    \A a \in Addresses :
        /\ session[a].at = session[a].sequence /\ session[a].at <= blocks
        /\ session[a].completed <=> session[a].at = blocks /\ blocks > 0

TftpInv ==
    /\ TftpTyped /\ Numbered /\ WillSend /\ WholeFile
    /\ faults = 0 => \A a \in Addresses : Talks(a, session[a], peer[a], net, out.pending)

\* What a datagram is of.
LEMMA Said ==
    ASSUME NEW a \in Addresses, NEW n, NEW m
    PROVE  /\ Data(a, n, m).to = a /\ Data(a, n, m).op = "data"
           /\ Data(a, n, m).block = n /\ Data(a, n, m).part = m
           /\ Error(a).to = a /\ Error(a).op = "error"
           /\ ReadRequest(a).to = "server" /\ ReadRequest(a).from = a
           /\ ReadRequest(a).op = "rrq"
           /\ Ack(a, n).to = "server" /\ Ack(a, n).from = a /\ Ack(a, n).op = "ack"
           /\ Ack(a, n).block = n
           /\ Of(Data(a, n, m), a) /\ Of(Error(a), a)
           /\ Of(ReadRequest(a), a) /\ Of(Ack(a, n), a)
           /\ a # "server"
  BY TftpAssumption DEF Data, Error, ReadRequest, Ack, Of

LEMMA AnsweredIs ==
    ASSUME NEW d \in Answered
    PROVE  /\ d.to \in Addresses /\ d.to # "server"
           /\ \/ d.op = "data" /\ d.block \in 1 .. blocks /\ d.part = d.block
                 /\ d = Data(d.to, d.block, d.block)
              \/ d.op = "error" /\ d = Error(d.to)
  BY Said, TftpAssumption DEF Answered

LEMMA AskedIs ==
    ASSUME NEW d \in Asked
    PROVE  /\ d.to = "server" /\ d.from \in Addresses
           /\ \/ d.op = "rrq" /\ d = ReadRequest(d.from)
              \/ d.op = "ack" /\ d.block \in Nat /\ d = Ack(d.from, d.block)
  BY Said DEF Asked

\* A datagram is of one transfer.
LEMMA OfOne ==
    ASSUME NEW d, NEW a \in Addresses, NEW b \in Addresses, Of(d, a), Of(d, b)
    PROVE  a = b
  BY DEF Of

\* What is sent of the queue is on its way.
LEMMA TalksOn ==
    ASSUME NEW a, NEW s, NEW p, NEW N, NEW S, NEW Q \in Seq(S), Talks(a, s, p, N, Q),
           NEW i \in 0 .. Len(Q)
    PROVE  Talks(a, s, p, N \cup {Q[k] : k \in 1 .. i}, SubSeq(Q, i + 1, Len(Q)))
<1> DEFINE M == N \cup {Q[k] : k \in 1 .. i}
           R == SubSeq(Q, i + 1, Len(Q))
<1>1. /\ Len(R) = Len(Q) - i /\ Len(R) \in Nat /\ Len(Q) \in Nat /\ i \in Nat
      /\ \A k \in 1 .. Len(R) : R[k] = Q[k + i] /\ k + i \in 1 .. Len(Q)
      /\ \A k \in 1 .. Len(Q) : k > i => k - i \in 1 .. Len(R) /\ R[k - i] = Q[k]
  OBVIOUS
<1>2. \A e \in M : e \in N \/ \E k \in 1 .. Len(Q) : k <= i /\ e = Q[k]
  BY <1>1
<1>3. \A k \in 1 .. Len(Q) : k <= i => Q[k] \in M
  BY <1>1
<1> HIDE DEF M, R
<1>4. N \subseteq M
  BY DEF M
<1>5. CASE p.at # "get"
  BY <1>5, <1>1, <1>2 DEF Talks, Over
<1>6. CASE InNet(a, s, p, N, Q) /\ p.at = "get"
  <2>1. InNet(a, s, p, M, R)
    BY <1>6, <1>1, <1>2, <1>4 DEF InNet
  <2> QED BY <2>1, <1>6 DEF Talks, M, R
<1>7. CASE InQueue(a, s, p, N, Q) /\ p.at = "get"
  <2>1. PICK k \in 1 .. Len(Q) :
            /\ Of(Q[k], a) /\ Fits(Q[k], a, s, p)
            /\ \A l \in 1 .. Len(Q) : Of(Q[l], a) => l = k
    BY <1>7 DEF InQueue
  <2>2. \A e \in N : ~Of(e, a)
    BY <1>7 DEF InQueue
  <2>3. CASE k <= i
    <3>1. Q[k] \in M /\ \A e \in M : Of(e, a) => e = Q[k]
      BY <2>1, <2>2, <2>3, <1>2, <1>3
    <3>2. \A l \in 1 .. Len(R) : ~Of(R[l], a)
      BY <2>1, <2>3, <1>1
    <3>3. InNet(a, s, p, M, R)
      BY <2>1, <3>1, <3>2 DEF InNet
    <3> QED BY <3>3, <1>7 DEF Talks, M, R
  <2>4. CASE k > i
    <3>1. k - i \in 1 .. Len(R) /\ R[k - i] = Q[k]
      BY <2>4, <1>1
    <3>2. \A l \in 1 .. Len(R) : Of(R[l], a) => l = k - i
      BY <2>1, <1>1
    <3>3. \A e \in M : ~Of(e, a)
      <4> SUFFICES ASSUME NEW e \in M, Of(e, a) PROVE FALSE
        OBVIOUS
      <4>1. PICK l \in 1 .. Len(Q) : l <= i /\ e = Q[l]
        BY <1>2, <2>2
      <4>2. l = k
        BY <4>1, <2>1
      <4> QED BY <4>1, <4>2, <2>4, <1>1
    <3>4. InQueue(a, s, p, M, R)
      BY <2>1, <3>1, <3>2, <3>3 DEF InQueue
    <3> QED BY <3>4, <1>7 DEF Talks, M, R
  <2> QED BY <2>3, <2>4, <1>1
<1> QED BY <1>5, <1>6, <1>7 DEF Talks, M, R

\* What is of other transfers does not matter.
LEMMA TalksApart ==
    ASSUME NEW a, NEW s, NEW p, NEW N, NEW M, NEW S, NEW Q \in Seq(S), NEW R \in Seq(S),
           Talks(a, s, p, N, Q), \A e : Of(e, a) => (e \in M <=> e \in N),
           \/ R = Q
           \/ \E d \in S : R = Append(Q, d) /\ ~Of(d, a)
    PROVE  Talks(a, s, p, M, R)
<1>1. /\ Len(Q) \in Nat /\ Len(R) \in Nat /\ Len(Q) <= Len(R)
      /\ \A k \in 1 .. Len(Q) : k \in 1 .. Len(R) /\ R[k] = Q[k]
      /\ \A k \in 1 .. Len(R) : Of(R[k], a) => k \in 1 .. Len(Q) /\ R[k] = Q[k]
  <2>1. CASE R = Q
    BY <2>1
  <2>2. CASE R # Q
    <3>1. PICK d \in S : R = Append(Q, d) /\ ~Of(d, a)
      BY <2>2
    <3>2. /\ Len(R) = Len(Q) + 1 /\ Len(Q) \in Nat
          /\ \A k \in 1 .. Len(R) : R[k] = IF k = Len(Q) + 1 THEN d ELSE Q[k]
      BY <3>1
    <3> QED BY <3>1, <3>2
  <2> QED BY <2>1, <2>2
<1>2. CASE p.at # "get"
  BY <1>1, <1>2 DEF Talks, Over
<1>3. CASE p.at = "get" /\ InNet(a, s, p, N, Q)
  <2>1. InNet(a, s, p, M, R)
    BY <1>1, <1>3 DEF InNet
  <2> QED BY <2>1, <1>3 DEF Talks
<1>4. CASE p.at = "get" /\ InQueue(a, s, p, N, Q)
  <2>1. PICK k \in 1 .. Len(Q) :
            /\ Of(Q[k], a) /\ Fits(Q[k], a, s, p)
            /\ \A l \in 1 .. Len(Q) : Of(Q[l], a) => l = k
    BY <1>4 DEF InQueue
  <2>2. k \in 1 .. Len(R) /\ R[k] = Q[k] /\ \A l \in 1 .. Len(R) : Of(R[l], a) => l = k
    BY <2>1, <1>1
  <2>3. \A e \in M : ~Of(e, a)
    BY <1>4 DEF InQueue
  <2>4. InQueue(a, s, p, M, R)
    BY <2>1, <2>2, <2>3 DEF InQueue
  <2> QED BY <2>4, <1>4 DEF Talks
<1> QED BY <1>2, <1>3, <1>4 DEF Talks

LEMMA InitTftp == TftpInit => TftpInv
<1> SUFFICES ASSUME TftpInit PROVE TftpInv
  OBVIOUS
<1>1. TftpTyped /\ Numbered /\ WillSend /\ WholeFile
  BY TftpAssumption DEF TftpInit, TftpTyped, Numbered, WillSend, WholeFile, NoSession,
     Transfers, Clients
<1>2. \A a \in Addresses : Talks(a, session[a], peer[a], net, out.pending)
  BY DEF TftpInit, Talks, Over
<1> QED BY <1>1, <1>2 DEF TftpInv

LEMMA SafeTftp == TftpInv => TftpSafety
<1> SUFFICES ASSUME TftpInv PROVE TftpSafety
  OBVIOUS
<1>1. RightParts
  <2> SUFFICES ASSUME NEW d \in net \cup ToSet(out.pending), d.op = "data"
      PROVE d.block = d.part
    BY DEF RightParts
  <2>1. d \in Answered \cup Asked
    BY DEF TftpInv, TftpTyped, ToSet
  <2> QED BY <2>1, AnsweredIs, AskedIs
<1>2. NotStuck
  <2> SUFFICES ASSUME faults = 0, net = {}, out.pending = <<>>, NEW a \in Addresses
      PROVE peer[a].at # "get"
    BY DEF NotStuck
  <2>1. Talks(a, session[a], peer[a], net, out.pending)
    BY DEF TftpInv
  <2>2. \A k \in 1 .. Len(out.pending) : FALSE
    OBVIOUS
  <2> QED BY <2>1, <2>2 DEF Talks, InNet, InQueue
<1>3. \A a \in Addresses : session[a].sequence \in 0 .. blocks
  BY DEF TftpInv, Numbered, TftpTyped, Transfers
<1> QED BY <1>1, <1>2, <1>3 DEF TftpInv, TftpSafety

\* Some of the queue is sent.
LEMMA SendTftp ==
    ASSUME TftpInv, NEW i \in 0 .. Len(out.pending), SendPending(i),
           UNCHANGED <<faults, blocks, session, peer>>
    PROVE  TftpInv'
<1> DEFINE Q == out.pending
           R == SubSeq(Q, i + 1, Len(Q))
<1>1. /\ Q \in Seq(Answered) /\ Len(Q) \in Nat /\ R \in Seq(Answered) /\ Len(R) = Len(Q) - i
      /\ \A k \in 1 .. i : Q[k] \in Answered
  BY DEF TftpInv, TftpTyped
<1>2. /\ net' = net \cup {Q[k] : k \in 1 .. i}
      /\ out' = [pending |-> R, wready |-> i = Len(Q), flush |-> FALSE, writes |-> i < Len(Q)]
  BY DEF SendPending
<1>3. out'.pending = R /\ out'.wready = (i = Len(Q)) /\ out'.writes = (i < Len(Q))
  BY <1>2
<1>4. Answered' = Answered
  BY DEF Answered
<1>5. net' \subseteq Answered \cup Asked
  BY <1>1, <1>2 DEF TftpInv, TftpTyped
<1>6. TftpTyped'
  <2>1. out' \in [pending : Seq(Answered), wready : BOOLEAN, flush : BOOLEAN,
                  writes : BOOLEAN]
    BY <1>1, <1>2
  <2> QED BY <2>1, <1>4, <1>5 DEF TftpInv, TftpTyped, Asked
<1>7. WillSend'
  <2>1. R # <<>> => i < Len(Q) /\ i # Len(Q)
    BY <1>1
  <2> QED BY <2>1, <1>3 DEF WillSend
<1>8. Numbered' /\ WholeFile'
  BY DEF TftpInv, Numbered, WholeFile
<1>9. ASSUME faults = 0, NEW a \in Addresses
      PROVE Talks(a, session[a], peer[a], net', R)
  <2>1. Talks(a, session[a], peer[a], net, Q)
    BY <1>9 DEF TftpInv
  <2> QED BY <2>1, <1>1, <1>2, TalksOn
<1>10. faults' = 0 => \A a \in Addresses : Talks(a, session'[a], peer'[a], net', out'.pending)
  BY <1>9, <1>3
<1> QED BY <1>6, <1>7, <1>8, <1>10 DEF TftpInv

\* What is sent joins the queue, and will be sent.
LEMMA SendToIs ==
    ASSUME TftpTyped, WillSend, NEW d \in Answered, SendTo(d)
    PROVE  /\ out' \in [pending : Seq(Answered), wready : BOOLEAN, flush : BOOLEAN,
                        writes : BOOLEAN]
           /\ out'.pending = Append(out.pending, d) /\ WillSend'
<1>1. /\ out'.pending = Append(out.pending, d) /\ out'.wready = out.wready
      /\ out'.flush = (out.flush \/ out.wready) /\ out'.writes = (out.writes \/ ~out.wready)
  BY DEF SendTo, TftpTyped
<1>2. out' \in [pending : Seq(Answered), wready : BOOLEAN, flush : BOOLEAN,
                writes : BOOLEAN]
  <2>1. out.pending \in Seq(Answered) /\ out.wready \in BOOLEAN
    BY DEF TftpTyped
  <2>2. Append(out.pending, d) \in Seq(Answered)
    BY <2>1
  <2>3. PICK q, f, w : q = Append(out.pending, d) /\ f = (out.flush \/ out.wready)
                       /\ w = (out.writes \/ ~out.wready)
    OBVIOUS
  <2>4. f \in BOOLEAN /\ w \in BOOLEAN
    BY <2>3
  <2>5. out' = [pending |-> q, wready |-> out.wready, flush |-> f, writes |-> w]
    BY <2>3 DEF SendTo, TftpTyped
  <2> QED BY <2>1, <2>2, <2>3, <2>4, <2>5
<1>3. CASE out.wready
  <2>1. out'.flush
    BY <1>1, <1>3
  <2> QED BY <2>1, <1>1, <1>2 DEF WillSend
<1>4. CASE ~out.wready
  <2>1. ~out'.wready /\ out'.writes
    BY <1>1, <1>4
  <2> QED BY <2>1, <1>1, <1>2 DEF WillSend
<1> QED BY <1>3, <1>4

\* The answer to a request or to an acknowledgement, s being what the session
\* is before it: nothing if the file is sent, or one datagram.
LEMMA ResponseIs ==
    ASSUME TftpInv, blocks' = blocks, NEW a \in Addresses, NEW s \in Transfers,
           s.at = s.sequence, s.at <= blocks,
           s.completed <=> s.at = blocks /\ blocks > 0,
           Response(a, s)
    PROVE  /\ out' \in [pending : Seq(Answered), wready : BOOLEAN, flush : BOOLEAN,
                        writes : BOOLEAN]
           /\ WillSend'
           /\ \E t \in Transfers :
                 /\ session' = [session EXCEPT ![a] = t]
                 /\ t.at = t.sequence /\ t.at <= blocks
                 /\ t.completed <=> t.at = blocks /\ blocks > 0
                 /\ \/ s.completed /\ t = s /\ out' = out
                    \/ \E d \in Answered :
                          /\ ~s.completed /\ out'.pending = Append(out.pending, d)
                          /\ d = Error(a) \/ (t.sequence = s.sequence + 1
                                               /\ d = Data(a, s.sequence + 1, s.sequence + 1))
<1>0. TftpTyped /\ WillSend /\ blocks \in Nat /\ Error(a) \in Answered
  BY DEF TftpInv, TftpTyped, Answered
<1>1. CASE s.completed
  <2>1. session' = [session EXCEPT ![a] = s] /\ out' = out
    BY <1>1 DEF Response
  <2> QED BY <2>1, <1>0, <1>1 DEF WillSend, TftpTyped
<1>2. CASE ~s.completed /\ blocks = 0
  <2>1. session' = [session EXCEPT ![a] = s] /\ SendTo(Error(a))
    BY <1>2 DEF Response
  <2> QED BY <2>1, <1>0, <1>2, SendToIs
<1>3. CASE ~s.completed /\ blocks # 0
  <2> DEFINE n == s.sequence + 1
  <2>1. PICK t : t = NextBlock(s)
    OBVIOUS
  <2>2. /\ t \in Transfers /\ t.at = n /\ t.sequence = n
        /\ t.completed <=> n = blocks
    <3>1. t = [at |-> s.at + 1, sequence |-> s.sequence + 1, completed |-> s.at + 1 = blocks]
      BY <2>1 DEF NextBlock, Transfers
    <3>2. s.at \in Nat /\ s.sequence \in Nat
      BY DEF Transfers
    <3>3. t \in Transfers
      BY <3>1, <3>2 DEF Transfers
    <3> QED BY <3>1, <3>2, <3>3
  <2>3. n \in 1 .. blocks
    BY <1>0, <1>3 DEF Transfers
  <2>4. /\ session' = [session EXCEPT ![a] = t]
        /\ IF n > MaxBlock THEN SendTo(Error(a)) ELSE SendTo(Data(a, n, n))
    BY <1>3, <2>1, <2>2 DEF Response
  <2>5. Data(a, n, n) \in Answered
    BY <2>3 DEF Answered
  <2>6. PICK d \in Answered : SendTo(d) /\ (d = Error(a) \/ d = Data(a, n, n))
    BY <2>4, <2>5, <1>0
  <2>7. t.at <= blocks /\ (t.completed <=> t.at = blocks /\ blocks > 0)
    BY <2>2, <2>3, <1>0
  <2>8. /\ out' \in [pending : Seq(Answered), wready : BOOLEAN, flush : BOOLEAN,
                      writes : BOOLEAN]
        /\ out'.pending = Append(out.pending, d) /\ WillSend'
    BY <2>6, <1>0, SendToIs
  <2> QED BY <2>2, <2>4, <2>6, <2>7, <2>8, <1>3
<1> QED BY <1>1, <1>2, <1>3

\* A session that begins again, or is there, has numbered what it read.
LEMMA SessionsNumbered ==
    ASSUME TftpInv, NEW a \in Addresses
    PROVE  LET s == session[a]
           IN  /\ s \in Transfers /\ s.at = s.sequence /\ s.at <= blocks
               /\ s.completed <=> s.at = blocks /\ blocks > 0
               /\ ResetSession(s) \in Transfers /\ ResetSession(s).at = 0
               /\ ResetSession(s).sequence = 0 /\ ResetSession(s).completed = FALSE
  BY DEF TftpInv, TftpTyped, Numbered, ResetSession, NoSession, Transfers

\* The server hears of a transfer, which goes on with one datagram, or is over.
LEMMA ReadTftp ==
    ASSUME TftpInv, NEW d \in net, NEW again \in BOOLEAN, OnReadDatagram(d, again)
    PROVE  TftpInv'
<1> DEFINE Q == out.pending
           N == net \ {d}
<1>1. PICK a \in Addresses : d.from = a /\ d.to = "server" /\ d \in Asked /\ Of(d, a)
                           /\ \/ d.op = "rrq" /\ d = ReadRequest(a)
                              \/ d.op = "ack" /\ d = Ack(a, d.block)
  <2>1. d.to = "server" /\ d \in Asked
    BY AnsweredIs DEF OnReadDatagram, TftpInv, TftpTyped
  <2> QED BY <2>1, AskedIs DEF Of
<1>2. PICK s : s = session[a]
  OBVIOUS
<1>3. PICK p : p = peer[a]
  OBVIOUS
<1>4. /\ UNCHANGED <<blocks, peer>> /\ Fault(again) /\ OnDatagram(a, d.op)
      /\ net' = IF again THEN net ELSE N
  BY <1>1 DEF OnReadDatagram
<1>5. faults' \in Nat /\ (faults' = 0 => faults = 0 /\ net' = N)
  BY <1>4 DEF Fault, TftpInv, TftpTyped
<1>6. Answered' = Answered /\ Asked' = Asked
  BY <1>4 DEF Answered, Asked
<1>7. net' \subseteq Answered \cup Asked
  BY <1>4 DEF TftpInv, TftpTyped
<1>8. /\ s \in Transfers /\ s.at = s.sequence /\ s.at <= blocks
      /\ s.completed <=> s.at = blocks /\ blocks > 0
      /\ ResetSession(s) \in Transfers /\ ResetSession(s).at = 0
      /\ ResetSession(s).sequence = 0 /\ ResetSession(s).completed = FALSE
  BY <1>2, SessionsNumbered
<1>9. Q \in Seq(Answered) /\ Len(Q) \in Nat /\ blocks \in Nat
  BY DEF TftpInv, TftpTyped
<1>10. ASSUME faults' = 0
       PROVE  /\ Talks(a, s, p, net, Q) /\ net' = N
              /\ p.at = "get" => /\ \A e \in N : ~Of(e, a)
                                 /\ \A k \in 1 .. Len(Q) : ~Of(Q[k], a)
                                 /\ Fits(d, a, s, p)
              /\ p.at # "get" => d.op = "ack" /\ s.completed /\ Over(a, s, p, N, Q)
  <2>1. Talks(a, s, p, net, Q) /\ net' = N
    BY <1>10, <1>5, <1>2, <1>3 DEF TftpInv
  <2>2. CASE p.at = "get"
    <3>1. InNet(a, s, p, net, Q)
      BY <2>1, <2>2, <1>1 DEF Talks, InQueue
    <3> QED BY <3>1, <2>1, <2>2, <1>1 DEF InNet
  <2>3. CASE p.at # "get"
    <3>1. Over(a, s, p, net, Q)
      BY <2>1, <2>3 DEF Talks
    <3>2. d = Ack(a, p.got) /\ s.completed
      BY <3>1, <1>1 DEF Over
    <3>3. d.op = "ack"
      BY <3>2, Said
    <3> QED BY <2>1, <2>3, <3>1, <3>2, <3>3 DEF Over
  <2> QED BY <2>2, <2>3
<1>11. CASE UNCHANGED <<session, out>> /\ d.op = "ack" /\ s.sequence = 0
  <2>1. TftpTyped' /\ Numbered' /\ WillSend' /\ WholeFile'
    BY <1>4, <1>5, <1>6, <1>7, <1>11 DEF TftpInv, TftpTyped, Numbered, WillSend, WholeFile
  <2>2. ASSUME faults' = 0, NEW b \in Addresses
        PROVE Talks(b, session[b], peer[b], net', Q)
    <3>1. CASE b = a
      <4>1. p.at # "get"
        <5> SUFFICES ASSUME p.at = "get" PROVE FALSE
          OBVIOUS
        <5>1. Fits(d, a, s, p)
          BY <1>10, <2>2
        <5>2. d = Ack(a, p.got) => ~(p.got > 0 /\ s.sequence = p.got)
          BY <1>11
        <5> QED BY <5>1, <5>2, <1>1, <1>11, Said DEF Fits
      <4> QED BY <4>1, <3>1, <1>10, <2>2, <1>2, <1>3 DEF Talks
    <3>2. CASE b # a
      <4>1. \A e : Of(e, b) => (e \in N <=> e \in net)
        BY <3>2, <1>1, OfOne
      <4>2. Talks(b, session[b], peer[b], net, Q)
        BY <2>2, <1>5 DEF TftpInv
      <4> QED BY <4>1, <4>2, <1>5, <1>9, <2>2, TalksApart
    <3> QED BY <3>1, <3>2
  <2> QED BY <2>1, <2>2, <1>4, <1>11 DEF TftpInv
<1>12. CASE \E r \in {s, ResetSession(s)} :
                Response(a, r) /\ (d.op = "rrq" <=> r = ResetSession(s) /\ d.op = "rrq")
                /\ (d.op = "ack" => r = s)
  <2>1. PICK r \in Transfers :
            /\ Response(a, r) /\ (d.op = "rrq" => r.sequence = 0)
            /\ (d.op = "ack" => r = s)
            /\ r.at = r.sequence /\ r.at <= blocks
            /\ r.completed <=> r.at = blocks /\ blocks > 0
    BY <1>8, <1>9, <1>12
  <2>2. PICK t \in Transfers :
            /\ out' \in [pending : Seq(Answered), wready : BOOLEAN, flush : BOOLEAN,
                         writes : BOOLEAN]
            /\ WillSend' /\ session' = [session EXCEPT ![a] = t]
            /\ t.at = t.sequence /\ t.at <= blocks
            /\ t.completed <=> t.at = blocks /\ blocks > 0
            /\ \/ r.completed /\ t = r /\ out' = out
               \/ \E x \in Answered :
                     /\ ~r.completed /\ out'.pending = Append(out.pending, x)
                     /\ x = Error(a) \/ (t.sequence = r.sequence + 1
                                          /\ x = Data(a, r.sequence + 1, r.sequence + 1))
    BY <2>1, <1>4, ResponseIs
  <2>3. \A b \in Addresses : session'[b] = IF b = a THEN t ELSE session[b]
    BY <2>2 DEF TftpInv, TftpTyped
  <2>4. TftpTyped'
    BY <1>4, <1>5, <1>6, <1>7, <2>2 DEF TftpInv, TftpTyped
  <2>5. Numbered' /\ WholeFile'
    BY <1>4, <2>2, <2>3 DEF TftpInv, Numbered, WholeFile
  <2>6. ASSUME faults' = 0, NEW b \in Addresses, b # a
        PROVE Talks(b, session'[b], peer'[b], net', out'.pending)
    <3>1. \A e : Of(e, b) => (e \in N <=> e \in net)
      BY <2>6, <1>1, OfOne
    <3>2. Talks(b, session[b], peer[b], net, Q) /\ net' = N
      BY <2>6, <1>5 DEF TftpInv
    <3>3. out'.pending = Q \/ \E x \in Answered : out'.pending = Append(Q, x) /\ ~Of(x, b)
      BY <2>2, <2>6, Said, OfOne
    <3>4. out'.pending \in Seq(Answered)
      BY <2>2
    <3>5. Talks(b, session[b], peer[b], net', out'.pending)
      BY <3>1, <3>2, <3>3, <3>4, <1>9, TalksApart
    <3> QED BY <3>5, <2>3, <2>6, <1>4
  <2>7. ASSUME faults' = 0 PROVE Talks(a, t, p, net', out'.pending)
    <3>1. CASE p.at = "get"
      <4>1. ~r.completed /\ (Fits(d, a, s, p) => r.sequence = p.got)
        <5>1. Fits(d, a, s, p)
          BY <3>1, <1>10, <2>7
        <5>2. CASE d.op = "rrq"
          <6>1. p.got = 0 /\ r.sequence = 0
            BY <5>1, <5>2, <2>1, Said DEF Fits
          <6> QED BY <6>1, <2>1
        <5>3. CASE d.op = "ack"
          <6>1. d = Ack(a, p.got) /\ s.sequence = p.got /\ ~s.completed
            BY <5>1, <5>3, <1>1, Said DEF Fits
          <6> QED BY <6>1, <5>3, <2>1
        <5> QED BY <5>2, <5>3, <1>1
      <4>2. Fits(d, a, s, p) /\ net' = N
        BY <3>1, <1>10, <2>7
      <4>3. PICK x \in Answered :
                /\ out'.pending = Append(Q, x)
                /\ x = Error(a) \/ (t.sequence = r.sequence + 1
                                     /\ x = Data(a, r.sequence + 1, r.sequence + 1))
        BY <2>2, <4>1
      <4>4. Of(x, a) /\ Fits(x, a, t, p)
        BY <4>1, <4>2, <4>3, Said DEF Fits
      <4>5. PICK R : R = out'.pending
        OBVIOUS
      <4>6. /\ Len(R) = Len(Q) + 1 /\ R[Len(R)] = x /\ Len(R) \in 1 .. Len(R)
            /\ \A k \in 1 .. Len(R) : k # Len(R) => k \in 1 .. Len(Q) /\ R[k] = Q[k]
        BY <4>3, <4>5, <1>9
      <4>7. \A k \in 1 .. Len(R) : Of(R[k], a) => k = Len(R)
        BY <4>6, <1>10, <2>7, <3>1
      <4>8. InQueue(a, t, p, N, R)
        BY <4>4, <4>6, <4>7, <1>10, <2>7, <3>1 DEF InQueue
      <4> QED BY <4>8, <4>2, <4>5, <3>1 DEF Talks
    <3>2. CASE p.at # "get"
      <4>1. d.op = "ack" /\ s.completed /\ Over(a, s, p, N, Q) /\ net' = N
        BY <3>2, <1>10, <2>7
      <4>2. r = s /\ t = s /\ out' = out
        BY <4>1, <2>1, <2>2
      <4> QED BY <4>1, <4>2, <3>2 DEF Talks
    <3> QED BY <3>1, <3>2
  <2>8. ASSUME faults' = 0, NEW b \in Addresses
        PROVE Talks(b, session'[b], peer'[b], net', out'.pending)
    BY <2>6, <2>7, <2>8, <2>3, <1>3, <1>4
  <2> QED BY <2>2, <2>4, <2>5, <2>8 DEF TftpInv
<1> QED BY <1>1, <1>2, <1>4, <1>11, <1>12 DEF OnDatagram

\* A client takes the part that it expects, and acknowledges it, or gives up.
LEMMA ReceiveTftp ==
    ASSUME TftpInv, NEW a \in Addresses, NEW d \in net, NEW again \in BOOLEAN,
           Receive(a, d, again)
    PROVE  TftpInv'
<1> DEFINE Q == out.pending
           N == net \ {d}
<1>1. /\ d.to = a /\ d.to # "server" /\ d \in Answered /\ Of(d, a)
      /\ \/ d.op = "data" /\ d.block \in 1 .. blocks /\ d.part = d.block
            /\ d = Data(a, d.block, d.block)
         \/ d.op = "error" /\ d = Error(a)
  <2>1. d.to = a /\ d \in Answered \cup Asked
    BY DEF Receive, TftpInv, TftpTyped
  <2>2. d \in Answered
    BY <2>1, AskedIs, TftpAssumption
  <2> QED BY <2>1, <2>2, AnsweredIs DEF Of
<1>2. PICK s : s = session[a]
  OBVIOUS
<1>3. PICK p : p = peer[a]
  OBVIOUS
<1>4. UNCHANGED <<blocks, session, out>> /\ Fault(again)
  BY DEF Receive
<1>5. faults' \in Nat /\ (faults' = 0 => faults = 0 /\ ~again)
  BY <1>4 DEF Fault, TftpInv, TftpTyped
<1>6. Answered' = Answered /\ Asked' = Asked
  BY <1>4 DEF Answered, Asked
<1>7. /\ Q \in Seq(Answered) /\ Len(Q) \in Nat /\ blocks \in Nat
      /\ p \in Clients /\ p.at \in {"idle", "get", "done", "failed"} /\ p.got \in Nat
      /\ s \in Transfers /\ s.at = s.sequence /\ s.at <= blocks
      /\ s.completed <=> s.at = blocks /\ blocks > 0
  <2>1. s \in Transfers /\ p \in Clients
    BY <1>2, <1>3 DEF TftpInv, TftpTyped
  <2>2. p.at \in {"idle", "get", "done", "failed"} /\ p.got \in Nat
    BY <2>1 DEF Clients
  <2>3. s.at = s.sequence /\ s.at <= blocks /\ (s.completed <=> s.at = blocks /\ blocks > 0)
    BY <1>2 DEF TftpInv, Numbered
  <2>4. Q \in Seq(Answered) /\ Len(Q) \in Nat /\ blocks \in Nat
    BY DEF TftpInv, TftpTyped
  <2> QED BY <2>1, <2>2, <2>3, <2>4
<1> DEFINE Keeps(q, A) ==
        /\ peer' = [peer EXCEPT ![a] = q]
        /\ net' = (IF again THEN net ELSE N) \cup A
        /\ \A e \in A : Of(e, a)
        /\ q.at = "done" => (q.got = blocks \/ (q.at = p.at /\ q.got = p.got))
        /\ p.at = "get" /\ d.op = "data" /\ d.block = p.got + 1 =>
               /\ q.got = p.got + 1 /\ A = {Ack(a, q.got)}
               /\ q.at = IF q.got = blocks THEN "done" ELSE "get"
        /\ p.at = "get" /\ d.op = "error" => q.at = "failed" /\ A = {}
<1>8. PICK q \in Clients, A \in SUBSET Asked : Keeps(q, A)
  <2>1. ASSUME p.at = "get", d.op = "data", d.block = p.got + 1
        PROVE  \E q \in Clients, A \in SUBSET Asked : Keeps(q, A)
    <3>1. PICK v : v = IF p.got + 1 = blocks THEN "done" ELSE "get"
      OBVIOUS
    <3>2. PICK q : q = [at |-> v, got |-> p.got + 1]
      OBVIOUS
    <3>3. PICK A : A = {Ack(a, q.got)}
      OBVIOUS
    <3>4. q \in Clients /\ q.got = p.got + 1 /\ q.at = v
      BY <3>1, <3>2, <1>7 DEF Clients
    <3>5. A \in SUBSET Asked /\ \A e \in A : Of(e, a)
      BY <3>3, <3>4, Said DEF Asked, Clients
    <3>6. d.part = d.block
      BY <1>1, <2>1, Said
    <3>7. peer' = [peer EXCEPT ![a] = q]
      <4>1. peer' = [peer EXCEPT ![a] =
                         [at |-> IF d.part = blocks THEN "done" ELSE "get",
                          got |-> peer[a].got + 1]]
        BY <2>1, <1>3 DEF Receive, TftpInv, TftpTyped
      <4>2. d.part = p.got + 1
        BY <3>6, <2>1
      <4> QED BY <4>1, <4>2, <1>3, <3>1, <3>2
    <3>8. net' = (IF again THEN net ELSE N) \cup A
      BY <2>1, <1>3, <3>3, <3>4 DEF Receive
    <3>9. q.at = IF q.got = blocks THEN "done" ELSE "get"
      BY <3>1, <3>4
    <3>10. Keeps(q, A)
      BY <3>3, <3>4, <3>5, <3>7, <3>8, <3>9, <2>1, <1>1
    <3> QED BY <3>4, <3>5, <3>10
  <2>2. ASSUME p.at = "get", d.op = "data", d.block # p.got + 1
        PROVE  \E q \in Clients, A \in SUBSET Asked : Keeps(q, A)
    <3>1. peer' = peer /\ net' = IF again THEN net ELSE N
      BY <2>2, <1>3 DEF Receive
    <3>2. peer' = [peer EXCEPT ![a] = p]
      BY <3>1, <1>3 DEF TftpInv, TftpTyped
    <3>3. PICK A : A = {}
      OBVIOUS
    <3>4. net' = (IF again THEN net ELSE N) \cup A
      BY <3>1, <3>3
    <3>5. d.op # "error"
      BY <2>2
    <3>6. Keeps(p, A)
      BY <3>2, <3>3, <3>4, <3>5, <2>2
    <3> QED BY <3>3, <3>6, <1>7
  <2>3. ASSUME ~(p.at = "get" /\ d.op = "data")
        PROVE  \E q \in Clients, A \in SUBSET Asked : Keeps(q, A)
    <3>1. PICK v : v = IF p.at = "get" THEN "failed" ELSE p.at
      OBVIOUS
    <3>2. PICK q : q = [at |-> v, got |-> p.got]
      OBVIOUS
    <3>3. PICK A : A = {}
      OBVIOUS
    <3>4. q \in Clients /\ q.got = p.got /\ q.at = v
      BY <3>1, <3>2, <1>7 DEF Clients
    <3>5. /\ peer' = [peer EXCEPT ![a] =
                          [at |-> IF peer[a].at = "get" THEN "failed" ELSE peer[a].at,
                           got |-> peer[a].got]]
          /\ net' = IF again THEN net ELSE N
      BY <2>3, <1>3 DEF Receive, TftpInv, TftpTyped
    <3>6. peer' = [peer EXCEPT ![a] = q]
      BY <1>3, <3>1, <3>2, <3>5
    <3>7. net' = (IF again THEN net ELSE N) \cup A
      BY <3>3, <3>5
    <3>8. Keeps(q, A)
      BY <3>1, <3>3, <3>4, <3>6, <3>7, <2>3
    <3> QED BY <3>3, <3>4, <3>8
  <2> HIDE DEF Keeps
  <2> QED BY <2>1, <2>2, <2>3
<1>9. \A b \in Addresses : peer'[b] = IF b = a THEN q ELSE peer[b]
  BY <1>8 DEF TftpInv, TftpTyped
<1>10. TftpTyped'
  BY <1>4, <1>5, <1>6, <1>8 DEF TftpInv, TftpTyped
<1>11. Numbered' /\ WillSend'
  BY <1>4 DEF TftpInv, Numbered, WillSend
<1>12. WholeFile'
  BY <1>3, <1>4, <1>8, <1>9 DEF TftpInv, WholeFile
<1>13. ASSUME faults' = 0, NEW b \in Addresses, b # a
       PROVE Talks(b, session[b], peer[b], net', Q)
  <2>1. \A e : Of(e, b) => (e \in net' <=> e \in net)
    BY <1>1, <1>8, <1>13, OfOne
  <2>2. Talks(b, session[b], peer[b], net, Q)
    BY <1>13, <1>5 DEF TftpInv
  <2> QED BY <2>1, <2>2, <1>7, TalksApart
<1>14. ASSUME faults' = 0 PROVE Talks(a, s, q, net', Q)
  <2>1. Talks(a, s, p, net, Q) /\ net' = N \cup A
    BY <1>14, <1>2, <1>3, <1>5, <1>8 DEF TftpInv
  <2>2. p.at = "get"
    <3> SUFFICES ASSUME Over(a, s, p, net, Q) PROVE FALSE
      BY <2>1 DEF Talks
    <3>1. d = Ack(a, p.got)
      BY <1>1 DEF Over
    <3> QED BY <3>1, <1>1, Said
  <2>3. InNet(a, s, p, net, Q)
    BY <2>1, <2>2, <1>1 DEF Talks, InQueue
  <2>4. /\ Fits(d, a, s, p) /\ \A e \in N : ~Of(e, a)
        /\ \A k \in 1 .. Len(Q) : ~Of(Q[k], a)
    BY <2>3, <1>1 DEF InNet
  <2>5. CASE d = Error(a)
    <3>1. q.at = "failed" /\ net' = N
      BY <2>5, <2>1, <2>2, <1>8, Said
    <3> QED BY <3>1, <2>4 DEF Talks, Over
  <2>6. CASE d # Error(a)
    <3>1. d = Data(a, p.got + 1, p.got + 1) /\ s.sequence = p.got + 1
      BY <2>4, <2>6, <1>1, Said DEF Fits
    <3>2. d.op = "data" /\ d.block = p.got + 1
      BY <3>1, Said
    <3>3. /\ q.got = p.got + 1 /\ net' = N \cup {Ack(a, q.got)}
          /\ q.at = IF q.got = blocks THEN "done" ELSE "get"
      BY <3>2, <2>1, <2>2, <1>8
    <3>4. s.completed <=> q.got = blocks
      BY <3>1, <3>3, <1>7 DEF Clients
    <3>5. Of(Ack(a, q.got), a) /\ \A e \in net' : Of(e, a) => e = Ack(a, q.got)
      BY <2>4, <3>3, Said
    <3>6. CASE q.got = blocks
      BY <3>3, <3>4, <3>5, <3>6, <2>4 DEF Talks, Over
    <3>7. CASE q.got # blocks
      <4>1. q.got > 0
        BY <3>3, <1>7 DEF Clients
      <4>2. Fits(Ack(a, q.got), a, s, q)
        BY <4>1, <3>1, <3>3, <3>4, <3>7 DEF Fits
      <4>3. InNet(a, s, q, net', Q)
        BY <4>2, <3>3, <3>5, <2>4 DEF InNet
      <4> QED BY <4>3, <3>3, <3>7 DEF Talks
    <3> QED BY <3>6, <3>7
  <2> QED BY <2>5, <2>6
<1>15. ASSUME faults' = 0, NEW b \in Addresses
       PROVE Talks(b, session'[b], peer'[b], net', out'.pending)
  BY <1>13, <1>14, <1>15, <1>2, <1>4, <1>9
<1> QED BY <1>10, <1>11, <1>12, <1>15 DEF TftpInv

\* A client begins.
LEMMA RequestTftp ==
    ASSUME TftpInv, NEW a \in Addresses, Request(a) PROVE TftpInv'
<1> DEFINE Q == out.pending
           d == ReadRequest(a)
           q == [at |-> "get", got |-> peer[a].got]
<1>1. /\ peer[a].at = "idle" /\ net' = net \cup {d}
      /\ UNCHANGED <<faults, blocks, session, out>>
  BY DEF Request
<1>2. peer' = [peer EXCEPT ![a] = q] /\ q \in Clients /\ Q \in Seq(Answered)
  <2>1. peer[a] \in Clients /\ Q \in Seq(Answered)
    BY DEF TftpInv, TftpTyped
  <2>2. q \in Clients
    BY <2>1 DEF Clients
  <2>3. peer' = [peer EXCEPT ![a] = q]
    BY DEF Request, TftpInv, TftpTyped
  <2> QED BY <2>1, <2>2, <2>3
<1>3. \A b \in Addresses : peer'[b] = IF b = a THEN q ELSE peer[b]
  BY <1>2 DEF TftpInv, TftpTyped
<1>4. d \in Asked /\ Of(d, a) /\ Answered' = Answered /\ Asked' = Asked
  BY <1>1, Said DEF Answered, Asked
<1>5. TftpTyped'
  BY <1>1, <1>2, <1>4 DEF TftpInv, TftpTyped
<1>6. Numbered' /\ WillSend' /\ WholeFile'
  BY <1>1, <1>3 DEF TftpInv, Numbered, WillSend, WholeFile
<1>7. ASSUME faults = 0, NEW b \in Addresses PROVE Talks(b, session[b], peer'[b], net', Q)
  <2>1. Talks(b, session[b], peer[b], net, Q)
    BY <1>7 DEF TftpInv
  <2>2. CASE b # a
    <3>1. \A e : Of(e, b) => (e \in net' <=> e \in net)
      BY <2>2, <1>1, <1>4, OfOne
    <3>2. Talks(b, session[b], peer[b], net', Q)
      BY <3>1, <2>1, <1>2, TalksApart
    <3> QED BY <3>2, <2>2, <1>3
  <2>3. CASE b = a
    <3>1. Over(a, session[a], peer[a], net, Q)
      BY <2>1, <2>3, <1>1 DEF Talks
    <3>2. /\ q.got = 0 /\ \A e \in net : ~Of(e, a)
          /\ \A k \in 1 .. Len(Q) : ~Of(Q[k], a)
      BY <3>1, <1>1 DEF Over
    <3>3. InNet(a, session[a], q, net', Q)
      BY <3>2, <1>1, <1>4 DEF InNet, Fits
    <3> QED BY <3>3, <2>3, <1>3 DEF Talks
  <2> QED BY <2>2, <2>3
<1> QED BY <1>1, <1>5, <1>6, <1>7 DEF TftpInv

\* What the network loses, or a client says again, is a fault.
LEMMA FaultTftp ==
    ASSUME TftpInv, Fault(TRUE), net' \subseteq Answered \cup Asked,
           UNCHANGED <<blocks, session, out, peer>>
    PROVE  TftpInv'
<1>1. faults' \in Nat /\ faults' # 0 /\ Answered' = Answered /\ Asked' = Asked
  BY DEF Fault, TftpInv, TftpTyped, Answered, Asked
<1> QED BY <1>1 DEF TftpInv, TftpTyped, Numbered, WillSend, WholeFile

\* The properties of transfers, for every number of clients and length of files,
\* whatever is lost, repeated or out of order (servers/tftp.py).
THEOREM TransfersSafe == TftpSpec => []TftpSafety
<1>1. TftpInv /\ [TftpNext]_tftpVars => TftpInv'
  <2> SUFFICES ASSUME TftpInv, [TftpNext]_tftpVars PROVE TftpInv'
    OBVIOUS
  <2>1. CASE FlushDatagrams
    BY <2>1, SendTftp DEF FlushDatagrams
  <2>2. CASE OnWriteDatagrams
    BY <2>2, SendTftp DEF OnWriteDatagrams
  <2>3. ASSUME NEW d \in net, NEW again \in BOOLEAN, OnReadDatagram(d, again)
        PROVE TftpInv'
    BY <2>3, ReadTftp
  <2>4. ASSUME NEW d \in net, NEW again \in BOOLEAN, NEW a \in Addresses,
               Receive(a, d, again)
        PROVE TftpInv'
    BY <2>4, ReceiveTftp
  <2>5. ASSUME NEW d \in net, Lose(d) PROVE TftpInv'
    <3>1. net' \subseteq Answered \cup Asked
      BY <2>5 DEF Lose, TftpInv, TftpTyped
    <3> QED BY <3>1, <2>5, FaultTftp DEF Lose
  <2>6. ASSUME NEW a \in Addresses, Request(a) PROVE TftpInv'
    BY <2>6, RequestTftp
  <2>7. ASSUME NEW a \in Addresses, Repeat(a) PROVE TftpInv'
    <3>1. peer[a].got \in Nat
      BY DEF TftpInv, TftpTyped, Clients
    <3>2. net' \subseteq Answered \cup Asked
      BY <3>1, <2>7 DEF Repeat, TftpInv, TftpTyped, Asked
    <3> QED BY <3>2, <2>7, FaultTftp DEF Repeat
  <2>8. CASE UNCHANGED tftpVars
    <3>1. UNCHANGED <<faults, blocks, session, out, net, peer>>
      BY <2>8 DEF tftpVars
    <3>2. Answered' = Answered /\ Asked' = Asked
      BY <3>1 DEF Answered, Asked
    <3> QED BY <3>1, <3>2 DEF TftpInv, TftpTyped, Numbered, WillSend, WholeFile
  <2> QED BY <2>1, <2>2, <2>3, <2>4, <2>5, <2>6, <2>7, <2>8 DEF TftpNext
<1> QED BY InitTftp, SafeTftp, <1>1, PTL DEF TftpSpec

-----------------------------------------------------------------------------
LEMMA LeastOf ==
    ASSUME NEW S, S \subseteq Nat, S # {}
    PROVE  \E m \in S : \A n \in S : m <= n
<1>1. PICK R : R = OpToRel(<, Nat)
  OBVIOUS
<1>2. IsWellFoundedOn(R, Nat)
  BY <1>1, NatLessThanWellFounded
<1>3. PICK m \in S : \A n \in S : ~(<<n, m>> \in R)
  BY <1>2, WFMin
<1>4. \A n \in S : n \in Nat /\ m \in Nat /\ (n < m => <<n, m>> \in R)
  BY <1>1 DEF OpToRel
<1>5. ASSUME NEW n \in S PROVE m <= n
  <2>1. n \in Nat /\ m \in Nat
    OBVIOUS
  <2>2. ~(n < m)
    BY <1>3, <1>4
  <2> QED BY <2>1, <2>2
<1> QED BY <1>5

(***************************************************************************)
(* Leases of addresses.                                                    *)
(***************************************************************************)

DhcpDatagrams == [kind : {"discover", "offer", "request", "ack", "nak"}, mac : Macs,
         address : Pool \cup {0}, sent : Nat]
Handled == [kind : {"ack", "nak"}, of : DhcpDatagrams]
Leases == [address : Pool \cup {0}, until : Nat]

DhcpTyped ==
    /\ clock \in 1 .. MaxClock /\ late \in BOOLEAN
    /\ target \in [Pool -> Nat] /\ owner \in [Pool -> Macs \cup {Nobody}]
    /\ address \in [Macs -> Pool \cup {0}]
    /\ heap \subseteq Nat \X Pool
    /\ datagrams \subseteq DhcpDatagrams
    /\ handling \in {Idle} \cup Handled
    /\ station \in [Macs -> Leases]

\* A lease that has not ended, for `mac` until `until`, is what the pool has.
Stands(mac, a, until) ==
    until > clock => a \in Pool /\ owner[a] = mac /\ target[a] >= until

\* Nothing is leased for longer than from now on, nor asked for in the future; what is
\* requested is an address; an acknowledgement, one that is being decided, and what
\* a client holds are true as long as they say.
Leased ==
    /\ \A a \in Pool : target[a] <= clock + Lease
    /\ \A d \in datagrams : d.sent <= clock
    /\ \A d \in datagrams : d.kind = "request" => d.address \in Pool
    /\ handling # Idle => handling.of.sent <= clock /\ handling.of.address \in Pool
    /\ ~late => 
        /\ \A d \in datagrams :
               d.kind = "ack" => Stands(d.mac, d.address, d.sent + Lease)
        /\ handling # Idle /\ handling.kind = "ack" =>
               IsOwner(handling.of.mac, Current(handling.of))
        /\ \A m \in Macs : Stands(m, station[m].address, station[m].until)

DhcpInv == DhcpTyped /\ InHeap /\ Leased

\* Pairs are ordered, and the first of them is the one that Peek is.
LEMMA PeekIsFirst ==
    ASSUME DhcpTyped, Live # {}
    PROVE  Peek \in Live /\ \A f \in Live \ {Peek} : Before(Peek, f)
<1> DEFINE Times == {e[1] : e \in Live}
<1>1. Live \subseteq Nat \X Pool /\ Pool \subseteq Nat
  BY DhcpAssumption DEF DhcpTyped, Live
<1>2. Times \subseteq Nat /\ Times # {}
  BY <1>1
<1>3. PICK t \in Times : \A u \in Times : t <= u
  BY <1>2, LeastOf
<1> DEFINE Now == {e[2] : e \in {x \in Live : x[1] = t}}
<1>4. Now \subseteq Nat /\ Now # {}
  BY <1>1, <1>3
<1>5. PICK a \in Now : \A b \in Now : a <= b
  BY <1>4, LeastOf
<1>6. PICK e \in Live : e[1] = t /\ e[2] = a
  BY <1>5
<1>7. ASSUME NEW f \in Live \ {e} PROVE Before(e, f)
  <2>1. f \in Nat \X Nat /\ e \in Nat \X Nat
    BY <1>1
  <2>2. f[1] \in Times /\ t <= f[1]
    BY <1>3
  <2>3. CASE f[1] = t
    <3>1. f[2] \in Now /\ a <= f[2]
      BY <2>3, <1>5
    <3>2. f[2] # a
      BY <2>1, <2>3, <1>6
    <3> QED BY <3>1, <3>2, <2>1, <2>3, <1>6 DEF Before
  <2>4. CASE f[1] # t
    BY <2>1, <2>2, <2>4, <1>6 DEF Before
  <2> QED BY <2>3, <2>4
<1> QED BY <1>6, <1>7 DEF Peek

\* There is an address to give if and only if a lease has ended.
LEMMA InvReusable == DhcpInv => Reusable
<1> SUFFICES ASSUME DhcpInv PROVE Reusable
  OBVIOUS
<1>1. Live \subseteq Nat \X Pool /\ clock \in Nat /\ target \in [Pool -> Nat]
  BY DEF DhcpInv, DhcpTyped, Live
<1>2. ASSUME Available PROVE \E a \in Pool : target[a] <= clock
  <2>1. Peek \in Live
    BY <1>2, PeekIsFirst DEF Available, DhcpInv
  <2>2. Peek[2] \in Pool /\ target[Peek[2]] = Peek[1]
    BY <2>1, <1>1 DEF Live
  <2> QED BY <2>2, <1>2 DEF Available
<1>3. ASSUME NEW a \in Pool, target[a] <= clock PROVE Available
  <2> DEFINE e == <<target[a], a>>
  <2>1. e \in Live
    BY <1>1 DEF DhcpInv, InHeap, Live
  <2>2. Peek \in Live /\ \A f \in Live \ {Peek} : Before(Peek, f)
    BY <2>1, PeekIsFirst DEF DhcpInv
  <2>3. Peek = e \/ Before(Peek, e)
    BY <2>1, <2>2
  <2>4. Peek[1] <= e[1]
    BY <2>1, <2>2, <2>3, <1>1 DEF Before
  <2>5. Peek[1] \in Nat /\ e[1] \in Nat /\ e[1] <= clock
    BY <1>3, <1>1, <2>2
  <2> QED BY <2>1, <2>4, <2>5, <1>1 DEF Available
<1> QED BY <1>2, <1>3 DEF Reusable

LEMMA BeforeApart ==
    ASSUME NEW e \in Nat \X Pool, NEW f \in Nat \X Pool, e = f \/ Before(e, f)
    PROVE  ~Before(f, e)
<1>1. e[1] \in Nat /\ e[2] \in Nat /\ f[1] \in Nat /\ f[2] \in Nat
  BY DhcpAssumption
<1>2. CASE e = f
  BY <1>1, <1>2 DEF Before
<1>3. CASE Before(e, f)
  BY <1>1, <1>3 DEF Before
<1> QED BY <1>2, <1>3

LEMMA InvSafe == DhcpInv => DhcpSafety
<1> SUFFICES ASSUME DhcpInv PROVE DhcpSafety
  OBVIOUS
<1>1. Owned
  <2> SUFFICES ASSUME ~late, NEW m \in Macs, NEW a \in Pool, Holds(m, a)
      PROVE owner[a] = m /\ target[a] >= station[m].until
    BY DEF Owned
  <2> QED BY DEF DhcpInv, Leased, Stands, Holds
<1>2. OneHolder
  BY <1>1 DEF OneHolder, Owned
<1> QED BY <1>1, <1>2, InvReusable DEF DhcpSafety, DhcpInv, DhcpTyped

LEMMA InitLeased == DhcpInit => DhcpInv
<1> SUFFICES ASSUME DhcpInit PROVE DhcpInv
  OBVIOUS
<1>1. DhcpTyped
  BY DhcpAssumption DEF DhcpInit, DhcpTyped, NoLease, Leases
<1>2. InHeap
  BY DEF DhcpInit, InHeap
<1>3. Leased
  BY DhcpAssumption DEF DhcpInit, Leased, Stands, NoLease
<1> QED BY <1>1, <1>2, <1>3 DEF DhcpInv

\* An address is leased to who asks, none that somebody may have.
LEMMA DiscoverLeased ==
    ASSUME DhcpInv, NEW d \in datagrams, OnDiscover(d), handling = Idle,
           UNCHANGED <<clock, late, station>>
    PROVE  DhcpInv'
<1> USE DEF DhcpInv
<1>0. /\ d \in DhcpDatagrams /\ clock \in Nat /\ Lease \in Nat /\ Live \subseteq Nat \X Pool
      /\ datagrams \subseteq DhcpDatagrams
  BY DhcpAssumption DEF DhcpTyped, Live
<1>1. CASE ~Available
  <2>1. heap' = FromPeek /\ UNCHANGED <<clock, late, station, target, owner, address,
                                        datagrams, handling>>
    BY <1>1 DEF OnDiscover
  <2>2. DhcpTyped'
    BY <2>1 DEF DhcpTyped, FromPeek
  <2>3. ASSUME NEW a \in Pool PROVE <<target[a], a>> \in FromPeek
    <3> DEFINE e == <<target[a], a>>
    <3>1. e \in Live /\ e \in heap
      BY DEF DhcpTyped, InHeap, Live
    <3>2. Peek \in Live /\ \A f \in Live \ {Peek} : Before(Peek, f)
      BY <3>1, PeekIsFirst
    <3>3. Peek = e \/ Before(Peek, e)
      BY <3>1, <3>2
    <3>4. ~Before(e, Peek)
      BY <3>1, <3>2, <3>3, <1>0, BeforeApart
    <3> QED BY <3>1, <3>4 DEF FromPeek
  <2>4. InHeap'
    BY <2>1, <2>3 DEF InHeap
  <2>5. Leased'
    <3>1. handling' = Idle /\ late' = late /\ clock' = clock /\ datagrams' = datagrams
      BY <2>1
    <3>2. \A m, a, u : Stands(m, a, u)' <=> Stands(m, a, u)
      BY <2>1 DEF Stands
    <3> QED BY <3>1, <3>2, <2>1 DEF Leased
  <2> QED BY <2>2, <2>4, <2>5
<1>2. CASE Available
  <2> DEFINE b == Peek[2]
             offer == [kind |-> "offer", mac |-> d.mac, address |-> b, sent |-> d.sent]
  <2>1. /\ target' = [target EXCEPT ![b] = clock + Lease]
        /\ owner' = [owner EXCEPT ![b] = d.mac]
        /\ address' = [address EXCEPT ![d.mac] = b]
        /\ heap' = (FromPeek \ {Peek}) \cup {<<clock + Lease, b>>}
        /\ datagrams' = datagrams \cup {offer}
        /\ UNCHANGED <<clock, late, station, handling>>
    BY <1>2 DEF OnDiscover, Reserve, Reply
  <2>2. Peek \in Live /\ \A f \in Live \ {Peek} : Before(Peek, f)
    BY <1>2, PeekIsFirst DEF Available
  <2>3. b \in Pool /\ target[b] = Peek[1] /\ target[b] <= clock /\ target[b] \in Nat
    BY <1>2, <2>2, <1>0 DEF Available, Live, DhcpTyped
  <2>4. offer \in DhcpDatagrams /\ offer.kind = "offer" /\ offer.sent = d.sent /\ d.mac \in Macs
    BY <1>0, <2>3 DEF DhcpDatagrams
  <2>5. DhcpTyped'
    BY <2>1, <2>3, <2>4, <1>0 DEF DhcpTyped, FromPeek
  <2>6. ASSUME NEW a \in Pool, a # b PROVE <<target[a], a>> \in FromPeek \ {Peek}
    <3> DEFINE e == <<target[a], a>>
    <3>1. e \in Live /\ e \in heap
      BY DEF DhcpTyped, InHeap, Live
    <3>2. e # Peek
      BY <2>6
    <3>3. Before(Peek, e)
      BY <3>1, <3>2, <2>2
    <3>4. ~Before(e, Peek)
      BY <3>1, <2>2, <3>3, <1>0, BeforeApart
    <3> QED BY <3>1, <3>2, <3>4 DEF FromPeek
  <2>7. InHeap'
    BY <2>1, <2>3, <2>6 DEF InHeap, DhcpTyped
  <2>8. \A a \in Pool : /\ target'[a] = IF a = b THEN clock + Lease ELSE target[a]
                        /\ owner'[a] = IF a = b THEN d.mac ELSE owner[a]
    BY <2>1 DEF DhcpTyped
  <2>9. ASSUME NEW m, NEW a, NEW until \in Nat, Stands(m, a, until)
        PROVE  Stands(m, a, until)'
    <3>1. until > clock => a \in Pool /\ owner[a] = m /\ target[a] >= until
      BY <2>9 DEF Stands
    <3>2. until > clock => a # b
      BY <3>1, <2>3, <1>0
    <3>3. until > clock => owner'[a] = m /\ target'[a] >= until
      BY <3>1, <3>2, <2>8
    <3> QED BY <3>1, <3>3, <2>1 DEF Stands
  <2>10. Leased'
    <3>1. \A a \in Pool : target'[a] <= clock' + Lease
      BY <2>8, <2>1, <1>0 DEF Leased
    <3>2. \A x \in datagrams' : /\ x.sent <= clock'
                                /\ x.kind = "request" => x.address \in Pool
      BY <2>1, <2>4 DEF Leased
    <3>3. ASSUME ~late, NEW x \in datagrams', x.kind = "ack"
          PROVE Stands(x.mac, x.address, x.sent + Lease)'
      <4>1. x \in datagrams /\ x.sent + Lease \in Nat
        BY <3>3, <2>1, <2>4, <1>0 DEF DhcpDatagrams
      <4> QED BY <4>1, <3>3, <2>9 DEF Leased
    <3>4. ASSUME ~late, NEW m \in Macs
          PROVE Stands(m, station[m].address, station[m].until)'
      <4>1. station[m].until \in Nat
        BY DEF DhcpTyped, Leases
      <4> QED BY <4>1, <3>4, <2>1, <2>9 DEF Leased
    <3>5. handling' = Idle /\ late' = late
      BY <2>1
    <3> QED BY <3>1, <3>2, <3>3, <3>4, <3>5 DEF Leased
  <2> QED BY <2>5, <2>7, <2>10
<1> QED BY <1>1, <1>2

LEMMA RequestLeased ==
    ASSUME DhcpInv, NEW d \in datagrams, OnRequest(d), handling = Idle,
           UNCHANGED <<clock, late, station>>
    PROVE  DhcpInv'
<1> DEFINE h == [kind |-> IF IsOwner(d.mac, Current(d)) THEN "ack" ELSE "nak", of |-> d]
<1>1. /\ d \in DhcpDatagrams /\ d.address \in Pool /\ d.sent <= clock
      /\ handling' = h /\ h \in Handled /\ h.of = d
      /\ UNCHANGED <<clock, late, station, target, owner, address, heap, datagrams>>
  BY DEF OnRequest, DhcpInv, DhcpTyped, Leased, poolVars, Handled
<1>2. h.kind = "ack" => IsOwner(d.mac, Current(d))
  OBVIOUS
<1>3. DhcpTyped' /\ InHeap'
  BY <1>1 DEF DhcpInv, DhcpTyped, InHeap
<1>4. \A m, a, u : Stands(m, a, u)' <=> Stands(m, a, u)
  BY <1>1 DEF Stands
<1>5. IsOwner(d.mac, Current(d))' <=> IsOwner(d.mac, Current(d))
  BY <1>1 DEF IsOwner, IsValid, Current
<1> HIDE DEF h
<1>6. handling'.of = d /\ (handling'.kind = "ack" => IsOwner(d.mac, Current(d))')
  BY <1>1, <1>2, <1>5
<1>7. (handling'.kind = "ack" =>
          IsOwner(handling.of.mac, Current(handling.of))')
  BY <1>6 DEF IsOwner, IsValid, Current
<1>8. Leased'
  BY <1>1, <1>4, <1>6, <1>7 DEF DhcpInv, Leased
<1> QED BY <1>3, <1>8 DEF DhcpInv

\* What was decided is still so when it is done, unless a second passed.
LEMMA ConfirmLeased ==
    ASSUME DhcpInv, Confirm PROVE DhcpInv'
<1>a. PICK of : of = handling.of
  OBVIOUS
<1>b. PICK a : a = Current(of)
  OBVIOUS
<1>c. PICK kind : kind = handling.kind
  OBVIOUS
<1> DEFINE answer == [kind |-> kind, mac |-> of.mac, address |-> a,
                      sent |-> of.sent]
<1>0. /\ handling \in Handled /\ of \in DhcpDatagrams /\ clock \in Nat /\ Lease \in Nat
      /\ Lease > 0 /\ datagrams \subseteq DhcpDatagrams /\ of.sent <= clock /\ of.address \in Pool
      /\ target \in [Pool -> Nat]
  BY <1>a, DhcpAssumption DEF Confirm, DhcpInv, DhcpTyped, Handled, Leased
<1>1. /\ IF IsValid(a) THEN Touch(a) ELSE UNCHANGED poolVars
      /\ datagrams' = datagrams \cup {answer}
      /\ handling' = Idle /\ UNCHANGED <<clock, late, station>>
  BY <1>a, <1>b, <1>c DEF Confirm, Reply
<1>2. a \in Pool \cup {0} /\ answer \in DhcpDatagrams /\ answer.kind \in {"ack", "nak"}
  BY <1>0, <1>a, <1>b, <1>c DEF Current, DhcpInv, DhcpTyped, DhcpDatagrams, Handled
<1>3. /\ target' \in [Pool -> Nat] /\ owner' = owner /\ address' = address
      /\ heap' \subseteq Nat \X Pool /\ InHeap'
      /\ \A b \in Pool : target'[b] = IF b = a /\ IsValid(a) THEN clock + Lease ELSE target[b]
  <2>1. CASE IsValid(a)
    BY <2>1, <1>0, <1>1 DEF Touch, DhcpInv, DhcpTyped, InHeap, IsValid
  <2>2. CASE ~IsValid(a)
    BY <2>2, <1>0, <1>1 DEF poolVars, DhcpInv, DhcpTyped, InHeap
  <2> QED BY <2>1, <2>2
<1>4. DhcpTyped'
  BY <1>1, <1>2, <1>3 DEF DhcpInv, DhcpTyped
<1>5. \A b \in Pool : target'[b] <= clock + Lease /\ target'[b] >= target[b]
  BY <1>0, <1>3 DEF DhcpInv, Leased
<1>6. ASSUME NEW m, NEW b, NEW until \in Nat, Stands(m, b, until)
      PROVE  Stands(m, b, until)'
  <2>1. until > clock => b \in Pool /\ owner[b] = m /\ target[b] >= until
    BY <1>6 DEF Stands
  <2>2. until > clock => target'[b] >= until
    BY <2>1, <1>5, <1>3, <1>0
  <2> QED BY <2>1, <2>2, <1>1, <1>3 DEF Stands
<1>7. ASSUME ~late, kind = "ack" PROVE Stands(of.mac, a, of.sent + Lease)'
  <2>1. handling # Idle
    BY DEF Confirm
  <2>2. IsOwner(of.mac, a)
    BY <1>7, <1>a, <1>b, <1>c, <2>1 DEF DhcpInv, Leased
  <2>3. a \in Pool /\ IsValid(a) /\ owner'[a] = of.mac /\ target'[a] = clock + Lease
    BY <2>2, <1>3 DEF IsOwner, IsValid
  <2>4. target'[a] >= of.sent + Lease
    BY <2>3, <1>0 DEF DhcpDatagrams
  <2> QED BY <2>3, <2>4, <1>1 DEF Stands
<1>8. ASSUME ~late, NEW x \in datagrams', x.kind = "ack"
      PROVE Stands(x.mac, x.address, x.sent + Lease)'
  <2>1. CASE x \in datagrams
    <3>1. x.sent + Lease \in Nat
      BY <2>1, <1>0 DEF DhcpDatagrams
    <3> QED BY <2>1, <3>1, <1>8, <1>6 DEF DhcpInv, Leased
  <2>2. CASE x = answer
    <3>1. x.mac = of.mac /\ x.address = a /\ x.sent = of.sent /\ kind = "ack"
      BY <2>2, <1>8
    <3> QED BY <3>1, <1>7, <1>8
  <2> QED BY <2>1, <2>2, <1>1
<1>9. ASSUME ~late, NEW m \in Macs
      PROVE Stands(m, station[m].address, station[m].until)'
  <2>1. station[m].until \in Nat
    BY DEF DhcpInv, DhcpTyped, Leases
  <2> QED BY <2>1, <1>9, <1>1, <1>6 DEF DhcpInv, Leased
<1>10. /\ \A x \in datagrams' : x.sent <= clock'
       /\ \A x \in datagrams' : x.kind = "request" => x.address \in Pool
  BY <1>0, <1>1, <1>2 DEF DhcpInv, Leased
<1>11. Leased'
  <2>1. handling' = Idle /\ late' = late /\ clock' = clock
    BY <1>1
  <2>2. /\ \A b \in Pool : target'[b] <= clock' + Lease
        /\ \A x \in datagrams' : x.sent <= clock'
        /\ \A x \in datagrams' : x.kind = "request" => x.address \in Pool
    BY <1>5, <1>10, <2>1
  <2>3. ~late' =>
          /\ \A x \in datagrams' :
                 x.kind = "ack" => Stands(x.mac, x.address, x.sent + Lease)'
          /\ \A m \in Macs : Stands(m, station[m].address, station[m].until)'
    BY <1>8, <1>9, <2>1
  <2> QED BY <2>1, <2>2, <2>3 DEF Leased
<1> QED BY <1>3, <1>4, <1>11 DEF DhcpInv

\* Time passes, and what has ended says nothing.
LEMMA ClockLeased == ASSUME DhcpInv, ClockTicks PROVE DhcpInv'
<1>1. /\ clock' = clock + 1 /\ clock \in Nat /\ clock < MaxClock
      /\ UNCHANGED <<late, target, owner, address, heap, handling, datagrams, station>>
      /\ (handling # Idle => late) /\ Lease \in Nat /\ datagrams \subseteq DhcpDatagrams
      /\ MaxClock \in Nat
  BY DhcpAssumption DEF ClockTicks, poolVars, DhcpInv, DhcpTyped
<1>2. DhcpTyped' /\ InHeap'
  BY <1>1 DEF DhcpInv, DhcpTyped, InHeap
<1>3. ASSUME NEW m, NEW b, NEW until \in Nat, Stands(m, b, until)
      PROVE  Stands(m, b, until)'
  BY <1>1, <1>3 DEF Stands
<1>4. \A d \in datagrams : d.sent \in Nat /\ d.sent + Lease \in Nat
  BY <1>1 DEF DhcpDatagrams
<1>5. \A m \in Macs : station[m].until \in Nat
  BY DEF DhcpInv, DhcpTyped, Leases
<1>6. \A a \in Pool : target[a] \in Nat
  BY DEF DhcpInv, DhcpTyped
<1>7. \A a \in Pool : target'[a] <= clock' + Lease
  BY <1>1, <1>6 DEF DhcpInv, Leased
<1>8. \A d \in datagrams : d.sent <= clock'
  BY <1>1, <1>4 DEF DhcpInv, Leased
<1>9. handling # Idle => handling.of.sent <= clock' /\ handling.of.address \in Pool
  <2>1. handling # Idle => handling.of.sent \in Nat
    BY DEF DhcpInv, DhcpTyped, Handled, DhcpDatagrams
  <2> QED BY <2>1, <1>1 DEF DhcpInv, Leased
<1>10. ~late =>
         /\ \A d \in datagrams :
                d.kind = "ack" => Stands(d.mac, d.address, d.sent + Lease)'
         /\ \A m \in Macs : Stands(m, station[m].address, station[m].until)'
  BY <1>1, <1>3, <1>4, <1>5 DEF DhcpInv, Leased
<1>11. Leased'
  <2>1. handling' = handling /\ late' = late /\ clock' = clock + 1
        /\ datagrams' = datagrams /\ station' = station /\ (~late => handling = Idle)
    BY <1>1
  <2>2. ~late' =>
          /\ \A x \in datagrams' :
                 x.kind = "ack" => Stands(x.mac, x.address, x.sent + Lease)'
          /\ \A m \in Macs : Stands(m, station[m].address, station[m].until)'
    BY <1>10, <2>1
  <2>3. /\ \A x \in datagrams' : x.sent <= clock'
        /\ \A x \in datagrams' : x.kind = "request" => x.address \in Pool
    BY <1>8, <2>1 DEF DhcpInv, Leased
  <2>4. handling' # Idle => (handling.of.sent)' <= clock' /\ (handling.of.address)' \in Pool
    BY <1>9, <2>1
  <2>5. ~late' => handling' = Idle
    BY <2>1
  <2> QED BY <1>7, <2>2, <2>3, <2>4, <2>5 DEF Leased
<1> QED BY <1>2, <1>11 DEF DhcpInv

\* What a client says is of now.
LEMMA SaysLeased ==
    ASSUME DhcpInv, NEW d \in DhcpDatagrams, d.kind \in {"discover", "request"}, d.sent = clock,
           d.kind = "request" => d.address \in Pool, SaysDhcp(d)
    PROVE  DhcpInv'
<1>1. /\ datagrams' = datagrams \cup {d} /\ clock \in Nat
      /\ UNCHANGED <<clock, late, target, owner, address, heap, handling, station>>
  BY DEF SaysDhcp, poolVars, DhcpInv, DhcpTyped
<1>2. DhcpTyped' /\ InHeap'
  BY <1>1 DEF DhcpInv, DhcpTyped, InHeap
<1>3. \A m, a, u : Stands(m, a, u)' <=> Stands(m, a, u)
  BY <1>1 DEF Stands
<1>4. IsOwner(handling.of.mac, Current(handling.of))'
          <=> IsOwner(handling.of.mac, Current(handling.of))
  BY <1>1 DEF IsOwner, IsValid, Current
<1>5. \A x \in datagrams' : x = d \/ x \in datagrams
  BY <1>1
<1>6. Leased'
  BY <1>1, <1>3, <1>4, <1>5 DEF DhcpInv, Leased
<1> QED BY <1>2, <1>6 DEF DhcpInv

\* A client holds what it is told.
LEMMA HearsLeased ==
    ASSUME DhcpInv, NEW m \in Macs, Hears(m) PROVE DhcpInv'
<1>1. UNCHANGED <<clock, late, target, owner, address, heap, handling, datagrams>>
  BY DEF Hears, poolVars
<1>2. PICK lease \in Leases :
          /\ station' = [station EXCEPT ![m] = lease]
          /\ ~late => Stands(m, lease.address, lease.until)
  <2>1. PICK d \in datagrams :
            /\ d.mac = m
            /\ \/ /\ d.kind = "ack"
                  /\ station' = [station EXCEPT ![m] =
                         [address |-> d.address, until |-> d.sent + Lease]]
               \/ d.kind = "nak" /\ station' = [station EXCEPT ![m] = NoLease]
    BY DEF Hears
  <2>2. d \in DhcpDatagrams /\ clock \in Nat /\ Lease \in Nat
    BY DhcpAssumption DEF DhcpInv, DhcpTyped
  <2>3. CASE d.kind = "ack" /\ station' = [station EXCEPT ![m] =
                         [address |-> d.address, until |-> d.sent + Lease]]
    <3> DEFINE lease == [address |-> d.address, until |-> d.sent + Lease]
    <3>1. lease \in Leases
      BY <2>2 DEF DhcpDatagrams, Leases
    <3>2. ~late => Stands(m, lease.address, lease.until)
      BY <2>1, <2>3 DEF DhcpInv, Leased
    <3> QED BY <2>3, <3>1, <3>2
  <2>4. CASE station' = [station EXCEPT ![m] = NoLease]
    <3>1. NoLease \in Leases /\ Stands(m, NoLease.address, NoLease.until)
      BY <2>2 DEF NoLease, Leases, Stands
    <3> QED BY <2>4, <3>1
  <2> QED BY <2>1, <2>3, <2>4
<1>3. \A n \in Macs : station'[n] = IF n = m THEN lease ELSE station[n]
  BY <1>2 DEF DhcpInv, DhcpTyped
<1>4. DhcpTyped' /\ InHeap'
  BY <1>1, <1>2 DEF DhcpInv, DhcpTyped, InHeap
<1>5. \A n, a, u : Stands(n, a, u)' <=> Stands(n, a, u)
  BY <1>1 DEF Stands
<1>6. IsOwner(handling.of.mac, Current(handling.of))'
          <=> IsOwner(handling.of.mac, Current(handling.of))
  BY <1>1 DEF IsOwner, IsValid, Current
<1>7. ~late => \A n \in Macs : Stands(n, station'[n].address, station'[n].until)
  BY <1>2, <1>3 DEF DhcpInv, Leased
<1>8. Leased'
  BY <1>1, <1>5, <1>6, <1>7 DEF DhcpInv, Leased
<1> QED BY <1>4, <1>8 DEF DhcpInv

\* The properties of leases, for every number of clients and addresses, and
\* whatever datagrams come twice or late (servers/dhcp.py, common/dhcp.py).
THEOREM LeasesSafe == DhcpSpec => []DhcpSafety
<1>1. DhcpInv /\ [DhcpNext]_dhcpVars => DhcpInv'
  <2> SUFFICES ASSUME DhcpInv, [DhcpNext]_dhcpVars PROVE DhcpInv'
    OBVIOUS
  <2>1. CASE ClockTicks
    BY <2>1, ClockLeased
  <2>2. CASE Confirm
    BY <2>2, ConfirmLeased
  <2>3. ASSUME NEW d \in datagrams, OnDataDhcp(d) PROVE DhcpInv'
    BY <2>3, DiscoverLeased, RequestLeased DEF OnDataDhcp
  <2>4. ASSUME NEW m \in Macs, Discover(m) PROVE DhcpInv'
    <3> DEFINE d == [kind |-> "discover", mac |-> m, address |-> 0, sent |-> clock]
    <3>1. d \in DhcpDatagrams /\ d.kind = "discover" /\ d.sent = clock
      BY DEF DhcpInv, DhcpTyped, DhcpDatagrams
    <3> QED BY <3>1, <2>4, SaysLeased DEF Discover
  <2>5. ASSUME NEW m \in Macs, RequestLease(m) PROVE DhcpInv'
    <3>1. PICK a \in Pool : SaysDhcp([kind |-> "request", mac |-> m, address |-> a,
                                      sent |-> clock])
      BY <2>5 DEF RequestLease
    <3> DEFINE d == [kind |-> "request", mac |-> m, address |-> a, sent |-> clock]
    <3>2. d \in DhcpDatagrams /\ d.kind = "request" /\ d.sent = clock /\ d.address \in Pool
      BY DEF DhcpInv, DhcpTyped, DhcpDatagrams
    <3> QED BY <3>1, <3>2, SaysLeased
  <2>6. ASSUME NEW m \in Macs, Hears(m) PROVE DhcpInv'
    BY <2>6, HearsLeased
  <2>7. CASE UNCHANGED dhcpVars
    <3>1. UNCHANGED <<clock, late, target, owner, address, heap, handling, datagrams, station>>
      BY <2>7 DEF dhcpVars
    <3>2. \A n, a, u : Stands(n, a, u)' <=> Stands(n, a, u)
      BY <3>1 DEF Stands
    <3>3. IsOwner(handling.of.mac, Current(handling.of))'
              <=> IsOwner(handling.of.mac, Current(handling.of))
      BY <3>1 DEF IsOwner, IsValid, Current
    <3> QED BY <3>1, <3>2, <3>3 DEF DhcpInv, DhcpTyped, InHeap, Leased
  <2> QED BY <2>1, <2>2, <2>3, <2>4, <2>5, <2>6, <2>7 DEF DhcpNext
<1> QED BY InitLeased, InvSafe, <1>1, PTL DEF DhcpSpec
=============================================================================
