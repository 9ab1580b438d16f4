-------------------------- MODULE StructureProofs ---------------------------
(***************************************************************************)
(* PollSafety and PoolSafety, which the run of MCStructures checks on      *)
(* small instances, are invariants for any sockets and descriptors and all *)
(* of the polls, and for any threads and works.  Of the polls they are as  *)
(* long as disable_read() is not called with "poll": there a connection    *)
(* that writes and disables its reads leaves a later unsub_write() to      *)
(* raise (see README).                                                     *)
(*                                                                         *)
(* The invariant of the polls is one of a record p, a state of the poll,   *)
(* and a function d, the descriptors: an operation of a user goes through  *)
(* several records.                                                        *)
(*                                                                         *)
(* HeapSafe and HeapIsQueue are about the two heaps of the delayed calls.  *)
(* The places that an element rises or sinks through are a part of the     *)
(* tree (Climb, Descent): the calls move along it without loss             *)
(* (Rearranged), the order is made good by it, and, as only targets are    *)
(* compared, it is the same in both heaps (Mirror).                        *)
(***************************************************************************)
EXTENDS DelayHeap, Poll, ThreadPool, FiniteSetTheorems, SequenceTheorems,
        WellFoundedInduction, TLAPS

States == [read : SUBSET Sockets, write : SUBSET Sockets, error : SUBSET Sockets,
           readFd : [Fds -> Sockets \cup {None}],
           writeFd : [Fds -> Sockets \cup {None}],
           asked : SUBSET Fds, mask : [Fds -> SUBSET Masks], raised : BOOLEAN]

Descriptors == [Sockets -> Fds \cup {None}]

\* A descriptor is that of one socket, and what is in the tables has one.
Living(p, d) ==
    /\ \A s, t \in Sockets : d[s] # None /\ d[s] = d[t] => s = t
    /\ \A s \in p.read \cup p.write \cup p.error : d[s] # None

\* The kernel is asked for the sockets whose reads are subscribed, and for the
\* writes of those in `write_o`.
Asking(p, d) ==
    /\ \A f \in p.asked : p.readFd[f] \in p.read /\ d[p.readFd[f]] = f
    /\ \A s \in p.read : /\ d[s] \in p.asked /\ p.readFd[d[s]] = s
                         /\ "in" \in p.mask[d[s]] /\ s \in p.error
    /\ \A f \in Fds : p.readFd[f] # None => f \in p.asked
    /\ \A s \in p.write : s \in p.read /\ "out" \in p.mask[d[s]]
    /\ \A f \in p.asked : "out" \in p.mask[f] => p.readFd[f] \in p.write

\* The writes of a descriptor belong to one socket too, which epoll keeps in
\* one table with the reads; with poll the reads stay subscribed.
Writing(p, d) ==
    /\ \A f \in Fds : p.writeFd[f] # None =>
                          p.writeFd[f] \in p.write /\ d[p.writeFd[f]] = f
    /\ IF Edge THEN /\ p.write = p.read /\ p.error = p.read
                     /\ \A f \in Fds : p.writeFd[f] = None
                ELSE /\ \A s \in p.write : p.writeFd[d[s]] = s
                     /\ \A s \in Sockets : d[s] # None => s \in p.read

\* With select there is nothing but the lists.
Listing(p) == p.asked = {} /\ \A f \in Fds : p.readFd[f] = None /\ p.writeFd[f] = None

Good(p, d) ==
    /\ p \in States /\ d \in Descriptors /\ ~p.raised
    /\ Living(p, d)
    /\ Select => Listing(p)
    /\ ~Select => Asking(p, d) /\ Writing(p, d)

PollInv ==
    /\ backend \in Backends
    /\ life \in [Sockets -> {"new", "open", "closed"}]
    /\ \A s \in Sockets : life[s] = "open" <=> fd[s] # None
    /\ opened \in BOOLEAN /\ \A s \in Sockets : life[s] = "open" => opened
    /\ Good(State, fd)

-----------------------------------------------------------------------------
(* What each operation makes of a record.                                  *)

\* an open socket subscribes its reads
LEMMA EdgeReads ==
    ASSUME NEW p \in States, NEW s \in Sockets, NEW f \in Fds, Edge,
           s \notin p.read, f \notin p.asked
    PROVE  SubRead(p, s, f) =
             [read |-> p.read \cup {s}, write |-> p.write \cup {s},
              error |-> p.error \cup {s},
              readFd |-> [p.readFd EXCEPT ![f] = s], writeFd |-> p.writeFd,
              asked |-> p.asked \cup {f}, mask |-> [p.mask EXCEPT ![f] = Masks],
              raised |-> p.raised]
<1>1. CASE backend = "epoll"
  BY <1>1 DEF States, SubRead, EpollSubRead, OwnAll, Register, Kqueue, Select
<1>2. CASE backend = "kqueue"
  <2>1. p.mask[f] \cup Masks = Masks
    BY DEF States
  <2> QED BY <1>2, <2>1 DEF States, SubRead, KqueueSubRead, OwnAll, AddFilters, Kqueue,
             Select
<1> QED BY <1>1, <1>2 DEF Edge

LEMMA PollReads ==
    ASSUME NEW p \in States, NEW s \in Sockets, NEW f \in Fds, backend = "poll",
           s \notin p.read
    PROVE  SubRead(p, s, f) =
             [read |-> p.read \cup {s}, write |-> p.write, error |-> p.error,
              readFd |-> [p.readFd EXCEPT ![f] = s], writeFd |-> p.writeFd,
              asked |-> p.asked \cup {f}, mask |-> [p.mask EXCEPT ![f] = {"in"}],
              raised |-> p.raised \/ f \in p.asked]
  BY DEF States, SubRead, PollSubRead, Register, Edge, Kqueue, Select

LEMMA SelectReads ==
    ASSUME NEW p \in States, NEW s \in Sockets, NEW f \in Fds, Select, s \notin p.read
    PROVE  SubRead(p, s, f) =
             [read |-> p.read \cup {s}, write |-> p.write, error |-> p.error,
              readFd |-> p.readFd, writeFd |-> p.writeFd,
              asked |-> p.asked, mask |-> p.mask, raised |-> p.raised]
  BY DEF States, SubRead, Edge, Kqueue, Select

\* modify() of a descriptor
LEMMA Modifies ==
    ASSUME NEW p \in States, NEW f \in Fds, NEW kinds \in SUBSET Masks
    PROVE  Modify(p, f, kinds) =
             [read |-> p.read, write |-> p.write, error |-> p.error,
              readFd |-> p.readFd, writeFd |-> p.writeFd, asked |-> p.asked,
              mask |-> [p.mask EXCEPT ![f] = kinds],
              raised |-> p.raised \/ f \notin p.asked]
<1>1. ASSUME NEW q \in States, NEW m \in [Fds -> SUBSET Masks]
      PROVE  [q EXCEPT !.mask = m] =
                 [read |-> q.read, write |-> q.write, error |-> q.error,
                  readFd |-> q.readFd, writeFd |-> q.writeFd, asked |-> q.asked,
                  mask |-> m, raised |-> q.raised]
  BY DEF States
<1>2. ASSUME NEW q \in States, NEW x \in BOOLEAN
      PROVE  [q EXCEPT !.raised = x] =
                 [read |-> q.read, write |-> q.write, error |-> q.error,
                  readFd |-> q.readFd, writeFd |-> q.writeFd, asked |-> q.asked,
                  mask |-> q.mask, raised |-> x]
  BY DEF States
<1> DEFINE m == [p.mask EXCEPT ![f] = kinds]
           x == p.raised \/ f \notin p.asked
           q == [p EXCEPT !.mask = m]
<1>3. m \in [Fds -> SUBSET Masks] /\ x \in BOOLEAN
  BY DEF States
<1>4. Modify(p, f, kinds) = [p EXCEPT !.mask = m, !.raised = x]
  BY DEF Modify, States
<1> HIDE DEF m, x
<1>5. [p EXCEPT !.mask = m, !.raised = x] = [q EXCEPT !.raised = x]
  BY DEF States
<1>6. q = [read |-> p.read, write |-> p.write, error |-> p.error,
           readFd |-> p.readFd, writeFd |-> p.writeFd, asked |-> p.asked,
           mask |-> m, raised |-> p.raised]
  BY <1>1, <1>3
<1> HIDE DEF q
<1>7. q \in States
  BY <1>3, <1>6 DEF States
<1>8. [q EXCEPT !.raised = x] =
          [read |-> q.read, write |-> q.write, error |-> q.error,
           readFd |-> q.readFd, writeFd |-> q.writeFd, asked |-> q.asked,
           mask |-> q.mask, raised |-> x]
  BY <1>2, <1>3, <1>7
<1>9. Modify(p, f, kinds) =
          [read |-> q.read, write |-> q.write, error |-> q.error,
           readFd |-> q.readFd, writeFd |-> q.writeFd, asked |-> q.asked,
           mask |-> q.mask, raised |-> x]
  BY <1>4, <1>5, <1>8, Zenon
<1> QED BY <1>6, <1>9 DEF m, x

\* an open socket subscribes or unsubscribes its writes
LEMMA PollWrites ==
    ASSUME NEW p \in States, NEW s \in Sockets, NEW f \in Fds
    PROVE  /\ PollSubWrite(p, s, f) =
                [read |-> p.read, write |-> p.write \cup {s}, error |-> p.error,
                 readFd |-> p.readFd, writeFd |-> [p.writeFd EXCEPT ![f] = s],
                 asked |-> p.asked, mask |-> [p.mask EXCEPT ![f] = Masks],
                 raised |-> p.raised \/ f \notin p.asked]
           /\ PollUnsubWrite(p, s, f) =
                [read |-> p.read, write |-> p.write \ {s}, error |-> p.error,
                 readFd |-> p.readFd, writeFd |-> [p.writeFd EXCEPT ![f] = None],
                 asked |-> p.asked, mask |-> [p.mask EXCEPT ![f] = {"in"}],
                 raised |-> p.raised \/ f \notin p.asked]
<1>1. /\ p.write \cup {s} \in SUBSET Sockets /\ p.write \ {s} \in SUBSET Sockets
      /\ Masks \in SUBSET Masks /\ {"in"} \in SUBSET Masks
  BY DEF States, Masks
<1>2. ASSUME NEW ws \in SUBSET Sockets, NEW w \in Sockets \cup {None}, NEW q,
             q = [p EXCEPT !.write = ws, !.writeFd[f] = w]
      PROVE  /\ q \in States
             /\ q = [read |-> p.read, write |-> ws, error |-> p.error,
                     readFd |-> p.readFd, writeFd |-> [p.writeFd EXCEPT ![f] = w],
                     asked |-> p.asked, mask |-> p.mask, raised |-> p.raised]
  BY <1>2 DEF States
<1>3. ASSUME NEW ws \in SUBSET Sockets, NEW w \in Sockets \cup {None},
             NEW kinds \in SUBSET Masks
      PROVE  Modify([p EXCEPT !.write = ws, !.writeFd[f] = w], f, kinds) =
                 [read |-> p.read, write |-> ws, error |-> p.error,
                  readFd |-> p.readFd, writeFd |-> [p.writeFd EXCEPT ![f] = w],
                  asked |-> p.asked, mask |-> [p.mask EXCEPT ![f] = kinds],
                  raised |-> p.raised \/ f \notin p.asked]
  <2> DEFINE q == [p EXCEPT !.write = ws, !.writeFd[f] = w]
  <2>1. /\ q \in States
        /\ q = [read |-> p.read, write |-> ws, error |-> p.error,
                readFd |-> p.readFd, writeFd |-> [p.writeFd EXCEPT ![f] = w],
                asked |-> p.asked, mask |-> p.mask, raised |-> p.raised]
    BY <1>2
  <2> HIDE DEF q
  <2>2. Modify(q, f, kinds) =
            [read |-> q.read, write |-> q.write, error |-> q.error,
             readFd |-> q.readFd, writeFd |-> q.writeFd, asked |-> q.asked,
             mask |-> [q.mask EXCEPT ![f] = kinds],
             raised |-> q.raised \/ f \notin q.asked]
    BY <2>1, Modifies
  <2>3. Modify(q, f, kinds) =
            [read |-> p.read, write |-> ws, error |-> p.error,
             readFd |-> p.readFd, writeFd |-> [p.writeFd EXCEPT ![f] = w],
             asked |-> p.asked, mask |-> [p.mask EXCEPT ![f] = kinds],
             raised |-> p.raised \/ f \notin p.asked]
    BY <2>1, <2>2
  <2> QED BY <2>3 DEF q
<1>4. PollSubWrite(p, s, f) =
          Modify([p EXCEPT !.write = p.write \cup {s}, !.writeFd[f] = s], f, Masks)
  BY DEF PollSubWrite, States
<1>5. PollUnsubWrite(p, s, f) =
          Modify([p EXCEPT !.write = p.write \ {s}, !.writeFd[f] = None], f, {"in"})
  BY DEF PollUnsubWrite, States
<1> QED BY <1>1, <1>3, <1>4, <1>5

\* an open socket unsubscribes from all
LEMMA EdgeLeaves ==
    ASSUME NEW p \in States, NEW s \in Sockets, NEW f \in Fds, Edge, s \in p.read,
           f \in p.asked, "in" \in p.mask[f], "out" \in p.mask[f]
    PROVE  /\ UnsubAll(p, s, f) = UnsubRead(p, s, f)
           /\ UnsubRead(p, s, f) =
             [read |-> p.read \ {s}, write |-> p.write \ {s},
              error |-> p.error \ {s},
              readFd |-> [p.readFd EXCEPT ![f] = None], writeFd |-> p.writeFd,
              asked |-> p.asked \ {f}, mask |-> [p.mask EXCEPT ![f] = {}],
              raised |-> p.raised]
<1>1. UnsubAll(p, s, f) = UnsubRead(p, s, f)
  BY DEF UnsubAll, UnsubError, UnsubWrite, Select, Edge
<1>2. CASE backend = "epoll"
  BY <1>1, <1>2 DEF States, UnsubRead, EpollUnsubRead, DisownAll, Unregister, Kqueue,
     Select
<1>3. CASE backend = "kqueue"
  <2>1. p.mask[f] = Masks
    BY DEF States, Masks
  <2>2. p.mask[f] \subseteq Masks /\ p.mask[f] \ Masks = {} /\ Masks \subseteq p.mask[f]
    BY <2>1
  <2> QED BY <1>1, <1>3, <2>2 DEF States, UnsubRead, KqueueUnsubRead, DisownAll,
             DeleteFilters, Kqueue, Select
<1> QED BY <1>1, <1>2, <1>3 DEF Edge

LEMMA PollLeaves ==
    ASSUME NEW p \in States, NEW s \in Sockets, NEW f \in Fds, backend = "poll",
           s \in p.read, f \in p.asked
    PROVE  /\ s \notin p.write => UnsubAll(p, s, f) =
                [read |-> p.read \ {s}, write |-> p.write, error |-> p.error \ {s},
                 readFd |-> [p.readFd EXCEPT ![f] = None], writeFd |-> p.writeFd,
                 asked |-> p.asked \ {f}, mask |-> [p.mask EXCEPT ![f] = {}],
                 raised |-> p.raised]
           /\ s \in p.write => UnsubAll(p, s, f) =
                [read |-> p.read \ {s}, write |-> p.write \ {s},
                 error |-> p.error \ {s},
                 readFd |-> [p.readFd EXCEPT ![f] = None],
                 writeFd |-> [p.writeFd EXCEPT ![f] = None],
                 asked |-> p.asked \ {f}, mask |-> [p.mask EXCEPT ![f] = {}],
                 raised |-> p.raised]
<1> USE DEF States, UnsubAll, UnsubError, UnsubWrite, PollUnsubWrite, UnsubRead,
            PollUnsubRead, Unregister, Modify, Edge, Kqueue, Select
<1>1. CASE s \notin p.write
  <2> DEFINE q == [read |-> p.read, write |-> p.write, error |-> p.error \ {s},
                   readFd |-> p.readFd, writeFd |-> p.writeFd,
                   asked |-> p.asked, mask |-> p.mask, raised |-> p.raised]
  <2>1. UnsubWrite(UnsubError(p, s), s, f) = q
    BY <1>1
  <2>2. UnsubRead(q, s, f) =
            [read |-> p.read \ {s}, write |-> p.write, error |-> p.error \ {s},
             readFd |-> [p.readFd EXCEPT ![f] = None], writeFd |-> p.writeFd,
             asked |-> p.asked \ {f}, mask |-> [p.mask EXCEPT ![f] = {}],
             raised |-> p.raised]
    OBVIOUS
  <2>3. UnsubAll(p, s, f) = UnsubRead(q, s, f)
    BY ONLY <2>1 DEF UnsubAll
  <2> QED BY ONLY <1>1, <2>2, <2>3
<1>2. CASE s \in p.write
  <2>1. UnsubWrite(UnsubError(p, s), s, f) =
            [read |-> p.read, write |-> p.write \ {s}, error |-> p.error \ {s},
             readFd |-> p.readFd, writeFd |-> [p.writeFd EXCEPT ![f] = None],
             asked |-> p.asked, mask |-> [p.mask EXCEPT ![f] = {"in"}],
             raised |-> p.raised]
    BY <1>2
  <2>2. [[p.mask EXCEPT ![f] = {"in"}] EXCEPT ![f] = {}] = [p.mask EXCEPT ![f] = {}]
    OBVIOUS
  <2> QED BY <1>2, <2>1, <2>2
<1> QED BY <1>1, <1>2

LEMMA SelectLeaves ==
    ASSUME NEW p \in States, NEW s \in Sockets, NEW f \in Fds, Select
    PROVE  UnsubAll(p, s, f) =
             [read |-> p.read \ {s}, write |-> p.write \ {s},
              error |-> p.error \ {s},
              readFd |-> p.readFd, writeFd |-> p.writeFd,
              asked |-> p.asked, mask |-> p.mask, raised |-> p.raised]
<1> DEFINE q == [p EXCEPT !.error = @ \ {s}]
           r == [q EXCEPT !.write = @ \ {s}]
<1>1. UnsubError(p, s) = q /\ q.write = p.write /\ q.read = p.read /\ q \in States
  BY DEF States, UnsubError, Edge, Select
<1>2. UnsubWrite(q, s, f) = r
  <2>1. CASE s \in p.write
    BY <1>1, <2>1 DEF UnsubWrite, Edge, Select
  <2>2. CASE s \notin p.write
    <3>1. p.write \ {s} = p.write
      BY <2>2
    <3>2. r = q
      BY <1>1, <3>1 DEF States
    <3> QED BY <1>1, <2>2, <3>2 DEF UnsubWrite
  <2> QED BY <2>1, <2>2
<1>3. r \in States /\ r.read = p.read
  BY <1>1 DEF States
<1>4. UnsubRead(r, s, f) = [r EXCEPT !.read = @ \ {s}]
  <2>1. CASE s \in p.read
    BY <1>3, <2>1 DEF UnsubRead, Edge, Kqueue, Select
  <2>2. CASE s \notin p.read
    <3>1. p.read \ {s} = p.read
      BY <2>2
    <3>2. r = [r EXCEPT !.read = @ \ {s}]
      BY <1>3, <3>1 DEF States
    <3> QED BY <1>3, <2>2, <3>2 DEF UnsubRead
  <2> QED BY <2>1, <2>2
<1>5. UnsubAll(p, s, f) = [r EXCEPT !.read = @ \ {s}]
  BY <1>1, <1>2, <1>4 DEF UnsubAll
<1> QED BY <1>5 DEF States

-----------------------------------------------------------------------------
(* What each keeps.                                                        *)

\* open() and the second half of upgrade()
LEMMA OpenGood ==
    ASSUME NEW p, NEW d, Good(p, d), NEW s \in Sockets, NEW f \in Fds,
           backend \in Backends, d[s] = None, \A t \in Sockets : d[t] # f
    PROVE  Good(SubError(SubRead(p, s, f), s), [d EXCEPT ![s] = f])
<1> DEFINE e == [d EXCEPT ![s] = f]
           q == SubRead(p, s, f)
           r == SubError(q, s)
<1>0. /\ p \in States /\ d \in Descriptors /\ p.raised = FALSE
      /\ s \notin p.read \cup p.write \cup p.error
      /\ None \notin Sockets \cup Fds
      /\ \/ backend = "epoll" \/ backend = "kqueue"
         \/ backend = "poll" \/ backend = "select"
  BY BackendsAssumption, NamesAssumption DEF Good, Living, States
<1>1. e \in Descriptors /\ \A t \in Sockets : e[t] = IF t = s THEN f ELSE d[t]
  BY <1>0 DEF Descriptors
<1>2. CASE Edge
  <2>1. f \notin p.asked
    BY <1>0, <1>2 DEF Good, Asking, Edge, Select, States
  <2>2. r = [read |-> p.read \cup {s}, write |-> p.write \cup {s},
             error |-> p.error \cup {s},
             readFd |-> [p.readFd EXCEPT ![f] = s], writeFd |-> p.writeFd,
             asked |-> p.asked \cup {f}, mask |-> [p.mask EXCEPT ![f] = Masks],
             raised |-> p.raised]
    BY <1>0, <1>2, <2>1, EdgeReads DEF SubError
  <2> HIDE DEF r, e
  <2>3. r \in States /\ ~r.raised
    BY <1>0, <2>1, <2>2 DEF States
  <2>4. Living(r, e)
    <3>1. \A t, u \in Sockets : e[t] # None /\ e[t] = e[u] => t = u
      BY <1>0, <1>1 DEF Good, Living
    <3>2. \A t \in r.read \cup r.write \cup r.error : e[t] # None
      BY <1>0, <1>1, <2>2 DEF Good, Living, States
    <3> QED BY <3>1, <3>2 DEF Living
  <2>5. Asking(r, e)
    BY <1>0, <1>1, <1>2, <2>1, <2>2 DEF Good, Asking, Living, Edge, Select, Masks,
       Descriptors, States
  <2>6. Writing(r, e)
    BY <1>0, <1>1, <1>2, <2>1, <2>2 DEF Good, Writing, Edge, Select, States
  <2> QED BY <1>1, <1>2, <2>3, <2>4, <2>5, <2>6 DEF Good, Edge, Select, r, e
<1>3. CASE backend = "poll"
  <2>1. f \notin p.asked
    BY <1>0, <1>3 DEF Good, Asking, Edge, Select, States
  <2>2. r = [read |-> p.read \cup {s}, write |-> p.write, error |-> p.error \cup {s},
             readFd |-> [p.readFd EXCEPT ![f] = s], writeFd |-> p.writeFd,
             asked |-> p.asked \cup {f}, mask |-> [p.mask EXCEPT ![f] = {"in"}],
             raised |-> p.raised \/ f \in p.asked]
    <3>1. q = [read |-> p.read \cup {s}, write |-> p.write, error |-> p.error,
               readFd |-> [p.readFd EXCEPT ![f] = s], writeFd |-> p.writeFd,
               asked |-> p.asked \cup {f}, mask |-> [p.mask EXCEPT ![f] = {"in"}],
               raised |-> p.raised \/ f \in p.asked]
      BY <1>0, <1>3, PollReads
    <3>2. r = [q EXCEPT !.error = @ \cup {s}]
      BY <1>3 DEF SubError, Edge
    <3> HIDE DEF q, r
    <3> QED BY <3>1, <3>2
  <2> HIDE DEF r, e
  <2>3. r \in States /\ ~r.raised
    BY <1>0, <2>1, <2>2 DEF States, Masks
  <2>4. Living(r, e)
    <3>1. \A t, u \in Sockets : e[t] # None /\ e[t] = e[u] => t = u
      BY <1>0, <1>1 DEF Good, Living
    <3>2. \A t \in r.read \cup r.write \cup r.error : e[t] # None
      BY <1>0, <1>1, <2>2 DEF Good, Living, States
    <3> QED BY <3>1, <3>2 DEF Living
  <2>5. Asking(r, e)
    BY <1>0, <1>1, <1>3, <2>1, <2>2 DEF Good, Asking, Living, Edge, Select, Masks,
       Descriptors, States
  <2>6. Writing(r, e)
    BY <1>0, <1>1, <1>3, <2>1, <2>2 DEF Good, Writing, Edge, Select, States
  <2> QED BY <1>1, <1>3, <2>3, <2>4, <2>5, <2>6 DEF Good, Edge, Select, r, e
<1>4. CASE Select
  <2>1. r = [read |-> p.read \cup {s}, write |-> p.write, error |-> p.error \cup {s},
             readFd |-> p.readFd, writeFd |-> p.writeFd,
             asked |-> p.asked, mask |-> p.mask, raised |-> p.raised]
    <3>1. q = [read |-> p.read \cup {s}, write |-> p.write, error |-> p.error,
               readFd |-> p.readFd, writeFd |-> p.writeFd,
               asked |-> p.asked, mask |-> p.mask, raised |-> p.raised]
      BY <1>0, <1>4, SelectReads
    <3>2. r = [q EXCEPT !.error = @ \cup {s}]
      BY <1>4 DEF SubError, Edge, Select
    <3> HIDE DEF q, r
    <3> QED BY <3>1, <3>2
  <2> HIDE DEF r, e
  <2>2. r \in States /\ ~r.raised /\ Listing(r)
    BY <1>0, <1>4, <2>1 DEF States, Good, Listing
  <2>3. Living(r, e)
    <3>1. \A t, u \in Sockets : e[t] # None /\ e[t] = e[u] => t = u
      BY <1>0, <1>1 DEF Good, Living
    <3>2. \A t \in r.read \cup r.write \cup r.error : e[t] # None
      BY <1>0, <1>1, <2>1 DEF Good, Living, States
    <3> QED BY <3>1, <3>2 DEF Living
  <2> QED BY <1>1, <1>4, <2>2, <2>3 DEF Good, r, e
<1> QED BY <1>0, <1>2, <1>3, <1>4 DEF Edge, Select

\* close() and the first half of upgrade()
LEMMA CloseGood ==
    ASSUME NEW p, NEW d, Good(p, d), NEW s \in Sockets, backend \in Backends,
           d[s] # None
    PROVE  Good(UnsubAll(p, s, d[s]), [d EXCEPT ![s] = None])
<1> DEFINE f == d[s]
           e == [d EXCEPT ![s] = None]
           r == UnsubAll(p, s, f)
<1>0. /\ p \in States /\ d \in Descriptors /\ p.raised = FALSE /\ f \in Fds
      /\ None \notin Sockets \cup Fds
      /\ \/ backend = "epoll" \/ backend = "kqueue"
         \/ backend = "poll" \/ backend = "select"
  BY BackendsAssumption, NamesAssumption DEF Good, States, Descriptors
<1>1. /\ e \in Descriptors /\ \A t \in Sockets : e[t] = IF t = s THEN None ELSE d[t]
      /\ \A t \in Sockets : t # s => d[t] # f
  BY <1>0 DEF Descriptors, Good, Living
<1>2. CASE Edge /\ s \in p.read
  <2>1. f \in p.asked /\ "in" \in p.mask[f] /\ "out" \in p.mask[f]
    BY <1>0, <1>2 DEF Good, Asking, Writing, Edge, Select
  <2>2. r = [read |-> p.read \ {s}, write |-> p.write \ {s}, error |-> p.error \ {s},
             readFd |-> [p.readFd EXCEPT ![f] = None], writeFd |-> p.writeFd,
             asked |-> p.asked \ {f}, mask |-> [p.mask EXCEPT ![f] = {}],
             raised |-> p.raised]
    BY <1>0, <1>2, <2>1, EdgeLeaves
  <2> HIDE DEF r, e
  <2>3. r \in States /\ ~r.raised
    BY <1>0, <2>1, <2>2 DEF States
  <2>4. Living(r, e)
    BY <1>0, <1>1, <2>2 DEF Good, Living, States
  <2>5. Asking(r, e)
    BY <1>0, <1>1, <1>2, <2>1, <2>2 DEF Good, Asking, Living, Edge, Select,
       Descriptors, States
  <2>6. Writing(r, e)
    BY <1>0, <1>1, <1>2, <2>1, <2>2 DEF Good, Writing, Edge, Select, States
  <2> QED BY <1>1, <1>2, <2>3, <2>4, <2>5, <2>6 DEF Good, Edge, Select, r, e
<1>3. CASE Edge /\ s \notin p.read
  <2>1. r = p
    <3>1. s \notin p.write /\ s \notin p.error
      BY <1>0, <1>3 DEF Good, Writing, Edge, Select
    <3> QED BY <1>3, <3>1 DEF UnsubAll, UnsubError, UnsubWrite, UnsubRead
  <2>2. s \notin p.write /\ s \notin p.error
    BY <1>0, <1>3 DEF Good, Writing, Edge, Select
  <2> HIDE DEF r, e
  <2>3. Living(p, e)
    BY <1>0, <1>1, <1>3, <2>2 DEF Good, Living, States
  <2>4. Asking(p, e)
    BY <1>0, <1>1, <1>3, <2>2 DEF Good, Asking, Living, Edge, Select, States
  <2>5. Writing(p, e)
    BY <1>0, <1>1, <1>3, <2>2 DEF Good, Writing, Edge, Select, States
  <2> QED BY <1>0, <1>1, <1>3, <2>1, <2>3, <2>4, <2>5 DEF Good, Edge, Select, r, e
<1>4. CASE backend = "poll"
  <2>1. s \in p.read /\ f \in p.asked
    BY <1>0, <1>4 DEF Good, Asking, Writing, Edge, Select
  <2>2. /\ r \in States /\ ~r.raised
        /\ r.read = p.read \ {s} /\ r.write = p.write \ {s} /\ r.error = p.error \ {s}
        /\ r.readFd = [p.readFd EXCEPT ![f] = None]
        /\ \A g \in Fds : r.writeFd[g] = IF g = f THEN None ELSE p.writeFd[g]
        /\ r.asked = p.asked \ {f} /\ r.mask = [p.mask EXCEPT ![f] = {}]
    <3>1. CASE s \in p.write
      <4>1. r = [read |-> p.read \ {s}, write |-> p.write \ {s},
                 error |-> p.error \ {s},
                 readFd |-> [p.readFd EXCEPT ![f] = None],
                 writeFd |-> [p.writeFd EXCEPT ![f] = None],
                 asked |-> p.asked \ {f}, mask |-> [p.mask EXCEPT ![f] = {}],
                 raised |-> p.raised]
        BY <1>0, <1>4, <2>1, <3>1, PollLeaves
      <4> HIDE DEF r
      <4> QED BY <1>0, <4>1 DEF States
    <3>2. CASE s \notin p.write
      <4>1. p.write \ {s} = p.write
        BY <3>2
      <4>2. p.writeFd[f] = None
        BY <1>0, <1>1, <1>4, <3>2 DEF Good, Writing, Edge, Select, States
      <4>3. r = [read |-> p.read \ {s}, write |-> p.write, error |-> p.error \ {s},
                 readFd |-> [p.readFd EXCEPT ![f] = None], writeFd |-> p.writeFd,
                 asked |-> p.asked \ {f}, mask |-> [p.mask EXCEPT ![f] = {}],
                 raised |-> p.raised]
        BY <1>0, <1>4, <2>1, <3>2, PollLeaves
      <4> HIDE DEF r
      <4> QED BY <1>0, <4>1, <4>2, <4>3 DEF States
    <3> QED BY <3>1, <3>2
  <2> HIDE DEF r, e
  <2>4. Living(r, e)
    BY <1>0, <1>1, <2>2 DEF Good, Living, States
  <2>5. Asking(r, e)
    BY <1>0, <1>1, <1>4, <2>1, <2>2 DEF Good, Asking, Living, Edge, Select,
       Descriptors, States
  <2>6. Writing(r, e)
    BY <1>0, <1>1, <1>4, <2>1, <2>2 DEF Good, Living, Writing, Edge, Select, States,
       Descriptors
  <2> QED BY <1>1, <1>4, <2>2, <2>4, <2>5, <2>6 DEF Good, Edge, Select, r, e
<1>5. CASE Select
  <2>1. r = [read |-> p.read \ {s}, write |-> p.write \ {s}, error |-> p.error \ {s},
             readFd |-> p.readFd, writeFd |-> p.writeFd,
             asked |-> p.asked, mask |-> p.mask, raised |-> p.raised]
    BY <1>0, <1>5, SelectLeaves
  <2> HIDE DEF r, e
  <2>2. r \in States /\ ~r.raised /\ Listing(r)
    BY <1>0, <1>5, <2>1 DEF States, Good, Listing
  <2>3. Living(r, e)
    BY <1>0, <1>1, <2>1 DEF Good, Living, States
  <2> QED BY <1>1, <1>5, <2>2, <2>3 DEF Good, r, e
<1> QED BY <1>0, <1>2, <1>3, <1>4, <1>5 DEF Edge, Select

\* ensure_write() and remove_write()
LEMMA WriteGood ==
    ASSUME NEW p, NEW d, Good(p, d), NEW s \in Sockets, d[s] # None,
           backend \in Backends
    PROVE  /\ s \notin p.write => Good(SubWrite(p, s, d[s]), d)
           /\ s \in p.write => Good(UnsubWrite(p, s, d[s]), d)
<1> DEFINE f == d[s]
<1>0. /\ p \in States /\ d \in Descriptors /\ p.raised = FALSE /\ f \in Fds
      /\ None \notin Sockets \cup Fds /\ Living(p, d)
      /\ \/ backend = "epoll" \/ backend = "kqueue"
         \/ backend = "poll" \/ backend = "select"
  BY BackendsAssumption, NamesAssumption DEF Good, States, Descriptors
<1>1. CASE Edge
  <2>1. SubWrite(p, s, f) = p /\ UnsubWrite(p, s, f) = p
    BY <1>1 DEF SubWrite, UnsubWrite, Edge, Select
  <2> QED BY <2>1
<1>2. CASE backend = "poll" /\ s \notin p.write
  <2> DEFINE r == PollSubWrite(p, s, f)
  <2>1. f \in p.asked /\ p.readFd[f] = s /\ s \in p.read
    BY <1>0, <1>2 DEF Good, Asking, Writing, Edge, Select
  <2>2. r = [read |-> p.read, write |-> p.write \cup {s}, error |-> p.error,
             readFd |-> p.readFd, writeFd |-> [p.writeFd EXCEPT ![f] = s],
             asked |-> p.asked, mask |-> [p.mask EXCEPT ![f] = Masks],
             raised |-> p.raised \/ f \notin p.asked]
    BY <1>0, PollWrites
  <2>3. SubWrite(p, s, f) = r
    BY <1>2 DEF SubWrite, Edge, Select
  <2> HIDE DEF r
  <2>4. r \in States /\ ~r.raised /\ Living(r, d)
    BY <1>0, <2>1, <2>2 DEF States, Living
  <2>5. Asking(r, d)
    BY <1>0, <1>2, <2>1, <2>2 DEF Good, Asking, Living, Edge, Select, Masks,
       Descriptors, States
  <2>6. Writing(r, d)
    BY <1>0, <1>2, <2>1, <2>2 DEF Good, Living, Writing, Edge, Select, States,
       Descriptors
  <2> QED BY <1>0, <1>2, <2>3, <2>4, <2>5, <2>6 DEF Good, Select
<1>3. CASE backend = "poll" /\ s \in p.write
  <2> DEFINE r == PollUnsubWrite(p, s, f)
  <2>1. f \in p.asked /\ p.readFd[f] = s /\ s \in p.read /\ p.writeFd[f] = s
    BY <1>0, <1>3 DEF Good, Asking, Writing, Edge, Select
  <2>2. r = [read |-> p.read, write |-> p.write \ {s}, error |-> p.error,
             readFd |-> p.readFd, writeFd |-> [p.writeFd EXCEPT ![f] = None],
             asked |-> p.asked, mask |-> [p.mask EXCEPT ![f] = {"in"}],
             raised |-> p.raised \/ f \notin p.asked]
    BY <1>0, PollWrites
  <2>3. UnsubWrite(p, s, f) = r
    BY <1>3 DEF UnsubWrite, Edge, Select
  <2> HIDE DEF r
  <2>4. r \in States /\ ~r.raised /\ Living(r, d)
    BY <1>0, <2>1, <2>2 DEF States, Living, Masks
  <2>5. Asking(r, d)
    BY <1>0, <1>3, <2>1, <2>2 DEF Good, Asking, Living, Edge, Select, Masks,
       Descriptors, States
  <2>6. Writing(r, d)
    BY <1>0, <1>3, <2>1, <2>2 DEF Good, Living, Writing, Edge, Select, States,
       Descriptors
  <2> QED BY <1>0, <1>3, <2>3, <2>4, <2>5, <2>6 DEF Good, Select
<1>4. CASE Select
  <2>1. ASSUME NEW r, r = [p EXCEPT !.write = @ \cup {s}]
                     \/ r = [p EXCEPT !.write = @ \ {s}]
        PROVE  Good(r, d)
    <3>1. r \in States /\ ~r.raised /\ Listing(r)
      BY <1>0, <1>4, <2>1 DEF Good, Listing, States
    <3>2. Living(r, d)
      BY <1>0, <2>1 DEF Living, States
    <3> QED BY <1>0, <1>4, <3>1, <3>2 DEF Good
  <2>2. s \notin p.write => SubWrite(p, s, f) = [p EXCEPT !.write = @ \cup {s}]
    BY <1>4 DEF SubWrite, Edge, Select
  <2>3. s \in p.write => UnsubWrite(p, s, f) = [p EXCEPT !.write = @ \ {s}]
    BY <1>4 DEF UnsubWrite, Edge, Select
  <2> QED BY <2>1, <2>2, <2>3
<1> QED BY <1>0, <1>1, <1>2, <1>3, <1>4 DEF Edge, Select

\* disable_read() of all but poll
LEMMA DisableGood ==
    ASSUME NEW p, NEW d, Good(p, d), NEW s \in Sockets, s \in p.read,
           backend \in {"epoll", "kqueue", "select"}
    PROVE  Good(UnsubRead(p, s, d[s]), d)
<1> DEFINE f == d[s]
           r == UnsubRead(p, s, f)
<1>0. /\ p \in States /\ d \in Descriptors /\ p.raised = FALSE /\ f \in Fds
      /\ None \notin Sockets \cup Fds /\ Living(p, d)
  BY NamesAssumption DEF Good, Living, States, Descriptors
<1>1. CASE Edge
  <2>1. f \in p.asked /\ "in" \in p.mask[f] /\ "out" \in p.mask[f]
    BY <1>0, <1>1 DEF Good, Asking, Writing, Edge, Select
  <2>2. r = [read |-> p.read \ {s}, write |-> p.write \ {s}, error |-> p.error \ {s},
             readFd |-> [p.readFd EXCEPT ![f] = None], writeFd |-> p.writeFd,
             asked |-> p.asked \ {f}, mask |-> [p.mask EXCEPT ![f] = {}],
             raised |-> p.raised]
    BY <1>0, <1>1, <2>1, EdgeLeaves
  <2> HIDE DEF r
  <2>3. r \in States /\ ~r.raised /\ Living(r, d)
    BY <1>0, <2>1, <2>2 DEF States, Living
  <2>4. Asking(r, d)
    BY <1>0, <1>1, <2>1, <2>2 DEF Good, Asking, Living, Edge, Select, Descriptors,
       States
  <2>5. Writing(r, d)
    BY <1>0, <1>1, <2>1, <2>2 DEF Good, Writing, Edge, Select, States
  <2> QED BY <1>0, <1>1, <2>3, <2>4, <2>5 DEF Good, Edge, Select, r
<1>2. CASE Select
  <2>1. r = [p EXCEPT !.read = @ \ {s}]
    BY <1>2 DEF UnsubRead, Edge, Kqueue, Select
  <2> HIDE DEF r
  <2>2. r \in States /\ ~r.raised /\ Listing(r) /\ Living(r, d)
    BY <1>0, <1>2, <2>1 DEF Good, Listing, Living, States
  <2> QED BY <1>0, <1>2, <2>2 DEF Good, r
<1> QED BY <1>1, <1>2 DEF Edge, Select

\* enable_read(), which changes nothing with poll
LEMMA EnableGood ==
    ASSUME NEW p, NEW d, Good(p, d), NEW s \in Sockets, s \notin p.read,
           d[s] # None, backend \in Backends
    PROVE  Good(SubRead(p, s, d[s]), d)
<1> DEFINE f == d[s]
           r == SubRead(p, s, f)
<1>0. /\ p \in States /\ d \in Descriptors /\ p.raised = FALSE /\ f \in Fds
      /\ None \notin Sockets \cup Fds /\ Living(p, d)
      /\ \/ backend = "epoll" \/ backend = "kqueue"
         \/ backend = "poll" \/ backend = "select"
  BY BackendsAssumption, NamesAssumption DEF Good, States, Descriptors
<1>1. CASE Edge
  <2>1. f \notin p.asked
    BY <1>0, <1>1 DEF Good, Asking, Living, Edge, Select, States
  <2>2. r = [read |-> p.read \cup {s}, write |-> p.write \cup {s},
             error |-> p.error \cup {s},
             readFd |-> [p.readFd EXCEPT ![f] = s], writeFd |-> p.writeFd,
             asked |-> p.asked \cup {f}, mask |-> [p.mask EXCEPT ![f] = Masks],
             raised |-> p.raised]
    BY <1>0, <1>1, <2>1, EdgeReads
  <2> HIDE DEF r
  <2>3. r \in States /\ ~r.raised /\ Living(r, d)
    BY <1>0, <2>1, <2>2 DEF States, Living
  <2>4. Asking(r, d)
    BY <1>0, <1>1, <2>1, <2>2 DEF Good, Asking, Living, Edge, Select, Masks,
       Descriptors, States
  <2>5. Writing(r, d)
    BY <1>0, <1>1, <2>1, <2>2 DEF Good, Writing, Edge, Select, States
  <2> QED BY <1>0, <1>1, <2>3, <2>4, <2>5 DEF Good, Edge, Select, r
<1>2. CASE backend = "poll"
  BY <1>2 DEF Good, Writing, Edge, Select
<1>3. CASE Select
  <2>1. r = [p EXCEPT !.read = @ \cup {s}]
    BY <1>3 DEF SubRead, Edge, Kqueue, Select
  <2> HIDE DEF r
  <2>2. r \in States /\ ~r.raised /\ Listing(r) /\ Living(r, d)
    BY <1>0, <1>3, <2>1 DEF Good, Listing, Living, States
  <2> QED BY <1>0, <1>3, <2>2 DEF Good, r
<1> QED BY <1>0, <1>1, <1>2, <1>3 DEF Edge, Select

-----------------------------------------------------------------------------
(* The invariant of the specification.                                     *)

\* An action assigns the fields of one record.
LEMMA Becoming ==
    ASSUME NEW p \in States, Becomes(p)
    PROVE  State' = p
  BY DEF Becomes, State, States

LEMMA PollInvInit == PollInit => PollInv
<1> SUFFICES ASSUME PollInit PROVE PollInv
  OBVIOUS
<1>1. State = [read |-> {}, write |-> {}, error |-> {},
               readFd |-> [f \in Fds |-> None], writeFd |-> [f \in Fds |-> None],
               asked |-> {}, mask |-> [f \in Fds |-> {}], raised |-> FALSE]
  BY DEF PollInit, State
<1>2. State \in States /\ ~State.raised
  BY <1>1 DEF States
<1>3. Living(State, fd) /\ Listing(State) /\ Asking(State, fd)
  BY <1>1 DEF PollInit, Living, Listing, Asking
<1>4. Writing(State, fd)
  BY <1>1 DEF PollInit, Writing
<1>5. fd \in Descriptors /\ \A s \in Sockets : life[s] # "open" /\ fd[s] = None
  BY DEF PollInit, Descriptors
<1> QED BY <1>2, <1>3, <1>4, <1>5 DEF PollInit, PollInv, Good

\* What remains of a step: the record it makes and the lives of the sockets.
LEMMA StepMakes ==
    ASSUME NEW p, NEW d, Good(p, d), fd' = d, Becomes(p), UNCHANGED backend,
           backend \in Backends,
           life' \in [Sockets -> {"new", "open", "closed"}], opened' \in BOOLEAN,
           \A s \in Sockets : life'[s] = "open" => opened',
           \A s \in Sockets : life'[s] = "open" <=> d[s] # None
    PROVE  PollInv'
<1>1. State' = p
  BY Becoming DEF Good
<1>2. Good(p, d)'
  BY DEF Good, Asking, Writing, Living, Listing, Select, Edge
<1> QED BY <1>1, <1>2 DEF PollInv

\* when no socket has a descriptor nothing is known of any, and close() raises not
LEMMA ClearedGood ==
    ASSUME NEW p, NEW d, Good(p, d), backend \in Backends,
           \A s \in Sockets : d[s] = None
    PROVE  Good(Cleared(p), d) /\ Good(Cleared(UnregisterAll(p)), d)
<1>1. p \in States /\ d \in Descriptors /\ p.raised = FALSE
  BY DEF Good, States
<1>2. \A f \in Fds : p.readFd[f] # None => f \in p.asked
  <2>1. CASE Select
    BY <2>1 DEF Good, Listing
  <2>2. CASE ~Select
    BY <2>2 DEF Good, Asking
  <2> QED BY <2>1, <2>2
<1>3. UnregisterAll(p) = p
  <2>1. p.raised = (p.raised \/ \E f \in Fds : p.readFd[f] # None /\ f \notin p.asked)
    BY <1>1, <1>2
  <2> QED BY <1>1, <2>1 DEF UnregisterAll, States
<1> DEFINE r == Cleared(p)
<1>4. r = [read |-> {}, write |-> {}, error |-> {},
           readFd |-> [f \in Fds |-> None], writeFd |-> [f \in Fds |-> None],
           asked |-> {}, mask |-> [f \in Fds |-> {}], raised |-> p.raised]
  BY DEF Cleared
<1> HIDE DEF r
<1>5. r \in States /\ ~r.raised
  BY <1>1, <1>4 DEF States
<1>6. Living(r, d) /\ Listing(r) /\ Asking(r, d) /\ Writing(r, d)
  BY <1>4 DEF Living, Listing, Asking, Writing
<1>7. Good(r, d)
  BY <1>1, <1>5, <1>6 DEF Good
<1> QED BY <1>3, <1>7 DEF r

\* every socket that poll() answers has an owner on its list
LEMMA OwnersFound ==
    ASSUME PollInv, NEW a \in Answers, a[2] # None
    PROVE  a[2] \in Owners[a[1]]
<1>0. /\ backend \in Backends /\ Good(State, fd) /\ State \in States
      /\ \/ backend = "epoll" \/ backend = "kqueue"
         \/ backend = "poll" \/ backend = "select"
      /\ State.read = readO /\ State.write = writeO /\ State.error = errorO
      /\ State.readFd = readFd /\ State.writeFd = writeFd /\ State.asked = asked
      /\ State.mask = mask
  BY BackendsAssumption DEF PollInv, Good, State
<1>1. CASE Select
  BY <1>1 DEF Select, Answers, SelectAnswers, Owners
<1>2. CASE ~Select
  <2>1. Asking(State, fd) /\ Writing(State, fd) /\ asked \subseteq Fds
    BY <1>0, <1>2 DEF Good, States
  <2>2. ASSUME NEW e \in Events
        PROVE  /\ e.fd \in asked /\ e.fd \in Fds /\ readFd[e.fd] \in readO
               /\ readFd[e.fd] \in errorO
               /\ e.filter \in {"in", "out", "error"}
    <3>1. e.fd \in asked /\ e.filter \in {"in", "out", "error"}
      BY DEF Events, Masks
    <3>2. readFd[e.fd] \in readO
      BY <1>0, <2>1, <3>1 DEF Asking
    <3>3. \A s \in readO : s \in errorO
      BY <1>0, <2>1 DEF Asking
    <3> QED BY <2>1, <3>1, <3>2, <3>3
  <2>3. CASE Edge
    <3>1. readO = writeO /\ readO = errorO
      BY <1>0, <2>1, <2>3 DEF Writing
    <3>2. PICK e \in Events : a[1] \in {"read", "write", "error"} /\ a[2] = readFd[e.fd]
      <4>1. CASE backend = "epoll"
        <5>1. PICK e \in Events : a = EpollAnswer(e)
          BY <4>1 DEF Answers
        <5> QED BY <2>2, <5>1 DEF EpollAnswer, List
      <4>2. CASE backend = "kqueue"
        <5>1. PICK e \in Events : a = KqueueAnswer(e)
          BY <4>2 DEF Answers
        <5> QED BY <2>2, <5>1 DEF KqueueAnswer, List
      <4> QED BY <2>3, <4>1, <4>2 DEF Edge
    <3> QED BY <2>2, <3>1, <3>2 DEF Owners
  <2>4. CASE backend = "poll"
    <3>1. PICK e \in Events : a = PollAnswer(e)
      BY <2>4 DEF Answers
    <3>2. CASE e.filter = "out"
      <4>1. a[1] = "write" /\ a[2] = writeFd[e.fd]
        BY <3>1, <3>2 DEF PollAnswer, List
      <4>2. a[2] \in writeO
        BY <1>0, <2>1, <2>2, <4>1 DEF Writing
      <4> QED BY <4>1, <4>2 DEF Owners
    <3>3. CASE e.filter # "out"
      <4>1. a[1] \in {"read", "error"} /\ a[2] = readFd[e.fd]
        BY <2>2, <3>1, <3>3 DEF PollAnswer, List
      <4> QED BY <2>2, <4>1 DEF Owners
    <3> QED BY <3>2, <3>3
  <2> QED BY <1>0, <1>2, <2>3, <2>4 DEF Edge, Select
<1> QED BY <1>1, <1>2

LEMMA PollInvStep ==
    ASSUME "poll" \notin Disables, PollInv, [PollNext]_pollVars
    PROVE  PollInv'
<1>0. /\ backend \in Backends /\ Good(State, fd) /\ fd \in Descriptors
      /\ life \in [Sockets -> {"new", "open", "closed"}]
      /\ \A s \in Sockets : life[s] = "open" <=> fd[s] # None
      /\ State.read = readO /\ State.write = writeO
      /\ None \notin Sockets \cup Fds /\ opened \in BOOLEAN
      /\ \A s \in Sockets : life[s] = "open" => opened
  BY NamesAssumption DEF PollInv, Good, State
<1>1. CASE UNCHANGED pollVars
  BY <1>1 DEF pollVars, poll, owners, fds, kernel, PollInv, Good, State, Living,
     Asking, Writing, Listing, Edge, Select
<1>2. ASSUME NEW s \in Sockets, NEW f \in Fds, Open(s, f)
      PROVE  PollInv'
  <2>1. Good(SubError(SubRead(State, s, f), s), [fd EXCEPT ![s] = f])
    BY <1>0, <1>2, OpenGood DEF Open, Free
  <2>2. \A t \in Sockets : life'[t] = "open" <=> [fd EXCEPT ![s] = f][t] # None
    BY <1>0, <1>2 DEF Open, Descriptors
  <2> QED BY <1>0, <1>2, <2>1, <2>2, StepMakes DEF Open
<1>3. ASSUME NEW s \in Sockets, EnsureWrite(s) \/ RemoveWrite(s)
      PROVE  PollInv'
  <2>1. fd[s] # None
    BY <1>0, <1>3 DEF EnsureWrite, RemoveWrite, Lives
  <2>2. CASE EnsureWrite(s)
    <3>1. Good(SubWrite(State, s, fd[s]), fd)
      BY <1>0, <2>1, <2>2, WriteGood DEF EnsureWrite
    <3> QED BY <1>0, <2>2, <3>1, StepMakes DEF EnsureWrite
  <2>3. CASE RemoveWrite(s)
    <3>1. Good(UnsubWrite(State, s, fd[s]), fd)
      BY <1>0, <2>1, <2>3, WriteGood DEF RemoveWrite
    <3> QED BY <1>0, <2>3, <3>1, StepMakes DEF RemoveWrite
  <2> QED BY <1>3, <2>2, <2>3
<1>4. ASSUME NEW s \in Sockets, DisableRead(s)
      PROVE  PollInv'
  <2>1. Good(UnsubRead(State, s, fd[s]), fd)
    BY <1>0, <1>4, DisableGood, BackendsAssumption DEF DisableRead
  <2> QED BY <1>0, <1>4, <2>1, StepMakes DEF DisableRead
<1>5. ASSUME NEW s \in Sockets, EnableRead(s)
      PROVE  PollInv'
  <2>1. Good(SubRead(State, s, fd[s]), fd)
    BY <1>0, <1>5, EnableGood DEF EnableRead, Lives
  <2> QED BY <1>0, <1>5, <2>1, StepMakes DEF EnableRead
<1>6. ASSUME NEW s \in Sockets, NEW t \in Sockets, Upgrade(s, t)
      PROVE  PollInv'
  <2> DEFINE f == fd[s]
             e == [fd EXCEPT ![s] = None]
             p == UnsubAll(State, s, f)
  <2>1. f # None /\ f \in Fds /\ s # t /\ fd[t] = None
    BY <1>0, <1>6 DEF Upgrade, Lives, Descriptors
  <2>2. Good(p, e)
    BY <1>0, <2>1, CloseGood
  <2>3. e[t] = None /\ \A u \in Sockets : e[u] # f
    BY <1>0, <2>1 DEF Good, Living, Descriptors
  <2>4. Good(SubError(SubRead(p, t, f), t), [e EXCEPT ![t] = f])
    BY <1>0, <2>1, <2>2, <2>3, OpenGood
  <2>5. fd' = [e EXCEPT ![t] = f]
    BY <1>0, <1>6, <2>1 DEF Upgrade, Descriptors
  <2>6. \A u \in Sockets : life'[u] = "open" <=> fd'[u] # None
    BY <1>0, <1>6, <2>1 DEF Upgrade, Descriptors
  <2>7. /\ life' \in [Sockets -> {"new", "open", "closed"}]
        /\ \A u \in Sockets : life'[u] = "open" => opened'
    BY <1>0, <1>6 DEF Upgrade, Lives
  <2>8. Becomes(SubError(SubRead(p, t, f), t)) /\ UNCHANGED <<backend, opened>>
    BY <1>6 DEF Upgrade
  <2> HIDE DEF e, p, f
  <2> QED BY <1>0, <2>4, <2>5, <2>6, <2>7, <2>8, StepMakes
<1>7. ASSUME NEW s \in Sockets, Close(s)
      PROVE  PollInv'
  <2>1. fd[s] # None
    BY <1>0, <1>7 DEF Close, Lives
  <2>2. Good(UnsubAll(State, s, fd[s]), [fd EXCEPT ![s] = None])
    BY <1>0, <2>1, CloseGood
  <2>3. \A t \in Sockets : life'[t] = "open" <=> [fd EXCEPT ![s] = None][t] # None
    BY <1>0, <1>7 DEF Close, Descriptors
  <2> QED BY <1>0, <1>7, <2>2, <2>3, StepMakes DEF Close
<1>8. ASSUME OpenPoll \/ ClosePoll
      PROVE  PollInv'
  <2>1. \A s \in Sockets : fd[s] = None
    BY <1>0, <1>8 DEF OpenPoll, ClosePoll
  <2>2. Good(Cleared(State), fd) /\ Good(Cleared(UnregisterAll(State)), fd)
    BY <1>0, <2>1, ClearedGood
  <2>3. PICK p \in {Cleared(State), Cleared(UnregisterAll(State))} : Becomes(p)
    BY <1>8 DEF OpenPoll, ClosePoll
  <2>4. /\ UNCHANGED <<backend, life, fd>> /\ opened' \in BOOLEAN
        /\ \A s \in Sockets : life'[s] # "open"
    BY <1>0, <1>8 DEF OpenPoll, ClosePoll
  <2>5. Good(p, fd)
    BY <2>2, <2>3
  <2> QED BY <1>0, <2>3, <2>4, <2>5, StepMakes
<1>9. ASSUME PollOwner
      PROVE  PollInv'
  <2>1. raised' = FALSE
    BY <1>0, <1>9, OwnersFound DEF PollOwner
  <2>2. raised = FALSE
    BY <1>0 DEF Good, State, States
  <2>3. State' = State
    BY <1>9, <2>1, <2>2 DEF PollOwner, State, owners, fds
  <2> QED BY <1>0, <1>9, <2>3 DEF PollOwner, PollInv, Good, Asking, Writing, Living,
             Listing, Select, Edge
<1> QED BY <1>1, <1>2, <1>3, <1>4, <1>5, <1>6, <1>7, <1>8, <1>9 DEF PollNext

\* The invariant says what the properties say.
LEMMA PollInvSafe ==
    ASSUME PollInv
    PROVE  PollSafety
<1>0. /\ backend \in Backends /\ fd \in Descriptors /\ State \in States
      /\ \/ backend = "epoll" \/ backend = "kqueue"
         \/ backend = "poll" \/ backend = "select"
      /\ None \notin Sockets \cup Fds
      /\ \A s \in Sockets : life[s] = "open" <=> fd[s] # None
      /\ Living(State, fd) /\ ~raised
      /\ State.read = readO /\ State.write = writeO /\ State.error = errorO
      /\ State.readFd = readFd /\ State.writeFd = writeFd
      /\ State.asked = asked /\ State.mask = mask /\ State.raised = raised
  BY BackendsAssumption, NamesAssumption DEF PollInv, Good, State
<1>1. PollType
  BY <1>0 DEF PollInv, PollType, States, Descriptors
<1>2. CASE Select
  <2>1. Listing(State)
    BY <1>2 DEF PollInv, Good
  <2>2. Owned
    BY <1>0, <2>1 DEF Owned, Listing, Living
  <2>3. Reported
    BY <1>2 DEF Reported
  <2> QED BY <1>0, <1>1, <2>2, <2>3 DEF PollSafety, NeverRaises
<1>3. CASE ~Select
  <2>1. Asking(State, fd) /\ Writing(State, fd)
    BY <1>3 DEF PollInv, Good
  <2>2. Reported
    BY <1>0, <2>1 DEF Reported, Asking, Writing, Edge
  <2>3. ASSUME NEW f \in asked
        PROVE  \E s \in Sockets : /\ life[s] = "open" /\ fd[s] = f
                                  /\ readFd[f] = s /\ s \in readO /\ s \in errorO
                                  /\ "out" \in mask[f] => s \in writeO
    <3>1. readFd[f] \in readO /\ fd[readFd[f]] = f /\ f \in Fds
      BY <1>0, <2>1, <2>3 DEF Asking, States
    <3>2. readFd[f] \in Sockets /\ readFd[f] \in errorO
      BY <1>0, <2>1, <3>1 DEF Asking, States
    <3>3. "out" \in mask[f] => readFd[f] \in writeO
      BY <1>0, <2>1, <2>3 DEF Asking
    <3> QED BY <1>0, <3>1, <3>2, <3>3
  <2>4. ASSUME NEW s \in Sockets, life[s] = "closed"
        PROVE  /\ s \notin readO \cup writeO \cup errorO
               /\ \A f \in Fds : readFd[f] # s /\ writeFd[f] # s
    <3>1. fd[s] = None /\ s \notin readO \cup writeO \cup errorO
      BY <1>0, <2>4 DEF Living
    <3>2. \A f \in Fds : readFd[f] # s
      BY <1>0, <2>1, <3>1 DEF Asking
    <3>3. \A f \in Fds : writeFd[f] # s
      BY <1>0, <2>1, <3>1 DEF Writing
    <3> QED BY <3>1, <3>2, <3>3
  <2>5. Owned
    BY <2>3, <2>4 DEF Owned
  <2> QED BY <1>0, <1>1, <2>2, <2>5 DEF PollSafety, NeverRaises
<1> QED BY <1>2, <1>3

\* Over opens, closes, upgrades and descriptors given again, who is subscribed
\* is told, what the kernel reports belongs to a socket that lives, and no
\* operation of the poll raises.
THEOREM PollSafe ==
    ASSUME "poll" \notin Disables
    PROVE  PollSpec => []PollSafety
<1>1. PollInit => PollInv
  BY PollInvInit
<1>2. PollInv /\ [PollNext]_pollVars => PollInv'
  BY PollInvStep
<1>3. PollInv => PollSafety
  BY PollInvSafe
<1> QED BY <1>1, <1>2, <1>3, PTL DEF PollSpec

-----------------------------------------------------------------------------
(* The thread pool.                                                        *)

\* how many works the threads took, and which
Taken == Len(pushed) - Len(queue)
TakenWorks == {pushed[i] : i \in 1 .. Taken}

\* no element comes twice
OneEach(seq) == \A i, j \in 1 .. Len(seq) : seq[i] = seq[j] => i = j

\* The queue is the end of what was pushed, each work once.
Queued ==
    /\ Len(queue) <= Len(pushed)
    /\ \A i \in 1 .. Len(queue) : queue[i] = pushed[Taken + i]
    /\ OneEach(pushed)

\* A thread has a work while it executes it.
Busy == \A t \in Threads : work[t] # Nothing <=> pc[t] = "execute"

\* What was taken is done, or is the work of one thread.
Placed ==
    /\ \A t \in Threads :
           work[t] # Nothing => work[t] \in TakenWorks \ SetOf(executed)
    /\ \A t, u \in Threads : work[t] # Nothing /\ work[u] = work[t] => u = t
    /\ SetOf(executed) \subseteq TakenWorks /\ OneEach(executed)
    /\ \A w \in TakenWorks \ SetOf(executed) : \E t \in Threads : work[t] = w

\* Until stop() the flags of the threads that run are set.
Flagged == ~Stopping => \A t \in Threads : pc[t] \notin {"new", "boot"} => run[t]

\* An event that is not in the hands of the loop is known to the event file,
\* or about to be.
Noticed ==
    /\ closed => loop = "stopped"
    /\ ~Files => events = <<>>
    /\ loop \in {"callbacks", "handlers", "poll"} /\ events # <<>> =>
           counter > 0 \/ \E t \in Threads : pc[t] = "notify"
    /\ loop \in {"files", "callbacks", "handlers", "poll", "denotify"} => registered

PoolInv ==
    /\ PoolType /\ Queued /\ Busy /\ Placed /\ Flagged /\ NoLostWakeup /\ Noticed
    /\ Counted

LEMMA SeqFacts ==
    ASSUME NEW S, NEW s \in Seq(S)
    PROVE  /\ s # <<>> => Head(s) \in S /\ Tail(s) \in Seq(S)
           /\ \A e \in S : Append(s, e) \in Seq(S)
  OBVIOUS

\* what is read of the event file is in it
LEMMA DenotifyReads ==
    ASSUME PoolType, Noticed, Counted, Denotify
    PROVE  counter' \in Nat /\ count' \in Nat /\ Counted'
<1>1. /\ counter \in Nat /\ count \in Nat /\ ~closed /\ UNCHANGED <<file, closed>>
      /\ ReadBytes \in Nat /\ ReadBytes <= counter
  BY EventFilesAssumption DEF PoolType, Noticed, Denotify, ReadBytes, chosen
<1>2. CASE file = "unix"
  BY <1>1, <1>2 DEF Denotify, UnixDenotify, Counted
<1>3. CASE file # "unix"
  <2>1. count = counter
    BY <1>1, <1>3 DEF Counted
  <2>2. \/ UNCHANGED <<counter, count>>
        \/ counter' = counter - ReadBytes /\ count' = count - ReadBytes
    BY <1>3 DEF Denotify, PipeDenotify, SocketDenotify
  <2> QED BY <1>1, <2>1, <2>2 DEF Counted
<1> QED BY <1>2, <1>3

LEMMA NotifyWrites ==
    ASSUME PoolType, NEW t \in Threads, Notify(t)
    PROVE  /\ counter' \in Nat /\ count' \in Nat
           /\ ~closed => counter' = counter + 1
           /\ Counted => Counted'
<1>1. counter \in Nat /\ count \in Nat /\ UNCHANGED <<file, closed>>
  BY DEF PoolType, Notify, chosen
<1>2. /\ counter' = IF closed THEN counter ELSE counter + 1
      /\ count' = IF file = "unix" THEN count ELSE count + 1
  BY DEF Notify, UnixNotify, PipeNotify, SocketNotify, FileWritten
<1> QED BY <1>1, <1>2 DEF Counted

LEMMA CountedStep ==
    ASSUME PoolType, Noticed, Counted, [PoolNext]_poolVars
    PROVE  Counted'
<1>1. ASSUME NEW t \in Threads, Notify(t) PROVE Counted'
  BY <1>1, NotifyWrites
<1>2. ASSUME Denotify PROVE Counted'
  BY <1>2, DenotifyReads
<1>3. CASE UNCHANGED <<file, counter, count>> /\ (closed => closed')
  BY <1>3 DEF Counted
<1>4. \/ \E t \in Threads : Notify(t)
      \/ Denotify
      \/ UNCHANGED <<file, counter, count>> /\ (closed => closed')
  BY DEF PoolNext, ThreadStep, OwnerStep, poolVars, threads, owner, history, chosen,
         Boot, While, Wait, Leave, Pop, ExecuteFile, ExecuteTask, Move, Start, Push,
         TakeEvents, CallEvents, EnterPoll, LeavePoll, StopThread, StopWake, Join, Stop
<1> QED BY <1>1, <1>2, <1>3, <1>4

LEMMA PoolTypeStep ==
    PoolType /\ Busy /\ Noticed /\ Counted /\ [PoolNext]_poolVars => PoolType'
<1> SUFFICES ASSUME PoolType, Busy, Noticed, Counted, [PoolNext]_poolVars
             PROVE  PoolType'
  OBVIOUS
<1> USE CountAssumption, WorksAssumption, KindsAssumption
    DEF PoolType, threads, owner, history, chosen
<1>1. ASSUME NEW t \in Threads, Boot(t) PROVE PoolType'
  BY <1>1 DEF Boot, Move
<1>2. ASSUME NEW t \in Threads, While(t) PROVE PoolType'
  BY <1>2 DEF While, Move
<1>3. ASSUME NEW t \in Threads, Wait(t) PROVE PoolType'
  BY <1>3 DEF Wait, Move
<1>4. ASSUME NEW t \in Threads, Leave(t) PROVE PoolType'
  BY <1>4 DEF Leave, Move
<1>5. ASSUME NEW t \in Threads, Pop(t) PROVE PoolType'
  BY <1>5 DEF Pop, Move
<1>6. ASSUME NEW t \in Threads, ExecuteFile(t) PROVE PoolType'
  <2>1. work[t] \in Works
    BY <1>6 DEF ExecuteFile, Move, Busy
  <2>2. executed' \in Seq(Works) /\ events' \in Seq(Works)
    BY <1>6, <2>1, SeqFacts DEF ExecuteFile, Move, Done
  <2>3. pc' \in [Threads -> {"new", "boot", "head", "tick", "wait", "execute",
                             "notify", "dead"}]
    BY <1>6 DEF ExecuteFile, Move, Done
  <2>4. work' \in [Threads -> Works \cup {Nothing}]
    BY <1>6 DEF ExecuteFile, Move, Done
  <2> QED BY <1>6, <2>2, <2>3, <2>4 DEF ExecuteFile
<1>7. ASSUME NEW t \in Threads, Notify(t) PROVE PoolType'
  <2>1. counter' \in Nat /\ count' \in Nat
    BY ONLY <1>7, PoolType, t \in Threads, NotifyWrites
  <2> QED BY <1>7, <2>1 DEF Notify, Move
<1>8. ASSUME NEW t \in Threads, ExecuteTask(t) PROVE PoolType'
  <2>1. work[t] \in Works
    BY <1>8 DEF ExecuteTask, Move, Busy
  <2>2. executed' \in Seq(Works)
    BY <1>8, <2>1, SeqFacts DEF ExecuteTask, Move, Done
  <2>3. pc' \in [Threads -> {"new", "boot", "head", "tick", "wait", "execute",
                             "notify", "dead"}]
    BY <1>8 DEF ExecuteTask, Move, Done
  <2>4. work' \in [Threads -> Works \cup {Nothing}]
    BY <1>8 DEF ExecuteTask, Move, Done
  <2> QED BY <1>8, <2>2, <2>3, <2>4 DEF ExecuteTask
<1>9. ASSUME Start PROVE PoolType'
  <2>1. CASE turn \in Threads
    <3>1. turn' \in 1 .. Count + 1
      BY <1>9, <2>1 DEF Start, Pregister, Threads
    <3> QED BY <1>9, <2>1, <3>1 DEF Start, Pregister, Move
  <2>2. CASE turn \notin Threads
    <3>1. turn' \in 1 .. Count + 1
      BY <1>9, <2>2 DEF Start, Pregister, Threads
    <3> QED BY <1>9, <2>2, <3>1 DEF Start, Pregister, Move
  <2> QED BY <2>1, <2>2
<1>10. ASSUME TakeEvents PROVE PoolType'
  <2>1. CASE Files
    BY <1>10, <2>1 DEF TakeEvents
  <2>2. CASE ~Files
    BY <1>10, <2>2 DEF TakeEvents
  <2> QED BY <2>1, <2>2
<1>11. ASSUME CallEvents PROVE PoolType'
  <2>1. CASE batch = <<>>
    BY <1>11, <2>1 DEF CallEvents
  <2>2. CASE batch # <<>>
    <3>1. Head(batch) \in Works /\ batch' \in Seq(Works)
      BY <1>11, <2>2, SeqFacts DEF CallEvents
    <3>2. answered' = Append(answered, Head(batch))
      BY <1>11, <2>2 DEF CallEvents
    <3>3. answered' \in Seq(Works)
      BY <3>1, <3>2, SeqFacts
    <3> QED BY <1>11, <2>2, <3>1, <3>3 DEF CallEvents
  <2> QED BY <2>1, <2>2
<1>12. ASSUME EnterPoll PROVE PoolType'
  BY <1>12 DEF EnterPoll
<1>13. ASSUME LeavePoll PROVE PoolType'
  BY <1>13 DEF LeavePoll
<1>14. ASSUME Denotify PROVE PoolType'
  <2>1. counter' \in Nat /\ count' \in Nat
    BY ONLY <1>14, PoolType, Noticed, Counted, DenotifyReads
  <2> QED BY <1>14, <2>1 DEF Denotify
<1>15. ASSUME StopThread PROVE PoolType'
  <2>1. CASE turn \in Threads
    <3>1. turn' \in 1 .. Count + 1
      BY <1>15, <2>1 DEF StopThread, Threads
    <3> QED BY <1>15, <2>1, <3>1 DEF StopThread
  <2>2. CASE turn \notin Threads
    <3>1. turn' \in 1 .. Count + 1
      BY <1>15, <2>2 DEF StopThread, Threads
    <3> QED BY <1>15, <2>2, <3>1 DEF StopThread
  <2> QED BY <2>1, <2>2
<1>16. ASSUME StopWake PROVE PoolType'
  BY <1>16 DEF StopWake, NotifyAll, Waiting
<1>17. ASSUME Join PROVE PoolType'
  <2>1. CASE turn \in Threads
    <3>1. turn' \in 1 .. Count + 1
      BY <1>17, <2>1 DEF Join, Threads
    <3> QED BY <1>17, <2>1, <3>1 DEF Join
  <2>2. CASE turn \notin Threads
    <3>1. turn' \in 1 .. Count + 1
      BY <1>17, <2>2 DEF Join, Threads
    <3> QED BY <1>17, <2>2, <3>1 DEF Join
  <2> QED BY <2>1, <2>2
<1>18. ASSUME Stop PROVE PoolType'
  <2>1. turn' \in 1 .. Count + 1 /\ loop' = "stop"
    BY <1>18 DEF Stop
  <2>2. registered' \in BOOLEAN /\ early' \in BOOLEAN
    BY <1>18 DEF Stop, Punregister
  <2> QED BY <1>18, <2>1, <2>2 DEF Stop
<1>19. ASSUME NEW w \in Works, Push(w) PROVE PoolType'
  BY <1>19 DEF Push, NotifyOne, Waiting
<1>20. CASE UNCHANGED poolVars
  BY <1>20 DEF poolVars
<1> QED BY <1>1, <1>2, <1>3, <1>4, <1>5, <1>6, <1>7, <1>8, <1>9, <1>10, <1>11,
        <1>12, <1>13, <1>14, <1>15, <1>16, <1>17, <1>18, <1>19, <1>20
         DEF PoolNext, ThreadStep, OwnerStep

\* What a step does to the works: nothing, or it takes, ends or adds one.
LEMMA WorkSteps ==
    ASSUME [PoolNext]_poolVars
    PROVE  \/ UNCHANGED <<queue, work, pushed, executed>>
           \/ \E t \in Threads : Pop(t)
           \/ \E t \in Threads : /\ pc[t] = "execute" /\ Done(t)
                                /\ UNCHANGED <<queue, pushed>>
           \/ \E w \in Works : Push(w)
  BY DEF PoolNext, ThreadStep, OwnerStep, poolVars, threads, owner, history, Boot,
         While, Wait, Leave, ExecuteFile, Notify, ExecuteTask, Move, Start,
         TakeEvents, CallEvents, EnterPoll, LeavePoll, Denotify, StopThread,
         StopWake, Join, Stop

LEMMA AppendOne ==
    ASSUME NEW S, NEW s \in Seq(S), NEW e \in S
    PROVE  /\ SetOf(Append(s, e)) = SetOf(s) \cup {e}
           /\ OneEach(s) /\ e \notin SetOf(s) => OneEach(Append(s, e))
<1>1. /\ Append(s, e) \in Seq(S) /\ Len(Append(s, e)) = Len(s) + 1
      /\ \A i \in 1 .. Len(s) : Append(s, e)[i] = s[i]
      /\ Append(s, e)[Len(s) + 1] = e
  OBVIOUS
<1>2. /\ DOMAIN s = 1 .. Len(s)
      /\ DOMAIN Append(s, e) = 1 .. (Len(s) + 1)
  BY <1>1
<1>3. SetOf(Append(s, e)) \subseteq SetOf(s) \cup {e}
  <2>1. ASSUME NEW i \in 1 .. (Len(s) + 1) PROVE Append(s, e)[i] \in SetOf(s) \cup {e}
    <3>1. CASE i \in 1 .. Len(s)
      BY <1>1, <1>2, <3>1 DEF SetOf
    <3>2. CASE i = Len(s) + 1
      BY <1>1, <3>2
    <3> QED BY <2>1, <3>1, <3>2
  <2> QED BY <1>2, <2>1 DEF SetOf
<1>4. SetOf(s) \cup {e} \subseteq SetOf(Append(s, e))
  <2>1. \A i \in DOMAIN s : i \in DOMAIN Append(s, e) /\ Append(s, e)[i] = s[i]
    BY <1>1, <1>2
  <2>2. Len(s) + 1 \in DOMAIN Append(s, e)
    BY <1>2
  <2> QED BY <1>1, <2>1, <2>2 DEF SetOf
<1>5. ASSUME OneEach(s), e \notin SetOf(s) PROVE OneEach(Append(s, e))
  <2>1. \A i \in 1 .. Len(s) : s[i] # e
    BY <1>2, <1>5 DEF SetOf
  <2>2. ASSUME NEW i \in 1 .. (Len(s) + 1), NEW j \in 1 .. (Len(s) + 1),
               Append(s, e)[i] = Append(s, e)[j]
        PROVE  i = j
    <3>1. CASE i \in 1 .. Len(s) /\ j \in 1 .. Len(s)
      BY <1>1, <1>5, <2>2, <3>1 DEF OneEach
    <3>2. CASE i = Len(s) + 1 \/ j = Len(s) + 1
      BY <1>1, <2>1, <2>2, <3>2
    <3> QED BY <3>1, <3>2
  <2> QED BY <1>1, <2>2 DEF OneEach
<1> QED BY <1>3, <1>4, <1>5

LEMMA QueuedStep == PoolType /\ Queued /\ [PoolNext]_poolVars => Queued'
<1> SUFFICES ASSUME PoolType, Queued, [PoolNext]_poolVars PROVE Queued'
  OBVIOUS
<1>0. queue \in Seq(Works) /\ pushed \in Seq(Works)
  BY DEF PoolType
<1>1. CASE UNCHANGED <<queue, pushed>>
  BY <1>1 DEF Queued, Taken, OneEach
<1>2. ASSUME NEW t \in Threads, Pop(t) PROVE Queued'
  <2>1. /\ queue # <<>> /\ queue' = Tail(queue) /\ pushed' = pushed
        /\ Len(queue') = Len(queue) - 1 /\ Taken' = Taken + 1
    BY <1>0, <1>2 DEF Pop, history, Taken
  <2>2. \A i \in 1 .. Len(queue') : queue'[i] = queue[i + 1]
    BY <1>0, <2>1
  <2>3. ASSUME NEW i \in 1 .. Len(queue') PROVE queue'[i] = pushed'[Taken' + i]
    <3>1. i + 1 \in 1 .. Len(queue) /\ Taken + (i + 1) = Taken' + i
      BY <1>0, <2>1 DEF Taken
    <3> QED BY <2>1, <2>2, <3>1 DEF Queued
  <2>4. OneEach(pushed') /\ Len(queue') <= Len(pushed')
    BY <1>0, <2>1 DEF Queued, OneEach
  <2> QED BY <2>3, <2>4 DEF Queued, OneEach
<1>3. ASSUME NEW w \in Works, Push(w) PROVE Queued'
  <2>1. /\ queue' = Append(queue, w) /\ pushed' = Append(pushed, w)
        /\ w \notin SetOf(pushed)
        /\ Len(queue') = Len(queue) + 1 /\ Len(pushed') = Len(pushed) + 1
        /\ Taken' = Taken
    BY <1>0, <1>3 DEF Push, Taken
  <2>2. OneEach(pushed')
    BY <1>0, <2>1, AppendOne DEF Queued
  <2>3. ASSUME NEW i \in 1 .. Len(queue') PROVE queue'[i] = pushed'[Taken' + i]
    <3>1. CASE i \in 1 .. Len(queue)
      <4>1. Taken + i \in 1 .. Len(pushed) /\ queue[i] = pushed[Taken + i]
        BY <1>0, <3>1 DEF Queued, Taken
      <4> QED BY <1>0, <2>1, <3>1, <4>1
    <3>2. CASE i = Len(queue) + 1
      <4>1. Taken + i = Len(pushed) + 1
        BY <1>0, <3>2 DEF Taken
      <4>2. pushed'[Len(pushed) + 1] = w /\ queue'[Len(queue) + 1] = w
        BY <1>0, <2>1
      <4>3. Taken' + i = Len(pushed) + 1
        BY <2>1, <4>1
      <4> QED BY <3>2, <4>2, <4>3
    <3>3. Len(queue') = Len(queue) + 1 /\ Len(queue) \in Nat
      BY <1>0, <2>1
    <3>4. i \in 1 .. Len(queue) \/ i = Len(queue) + 1
      BY <3>3
    <3> QED BY <3>1, <3>2, <3>4
  <2>4. Len(queue') <= Len(pushed')
    BY <1>0, <2>1 DEF Queued
  <2> QED BY <2>2, <2>3, <2>4 DEF Queued, OneEach
<1> QED BY <1>1, <1>2, <1>3, WorkSteps

LEMMA BusyStep == PoolType /\ Busy /\ [PoolNext]_poolVars => Busy'
<1> SUFFICES ASSUME PoolType, Busy, [PoolNext]_poolVars PROVE Busy'
  OBVIOUS
<1> USE WorksAssumption DEF Busy, PoolType, threads, owner, history, chosen
<1>1. ASSUME NEW t \in Threads, Boot(t) \/ While(t) \/ Wait(t) \/ Leave(t) PROVE Busy'
  BY <1>1 DEF Boot, While, Wait, Leave, Move
<1>2. ASSUME NEW t \in Threads, Pop(t) PROVE Busy'
  BY <1>2 DEF Pop, Move
<1>3. ASSUME NEW t \in Threads, ExecuteFile(t) \/ ExecuteTask(t) PROVE Busy'
  BY <1>3 DEF ExecuteFile, ExecuteTask, Move, Done
<1>4. ASSUME NEW t \in Threads, Notify(t) PROVE Busy'
  BY <1>4 DEF Notify, Move
<1>5. ASSUME Start PROVE Busy'
  BY <1>5 DEF Start, Pregister, Move
<1>6. ASSUME TakeEvents \/ CallEvents \/ EnterPoll \/ LeavePoll \/ Denotify PROVE Busy'
  BY <1>6 DEF TakeEvents, CallEvents, EnterPoll, LeavePoll, Denotify
<1>7. ASSUME Stop \/ StopThread \/ StopWake \/ Join PROVE Busy'
  BY <1>7 DEF Stop, Punregister, StopThread, StopWake, Join, NotifyAll, Waiting
<1>8. ASSUME NEW w \in Works, Push(w) PROVE Busy'
  BY <1>8 DEF Push, NotifyOne, Waiting
<1>9. CASE UNCHANGED poolVars
  BY <1>9 DEF poolVars
<1> QED BY <1>1, <1>2, <1>3, <1>4, <1>5, <1>6, <1>7, <1>8, <1>9
        DEF PoolNext, ThreadStep, OwnerStep

LEMMA PlacedStep ==
    PoolType /\ Queued /\ Busy /\ Placed /\ [PoolNext]_poolVars => Placed'
<1> SUFFICES ASSUME PoolType, Queued, Busy, Placed, [PoolNext]_poolVars
             PROVE  Placed'
  OBVIOUS
<1>0. /\ queue \in Seq(Works) /\ pushed \in Seq(Works) /\ executed \in Seq(Works)
      /\ work \in [Threads -> Works \cup {Nothing}] /\ Nothing \notin Works
  BY WorksAssumption DEF PoolType
<1>1. CASE UNCHANGED <<queue, work, pushed, executed>>
  <2>1. /\ TakenWorks' = TakenWorks /\ SetOf(executed)' = SetOf(executed)
        /\ OneEach(executed)' <=> OneEach(executed)
    BY <1>1 DEF TakenWorks, Taken, SetOf, OneEach
  <2> QED BY <1>1, <2>1 DEF Placed
<1>2. ASSUME NEW t \in Threads, Pop(t) PROVE Placed'
  <2> DEFINE w == pushed[Taken + 1]
  <2>1. /\ queue # <<>> /\ Taken' = Taken + 1 /\ Taken + 1 \in 1 .. Len(pushed)
        /\ Taken \in Nat /\ UNCHANGED <<pushed, executed>>
    BY <1>0, <1>2 DEF Pop, history, Queued, Taken
  <2>2. Head(queue) = w /\ w \in Works
    <3>1. 1 \in 1 .. Len(queue) /\ Head(queue) = queue[1]
      BY <1>0, <2>1
    <3>2. queue[1] = pushed[Taken + 1]
      BY <3>1 DEF Queued
    <3>3. pushed[Taken + 1] \in Works
      BY <1>0, <2>1
    <3> QED BY <3>1, <3>2, <3>3
  <2>3. work' = [work EXCEPT ![t] = w] /\ work[t] = Nothing
    BY <1>0, <1>2, <2>2 DEF Pop, Move, Busy
  <2>4. TakenWorks' = TakenWorks \cup {w}
    <3>1. 1 .. Taken' = (1 .. Taken) \cup {Taken + 1}
      BY <2>1
    <3> QED BY <2>1, <3>1 DEF TakenWorks
  <2>5. w \notin TakenWorks
    <3>1. \A i \in 1 .. Taken : i \in 1 .. Len(pushed) /\ i # Taken + 1
      BY <2>1
    <3> QED BY <2>1, <3>1 DEF Queued, OneEach, TakenWorks
  <2>6. SetOf(executed') = SetOf(executed) /\ OneEach(executed')
    BY <2>1 DEF Placed
  <2>7. \A u \in Threads : work[u] # w
    BY <1>0, <2>2, <2>5 DEF Placed
  <2> HIDE DEF w
  <2>8. \A u \in Threads : work'[u] = IF u = t THEN w ELSE work[u]
    BY <1>0, <2>3
  <2>9. \A v \in TakenWorks' \ SetOf(executed') : \E u \in Threads : work'[u] = v
    <3>1. TAKE v \in TakenWorks' \ SetOf(executed')
    <3>2. CASE v = w
      BY <2>8, <3>2
    <3>3. CASE v # w
      <4>1. PICK u \in Threads : work[u] = v
        BY <2>4, <2>6, <3>1, <3>3 DEF Placed
      <4>2. v # Nothing
        <5>1. v \in SetOf(pushed)
          BY <2>1, <2>4, <3>1, <3>3 DEF TakenWorks, SetOf
        <5> QED BY <1>0, <5>1 DEF SetOf
      <4> QED BY <2>3, <2>8, <4>1, <4>2
    <3> QED BY <3>2, <3>3
  <2> QED BY <1>0, <2>2, <2>4, <2>5, <2>6, <2>7, <2>8, <2>9 DEF Placed
<1>3. ASSUME NEW t \in Threads, pc[t] = "execute", Done(t), UNCHANGED <<queue, pushed>>
      PROVE  Placed'
  <2>1. work[t] # Nothing /\ work[t] \in Works /\ TakenWorks' = TakenWorks
    BY <1>0, <1>3 DEF Busy, TakenWorks, Taken
  <2>2. /\ executed' = Append(executed, work[t])
        /\ \A u \in Threads : work'[u] = IF u = t THEN Nothing ELSE work[u]
    BY <1>0, <1>3 DEF Done
  <2>3. SetOf(executed') = SetOf(executed) \cup {work[t]} /\ OneEach(executed')
    BY <1>0, <2>1, <2>2, AppendOne DEF Placed
  <2>4. \A v \in TakenWorks' \ SetOf(executed') : \E u \in Threads : work'[u] = v
    BY <2>1, <2>2, <2>3 DEF Placed
  <2> QED BY <2>1, <2>2, <2>3, <2>4 DEF Placed
<1>4. ASSUME NEW w \in Works, Push(w) PROVE Placed'
  <2>1. Taken' = Taken /\ Taken <= Len(pushed) /\ UNCHANGED <<work, executed>>
    BY <1>0, <1>4 DEF Push, Queued, Taken
  <2>2. TakenWorks' = TakenWorks
    <3>1. \A i \in 1 .. Taken : pushed'[i] = pushed[i]
      BY <1>0, <1>4, <2>1 DEF Push, Taken
    <3> QED BY <2>1, <3>1 DEF TakenWorks
  <2>3. SetOf(executed') = SetOf(executed) /\ (OneEach(executed') <=> OneEach(executed))
    BY <2>1
  <2> QED BY <2>1, <2>2, <2>3 DEF Placed
<1> QED BY <1>1, <1>2, <1>3, <1>4, WorkSteps

LEMMA FlaggedStep == PoolType /\ Flagged /\ [PoolNext]_poolVars => Flagged'
<1> SUFFICES ASSUME PoolType, Flagged, [PoolNext]_poolVars PROVE Flagged'
  OBVIOUS
<1> USE WorksAssumption DEF Flagged, Stopping, PoolType, threads, owner, history, chosen
<1>1. ASSUME NEW t \in Threads, Boot(t) \/ While(t) \/ Wait(t) \/ Leave(t) PROVE Flagged'
  BY <1>1 DEF Boot, While, Wait, Leave, Move
<1>2. ASSUME NEW t \in Threads, Pop(t) PROVE Flagged'
  BY <1>2 DEF Pop, Move
<1>3. ASSUME NEW t \in Threads, ExecuteFile(t) \/ ExecuteTask(t) PROVE Flagged'
  BY <1>3 DEF ExecuteFile, ExecuteTask, Move, Done
<1>4. ASSUME NEW t \in Threads, Notify(t) PROVE Flagged'
  BY <1>4 DEF Notify, Move
<1>5. ASSUME Start PROVE Flagged'
  BY <1>5 DEF Start, Pregister, Move
<1>6. ASSUME TakeEvents \/ CallEvents \/ EnterPoll \/ LeavePoll \/ Denotify PROVE Flagged'
  BY <1>6 DEF TakeEvents, CallEvents, EnterPoll, LeavePoll, Denotify
<1>7. ASSUME Stop \/ StopThread \/ StopWake \/ Join PROVE Flagged'
  BY <1>7 DEF Stop, Punregister, StopThread, StopWake, Join, NotifyAll, Waiting
<1>8. ASSUME NEW w \in Works, Push(w) PROVE Flagged'
  BY <1>8 DEF Push, NotifyOne, Waiting
<1>9. CASE UNCHANGED poolVars
  BY <1>9 DEF poolVars
<1> QED BY <1>1, <1>2, <1>3, <1>4, <1>5, <1>6, <1>7, <1>8, <1>9
        DEF PoolNext, ThreadStep, OwnerStep

LEMMA NoticedStep == PoolType /\ Noticed /\ [PoolNext]_poolVars => Noticed'
<1> SUFFICES ASSUME PoolType, Noticed, [PoolNext]_poolVars PROVE Noticed'
  OBVIOUS
<1> USE WorksAssumption DEF Noticed, Files, PoolType, threads, owner, history, chosen
<1>1. ASSUME NEW t \in Threads, Boot(t) \/ While(t) \/ Wait(t) \/ Leave(t) PROVE Noticed'
  BY <1>1 DEF Boot, While, Wait, Leave, Move
<1>2. ASSUME NEW t \in Threads, Pop(t) PROVE Noticed'
  BY <1>2 DEF Pop, Move
<1>3. ASSUME NEW t \in Threads, ExecuteFile(t) \/ ExecuteTask(t) PROVE Noticed'
  BY <1>3 DEF ExecuteFile, ExecuteTask, Move, Done
<1>4. ASSUME NEW t \in Threads, Notify(t) PROVE Noticed'
  <2>1. ~closed => counter' = counter + 1
    BY ONLY <1>4, PoolType, t \in Threads, NotifyWrites
  <2> QED BY <1>4, <2>1 DEF Notify, Move
<1>5. ASSUME Start PROVE Noticed'
  BY <1>5 DEF Start, Pregister, Move
<1>6. ASSUME TakeEvents \/ CallEvents \/ EnterPoll \/ LeavePoll \/ Denotify PROVE Noticed'
  BY <1>6 DEF TakeEvents, CallEvents, EnterPoll, LeavePoll, Denotify
<1>7. ASSUME Stop \/ StopThread \/ StopWake \/ Join PROVE Noticed'
  BY <1>7 DEF Stop, Punregister, StopThread, StopWake, Join, NotifyAll, Waiting
<1>8. ASSUME NEW w \in Works, Push(w) PROVE Noticed'
  BY <1>8 DEF Push, NotifyOne, Waiting
<1>9. CASE UNCHANGED poolVars
  BY <1>9 DEF poolVars
<1> QED BY <1>1, <1>2, <1>3, <1>4, <1>5, <1>6, <1>7, <1>8, <1>9
        DEF PoolNext, ThreadStep, OwnerStep

LEMMA ThreadSets ==
    /\ IsFiniteSet(Threads)
    /\ \A S \in SUBSET Threads : IsFiniteSet(S) /\ Cardinality(S) \in Nat
<1>1. IsFiniteSet(Threads)
  BY CountAssumption, FS_Interval DEF Threads
<1>2. ASSUME NEW S \in SUBSET Threads PROVE IsFiniteSet(S) /\ Cardinality(S) \in Nat
  BY <1>1, FS_Subset, FS_CardinalityType
<1> QED BY <1>1, <1>2

\* More threads on their way, and none that waits anew, for the same queue.
LEMMA MoreTicking ==
    ASSUME NoLostWakeup, PoolType, UNCHANGED queue, Stopping => Stopping',
           Ticking \subseteq Ticking', Waiting' \subseteq Waiting
    PROVE  NoLostWakeup'
<1>1. Ticking \in SUBSET Threads /\ Ticking' \in SUBSET Threads
  BY DEF Ticking
<1>2. Cardinality(Ticking) <= Cardinality(Ticking')
  BY <1>1, ThreadSets, FS_Subset
<1>3. Cardinality(Ticking) \in Nat /\ Cardinality(Ticking') \in Nat
  BY <1>1, ThreadSets
<1>4. Len(queue) \in Nat
  BY DEF PoolType
<1> QED BY <1>2, <1>3, <1>4 DEF NoLostWakeup

LEMMA WakeupStep ==
    PoolType /\ Flagged /\ NoLostWakeup /\ [PoolNext]_poolVars => NoLostWakeup'
<1> SUFFICES ASSUME PoolType, Flagged, NoLostWakeup, [PoolNext]_poolVars
             PROVE  NoLostWakeup'
  OBVIOUS
<1> USE DEF threads, owner, history, chosen
<1>0. /\ pc \in [Threads -> {"new", "boot", "head", "tick", "wait", "execute",
                            "notify", "dead"}]
      /\ queue \in Seq(Works)
  BY DEF PoolType
<1>1. CASE UNCHANGED <<queue, pc>> /\ (Stopping => Stopping')
  <2>1. Ticking' = Ticking /\ Waiting' = Waiting
    BY <1>1 DEF Ticking, Waiting
  <2> QED BY <1>1, <2>1, MoreTicking
<1>2. ASSUME NEW t \in Threads, pc[t] # "tick",
             NEW to \in {"boot", "head", "tick", "dead", "notify"},
             pc' = [pc EXCEPT ![t] = to], UNCHANGED queue, Stopping => Stopping'
      PROVE  NoLostWakeup'
  <2>1. Ticking \subseteq Ticking' /\ Waiting' \subseteq Waiting
    BY <1>0, <1>2 DEF Ticking, Waiting
  <2> QED BY <1>2, <2>1, MoreTicking
<1>3. ASSUME NEW t \in Threads, Wait(t) PROVE NoLostWakeup'
  <2>1. queue' = <<>> /\ Len(queue') = 0
    BY <1>3 DEF Wait
  <2>2. Cardinality(Ticking') \in Nat
    BY ThreadSets DEF Ticking
  <2> QED BY <2>1, <2>2 DEF NoLostWakeup
<1>4. ASSUME NEW t \in Threads, Leave(t) PROVE NoLostWakeup'
  <2>1. Stopping
    BY <1>4 DEF Leave, Move, Flagged
  <2>2. Stopping'
    BY <1>4, <2>1 DEF Leave, Stopping
  <2> QED BY <2>2 DEF NoLostWakeup
<1>5. ASSUME NEW t \in Threads, Pop(t) PROVE NoLostWakeup'
  <2>1. t \in Ticking /\ Ticking' = Ticking \ {t} /\ Waiting' = Waiting
    BY <1>0, <1>5 DEF Pop, Move, Ticking, Waiting
  <2>2. /\ Ticking \in SUBSET Threads
        /\ IsFiniteSet(Ticking) /\ Cardinality(Ticking) \in Nat
    BY ThreadSets DEF Ticking
  <2>3. Cardinality(Ticking') = Cardinality(Ticking) - 1
    BY <2>1, <2>2, FS_RemoveElement
  <2>4. Len(queue') = Len(queue) - 1 /\ Stopping' = Stopping
    BY <1>0, <1>5 DEF Pop, Stopping
  <2> QED BY <1>0, <2>1, <2>2, <2>3, <2>4 DEF NoLostWakeup
<1>6. CASE StopWake
  BY <1>6 DEF StopWake, NoLostWakeup, Stopping
<1>7. ASSUME NEW w \in Works, Push(w) PROVE NoLostWakeup'
  <2>1. Len(queue') = Len(queue) + 1 /\ Stopping' = Stopping
    BY <1>0, <1>7 DEF Push, Stopping
  <2>2. CASE Waiting = {}
    BY <1>7, <2>2 DEF Push, NotifyOne, NoLostWakeup, Waiting
  <2>3. CASE Waiting # {}
    <3>1. PICK t \in Waiting : pc' = [pc EXCEPT ![t] = "tick"]
      BY <1>7, <2>3 DEF Push, NotifyOne
    <3>2. Ticking' = Ticking \cup {t} /\ t \notin Ticking
      BY <1>0, <3>1 DEF Ticking, Waiting
    <3>3. IsFiniteSet(Ticking) /\ Cardinality(Ticking) \in Nat
      BY ThreadSets DEF Ticking
    <3>4. Cardinality(Ticking') = Cardinality(Ticking) + 1
      BY <3>2, <3>3, FS_AddElement
    <3> QED BY <1>0, <2>1, <2>3, <3>3, <3>4 DEF NoLostWakeup
  <2> QED BY <2>2, <2>3
<1>8. ASSUME NEW t \in Threads, Boot(t) \/ While(t) \/ ExecuteFile(t) \/ Notify(t)
                                 \/ ExecuteTask(t)
      PROVE  NoLostWakeup'
  BY <1>0, <1>2, <1>8 DEF Boot, While, ExecuteFile, Notify, ExecuteTask, Move, Stopping
<1>9. CASE Start
  <2>1. CASE turn \in Threads
    BY <1>2, <1>9, <2>1 DEF Start, Pregister, Move, Stopping
  <2>2. CASE turn \notin Threads
    BY <1>1, <1>9, <2>2 DEF Start, Stopping
  <2> QED BY <2>1, <2>2
<1>10. CASE \/ TakeEvents \/ CallEvents \/ EnterPoll \/ LeavePoll \/ Denotify
            \/ StopThread \/ Join \/ Stop
  BY <1>1, <1>10 DEF TakeEvents, CallEvents, EnterPoll, LeavePoll, Denotify,
                     StopThread, Join, Stop, Stopping
<1>11. CASE UNCHANGED poolVars
  BY <1>1, <1>11 DEF poolVars, Stopping
<1> QED BY <1>3, <1>4, <1>5, <1>6, <1>7, <1>8, <1>9, <1>10, <1>11
        DEF PoolNext, ThreadStep, OwnerStep

-----------------------------------------------------------------------------
LEMMA PoolInvStep == PoolInv /\ [PoolNext]_poolVars => PoolInv'
  BY PoolTypeStep, QueuedStep, BusyStep, PlacedStep, FlaggedStep, NoticedStep,
     WakeupStep, CountedStep DEF PoolInv

LEMMA PoolInvInit == PoolInit => PoolInv
<1> SUFFICES ASSUME PoolInit PROVE PoolInv
  OBVIOUS
<1>1. PoolType
  <2>1. /\ run \in [Threads -> BOOLEAN] /\ work \in [Threads -> Works \cup {Nothing}]
        /\ pc \in [Threads -> {"new", "boot", "head", "tick", "wait", "execute",
                              "notify", "dead"}]
    BY DEF PoolInit
  <2>2. \A S : <<>> \in Seq(S)
    OBVIOUS
  <2>3. turn \in 1 .. Count + 1
    BY CountAssumption DEF PoolInit
  <2> QED BY <2>1, <2>2, <2>3 DEF PoolInit, PoolType
<1>2. Queued /\ Placed
  BY DEF PoolInit, Queued, Placed, Taken, TakenWorks, OneEach, SetOf
<1>3. Busy /\ Flagged /\ NoLostWakeup /\ Noticed /\ Counted
  BY DEF PoolInit, Busy, Flagged, Stopping, NoLostWakeup, Waiting, Noticed, Counted
<1> QED BY <1>1, <1>2, <1>3 DEF PoolInv

LEMMA PoolInvHolds == PoolSpec => []PoolInv
  BY PoolInvInit, PoolInvStep, PTL DEF PoolSpec

\* The positions of an element that comes once, or not at all.
LEMMA PositionsOnce ==
    ASSUME NEW S, NEW s \in Seq(S), OneEach(s), NEW w
    PROVE  Cardinality(Positions(w, s)) = IF w \in SetOf(s) THEN 1 ELSE 0
<1>1. DOMAIN s = 1 .. Len(s)
  OBVIOUS
<1>2. CASE w \in SetOf(s)
  <2>1. PICK i \in 1 .. Len(s) : s[i] = w
    BY <1>1, <1>2 DEF SetOf
  <2>2. Positions(w, s) = {i}
    BY <1>1, <2>1 DEF Positions, OneEach
  <2> QED BY <1>2, <2>2, FS_Singleton
<1>3. CASE w \notin SetOf(s)
  <2>1. Positions(w, s) = {}
    BY <1>3 DEF Positions, SetOf
  <2> QED BY <1>3, <2>1, FS_EmptySet
<1> QED BY <1>2, <1>3

\* What was pushed is what was taken and what is queued, and nothing is both.
LEMMA QueueParts ==
    ASSUME PoolType, Queued
    PROVE  /\ SetOf(pushed) = TakenWorks \cup SetOf(queue)
           /\ TakenWorks \cap SetOf(queue) = {}
           /\ OneEach(queue) /\ OneEach(pushed)
<1>1. /\ queue \in Seq(Works) /\ pushed \in Seq(Works)
      /\ DOMAIN queue = 1 .. Len(queue) /\ DOMAIN pushed = 1 .. Len(pushed)
  BY DEF PoolType
<1>2. Taken \in Nat /\ Len(pushed) = Taken + Len(queue) /\ Len(queue) \in Nat
  BY <1>1 DEF Queued, Taken
<1>3. \A i \in 1 .. Len(queue) : Taken + i \in 1 .. Len(pushed) /\ Taken + i \notin 1 .. Taken
  BY <1>2
<1>4. SetOf(pushed) \subseteq TakenWorks \cup SetOf(queue)
  <2>1. ASSUME NEW i \in 1 .. Len(pushed)
        PROVE  pushed[i] \in TakenWorks \cup SetOf(queue)
    <3>1. CASE i <= Taken
      BY <1>2, <3>1 DEF TakenWorks
    <3>2. CASE i > Taken
      <4>1. i - Taken \in 1 .. Len(queue) /\ Taken + (i - Taken) = i
        BY <1>2, <3>2
      <4> QED BY <1>1, <4>1 DEF Queued, SetOf
    <3> QED BY <1>2, <3>1, <3>2
  <2> QED BY <1>1, <2>1 DEF SetOf
<1>5. SetOf(queue) \subseteq SetOf(pushed)
  BY <1>1, <1>3 DEF Queued, SetOf
<1>6. TakenWorks \subseteq SetOf(pushed)
  <2>1. \A i \in 1 .. Taken : i \in 1 .. Len(pushed)
    BY <1>2
  <2> QED BY <1>1, <2>1 DEF TakenWorks, SetOf
<1>7. TakenWorks \cap SetOf(queue) = {}
  <2>1. \A i \in 1 .. Taken : i \in 1 .. Len(pushed)
    BY <1>2
  <2>2. ASSUME NEW i \in 1 .. Taken, NEW j \in 1 .. Len(queue), pushed[i] = queue[j]
        PROVE  FALSE
    <3>1. pushed[i] = pushed[Taken + j]
      BY <2>2 DEF Queued
    <3>2. i = Taken + j
      BY <1>3, <2>1, <3>1 DEF Queued, OneEach
    <3> QED BY <1>3, <3>2
  <2> QED BY <1>1, <2>2 DEF TakenWorks, SetOf
<1>8. OneEach(queue)
  <2>1. ASSUME NEW i \in 1 .. Len(queue), NEW j \in 1 .. Len(queue), queue[i] = queue[j]
        PROVE  i = j
    <3>1. pushed[Taken + i] = pushed[Taken + j]
      BY <2>1 DEF Queued
    <3>2. Taken + i = Taken + j
      BY <1>3, <3>1 DEF Queued, OneEach
    <3> QED BY <1>2, <3>2
  <2> QED BY <2>1 DEF OneEach
<1> QED BY <1>4, <1>5, <1>6, <1>7, <1>8 DEF Queued

LEMMA PlacesOnce == PoolInv => InOnePlace
<1> SUFFICES ASSUME PoolInv, NEW w \in Works
             PROVE  Cardinality(Positions(w, queue))
                    + Cardinality({t \in Threads : work[t] = w})
                    + Cardinality(Positions(w, executed))
                    = Cardinality(Positions(w, pushed))
  BY DEF InOnePlace
<1>1. /\ PoolType /\ Queued /\ Placed
      /\ queue \in Seq(Works) /\ pushed \in Seq(Works) /\ executed \in Seq(Works)
  BY DEF PoolInv, PoolType
<1>2. /\ SetOf(pushed) = TakenWorks \cup SetOf(queue)
      /\ TakenWorks \cap SetOf(queue) = {}
      /\ OneEach(queue) /\ OneEach(pushed) /\ OneEach(executed)
  BY <1>1, QueueParts DEF Placed
<1>3. /\ Cardinality(Positions(w, queue)) = IF w \in SetOf(queue) THEN 1 ELSE 0
      /\ Cardinality(Positions(w, pushed)) = IF w \in SetOf(pushed) THEN 1 ELSE 0
      /\ Cardinality(Positions(w, executed)) = IF w \in SetOf(executed) THEN 1 ELSE 0
  BY <1>1, <1>2, PositionsOnce
<1> DEFINE Holders == {t \in Threads : work[t] = w}
<1>4. Cardinality(Holders)
      = IF w \in TakenWorks \ SetOf(executed) THEN 1 ELSE 0
  <2>0. w # Nothing
    BY WorksAssumption
  <2>1. CASE w \in TakenWorks \ SetOf(executed)
    <3>1. PICK t \in Threads : work[t] = w
      BY <1>1, <2>1 DEF Placed
    <3>2. Holders = {t}
      BY <1>1, <2>0, <3>1 DEF Placed
    <3> QED BY <2>1, <3>2, FS_Singleton
  <2>2. CASE w \notin TakenWorks \ SetOf(executed)
    <3>1. Holders = {}
      BY <1>1, <2>0, <2>2 DEF Placed
    <3> QED BY <2>2, <3>1, FS_EmptySet
  <2> QED BY <2>1, <2>2
<1> HIDE DEF Holders
<1>5. SetOf(executed) \subseteq TakenWorks
  BY <1>1 DEF Placed
<1>6. Cardinality(Positions(w, queue)) + Cardinality(Holders)
      + Cardinality(Positions(w, executed)) = Cardinality(Positions(w, pushed))
  BY <1>2, <1>3, <1>4, <1>5
<1> QED BY <1>6 DEF Holders

LEMMA OrderKept == PoolInv => TakenInOrder
<1> SUFFICES ASSUME PoolInv, NEW i \in DOMAIN pushed, NEW j \in DOMAIN pushed,
                    i < j, pushed[i] \in SetOf(queue)
             PROVE  pushed[j] \in SetOf(queue)
  BY DEF TakenInOrder
<1>1. /\ PoolType /\ Queued
      /\ queue \in Seq(Works) /\ pushed \in Seq(Works)
      /\ DOMAIN queue = 1 .. Len(queue) /\ DOMAIN pushed = 1 .. Len(pushed)
  BY DEF PoolInv, PoolType
<1>2. i \notin 1 .. Taken
  <2>1. pushed[i] \notin TakenWorks
    BY <1>1, QueueParts
  <2> QED BY <2>1 DEF TakenWorks
<1>3. j - Taken \in 1 .. Len(queue) /\ Taken + (j - Taken) = j
  BY <1>1, <1>2 DEF Taken, Queued
<1> QED BY <1>1, <1>3 DEF Queued, SetOf

\* The theorem of the run: every work that was pushed is in one place and taken
\* in its turn, no wake-up of a thread or of the loop is lost (pool/common.py:
\* push(), tick(), stop(), push_event(); base/common.py: files(), pcallback()).
THEOREM PoolSafe == PoolSpec => []PoolSafety
<1>1. PoolInv => PollKnows
  <2> SUFFICES ASSUME PoolInv, loop = "poll", events # <<>>
               PROVE  registered /\ (counter > 0 \/ \E t \in Threads : pc[t] = "notify")
    BY DEF PollKnows
  <2> QED BY DEF PoolInv, Noticed
<1>2. PoolInv => PoolSafety
  BY <1>1, PlacesOnce, OrderKept DEF PoolInv, PoolSafety
<1> QED BY <1>2, PoolInvHolds, PTL

(***************************************************************************)
(* The heap of the delayed calls.                                          *)
(***************************************************************************)

\* A set of numbers has a least one.
LEMMA LeastNumber ==
    ASSUME NEW S, S \subseteq Nat, S # {}
    PROVE  \E m \in S : \A n \in S : m <= n
<1>1. PICK R : R = OpToRel(<, Nat)
  OBVIOUS
<1>2. IsWellFoundedOn(R, Nat)
  BY <1>1, NatLessThanWellFounded
<1>3. PICK m \in S : \A n \in S : ~(<<n, m>> \in R)
  BY <1>2, WFMin
<1>4. \A n \in S : n \in Nat /\ m \in Nat /\ (n < m => <<n, m>> \in R)
  BY <1>1 DEF OpToRel
<1>5. ASSUME NEW n \in S PROVE m <= n
  <2>1. n \in Nat /\ m \in Nat
    OBVIOUS
  <2>2. ~(n < m)
    BY <1>3, <1>4
  <2> QED BY <2>1, <2>2
<1> QED BY <1>5

\* What holds of a number if it holds of all before, holds of all: induction,
\* for a set.
LEMMA Strongly ==
    ASSUME NEW S, \A n \in Nat : (\A m \in Nat : m < n => m \in S) => n \in S
    PROVE  Nat \subseteq S
<1> DEFINE Bad == {n \in Nat : n \notin S}
<1> SUFFICES ASSUME Bad # {} PROVE FALSE
  OBVIOUS
<1>1. PICK n \in Bad : \A m \in Bad : n <= m
  <2>1. Bad \subseteq Nat
    OBVIOUS
  <2> HIDE DEF Bad
  <2> QED BY <2>1, LeastNumber
<1>2. \A m \in Nat : m < n => m \notin Bad
  BY <1>1
<1> QED BY <1>1, <1>2

Places == Nat \ {0}

\* The parent of a place.
LEMMA Half ==
    ASSUME NEW p \in Places
    PROVE  /\ p \div 2 \in Nat /\ p \div 2 < p /\ (p # 1 => p \div 2 \in Places)
           /\ p = 2 * (p \div 2) \/ p = 2 * (p \div 2) + 1
  BY DEF Places

\* The children of a place have it as parent.
LEMMA Halves ==
    ASSUME NEW p \in Nat
    PROVE  (2 * p) \div 2 = p /\ (2 * p + 1) \div 2 = p
  OBVIOUS

\* Lineage is defined.
Lines(A, n) ==
    /\ A \in [1 .. n -> SUBSET Nat]
    /\ \A p \in 1 .. n : A[p] = IF p = 1 THEN {1} ELSE A[p \div 2] \cup {p}

\* There is a table of the ancestors of the first n places,
LEMMA LinesAre == \A n \in Nat : \E A : Lines(A, n)
<1> DEFINE S == {n \in Nat : \E A : Lines(A, n)}
<1>1. ASSUME NEW n \in Nat, \A m \in Nat : m < n => m \in S PROVE n \in S
  <2>1. CASE n = 0
    <3>1. PICK A \in [1 .. n -> SUBSET Nat] : A = [i \in 1 .. n |-> {}]
      OBVIOUS
    <3>2. Lines(A, n)
      BY <2>1, <3>1 DEF Lines
    <3> QED BY <3>2
  <2>2. CASE n # 0
    <3>1. n - 1 \in Nat /\ n - 1 < n /\ n \in Places
      BY <2>2 DEF Places
    <3>2. PICK A : Lines(A, n - 1)
      BY <1>1, <3>1
    <3>3. PICK x \in SUBSET Nat : x = IF n = 1 THEN {1} ELSE A[n \div 2] \cup {n}
      <4>1. n # 1 => n \div 2 \in 1 .. n - 1
        BY <3>1, Half DEF Places
      <4> QED BY <4>1, <3>2 DEF Lines
    <3>4. PICK B \in [1 .. n -> SUBSET Nat] : B = [i \in 1 .. n |-> IF i = n THEN x ELSE A[i]]
      <4>1. \A i \in 1 .. n : i # n => i \in 1 .. n - 1
        OBVIOUS
      <4> QED BY <4>1, <3>2 DEF Lines
    <3>5. ASSUME NEW p \in 1 .. n
          PROVE  B[p] = IF p = 1 THEN {1} ELSE B[p \div 2] \cup {p}
      <4>1. p \in Places /\ (p # 1 => p \div 2 \in 1 .. n /\ p \div 2 # n)
        BY Half DEF Places
      <4>2. p # n => p \in 1 .. n - 1
        OBVIOUS
      <4> QED BY <4>1, <4>2, <3>2, <3>3, <3>4 DEF Lines
    <3> QED BY <3>4, <3>5 DEF Lines
  <2> QED BY <2>1, <2>2
<1> HIDE DEF S
<1>2. Nat \subseteq S
  BY <1>1, Strongly
<1> QED BY <1>2 DEF S

\* and two such tables agree where both are defined,
LEMMA LinesAgree ==
    ASSUME NEW m \in Nat, NEW n \in Nat, NEW A, NEW B, Lines(A, m), Lines(B, n),
           NEW p \in Places, p <= m, p <= n
    PROVE  A[p] = B[p]
<1> DEFINE S == {q \in Nat : q \in Places /\ q <= m /\ q <= n => A[q] = B[q]}
<1>1. ASSUME NEW q \in Nat, \A r \in Nat : r < q => r \in S PROVE q \in S
  <2> SUFFICES ASSUME q \in Places, q <= m, q <= n PROVE A[q] = B[q]
    OBVIOUS
  <2>1. q \in 1 .. m /\ q \in 1 .. n
    BY DEF Places
  <2>2. q # 1 => A[q \div 2] = B[q \div 2]
    <3>1. q # 1 => q \div 2 \in Nat /\ q \div 2 < q /\ q \div 2 \in Places
      BY Half
    <3>2. q # 1 => q \div 2 <= m /\ q \div 2 <= n
      BY <3>1, <2>1
    <3> QED BY <3>1, <3>2, <1>1
  <2> QED BY <2>1, <2>2 DEF Lines
<1> HIDE DEF S
<1>2. Nat \subseteq S
  BY <1>1, Strongly
<1> QED BY <1>2 DEF S, Places

\* so that the recursion of Lineage has the value it asks for.
LEMMA LineageIs ==
    /\ Lineage \in [Places -> SUBSET Nat]
    /\ \A p \in Places : Lineage[p] = IF p = 1 THEN {1} ELSE Lineage[p \div 2] \cup {p}
<1> DEFINE Of(n) == CHOOSE A : Lines(A, n)
           L == [p \in Places |-> Of(p)[p]]
           Held(f) == f = [p \in Places |-> IF p = 1 THEN {1} ELSE f[p \div 2] \cup {p}]
<1>1. \A n \in Nat : Lines(Of(n), n)
  BY LinesAre
<1> HIDE DEF Of
<1>2. ASSUME NEW p \in Places
      PROVE  /\ L[p] \in SUBSET Nat
             /\ L[p] = IF p = 1 THEN {1} ELSE L[p \div 2] \cup {p}
  <2>1. p \in Nat /\ p \in 1 .. p
    BY DEF Places
  <2>2. Lines(Of(p), p)
    BY <1>1, <2>1
  <2>3. p # 1 => L[p \div 2] = Of(p)[p \div 2]
    <3>1. p # 1 => /\ p \div 2 \in Nat /\ p \div 2 \in Places
                   /\ p \div 2 <= p /\ p \div 2 <= p \div 2
      BY Half
    <3>2. p # 1 => Lines(Of(p \div 2), p \div 2)
      BY <3>1, <1>1
    <3> QED BY <3>1, <3>2, <2>1, <2>2, LinesAgree
  <2> QED BY <2>1, <2>2, <2>3 DEF Lines
<1>3. Held(L)
  BY <1>2
<1>4. Held(Lineage)
  <2>1. Lineage = CHOOSE f : Held(f)
    BY DEF Lineage, Places
  <2> HIDE DEF Held, L
  <2> QED BY <1>3, <2>1
<1>5. \A p \in Places : Lineage[p] = IF p = 1 THEN {1} ELSE Lineage[p \div 2] \cup {p}
  BY <1>4
<1>6. Lineage = [p \in Places |-> Lineage[p]]
  BY <1>4
<1> DEFINE S == {p \in Nat : p \in Places => Lineage[p] \in SUBSET Nat}
<1>7. ASSUME NEW q \in Nat, \A r \in Nat : r < q => r \in S PROVE q \in S
  <2>1. CASE q \in Places
    <3>1. q # 1 => q \div 2 \in Nat /\ q \div 2 < q /\ q \div 2 \in Places
      BY <2>1, Half
    <3>2. q # 1 => Lineage[q \div 2] \in SUBSET Nat
      BY <3>1, <1>7
    <3>3. CASE q = 1
      <4>1. Lineage[q] = {1}
        BY <2>1, <3>3, <1>5
      <4> QED BY <4>1
    <3>4. CASE q # 1
      <4>1. Lineage[q] = Lineage[q \div 2] \cup {q}
        BY <2>1, <3>4, <1>5
      <4> QED BY <4>1, <3>2, <3>4
    <3> QED BY <3>3, <3>4
  <2> QED BY <2>1
<1> HIDE DEF S
<1>8. Nat \subseteq S
  BY <1>7, Strongly
<1> QED BY <1>5, <1>6, <1>8 DEF S, Places

\* The places above one.
LEMMA LineageHolds ==
    ASSUME NEW p \in Places
    PROVE  /\ p \in Lineage[p] /\ 1 \in Lineage[p] /\ Lineage[p] \subseteq 1 .. p
           /\ \A q \in Lineage[p] : q # 1 => q \div 2 \in Lineage[p]
           /\ \A q \in Lineage[p] : q # p => \E c \in Lineage[p] : c # 1 /\ c \div 2 = q
           /\ \A i, j \in Lineage[p] : i < j => i <= j \div 2
<1> DEFINE Fits(r) ==
              /\ r \in Lineage[r] /\ 1 \in Lineage[r] /\ Lineage[r] \subseteq 1 .. r
              /\ \A q \in Lineage[r] : q # 1 => q \div 2 \in Lineage[r]
              /\ \A q \in Lineage[r] : q # r => \E c \in Lineage[r] : c # 1 /\ c \div 2 = q
              /\ \A i, j \in Lineage[r] : i < j => i <= j \div 2
           S == {r \in Nat : r \in Places => Fits(r)}
<1>1. ASSUME NEW r \in Nat, \A m \in Nat : m < r => m \in S PROVE r \in S
  <2> SUFFICES ASSUME r \in Places PROVE Fits(r)
    OBVIOUS
  <2>1. CASE r = 1
    <3>1. Lineage[r] = {1}
      BY <2>1, LineageIs
    <3> QED BY <2>1, <3>1
  <2>2. CASE r # 1
    <3>1. Lineage[r] = Lineage[r \div 2] \cup {r}
      BY <2>2, LineageIs
    <3>2. PICK h \in Nat : h = r \div 2 /\ h < r /\ h \in Places /\ h >= 1
      BY <2>2, Half DEF Places
    <3>3. Fits(h)
      <4> HIDE DEF Fits
      <4> QED BY <3>2, <1>1
    <3>4. r \in Nat /\ Lineage[h] \subseteq 1 .. h /\ 1 .. h \subseteq 1 .. r /\ r \in 1 .. r
      BY <3>2, <3>3
    <3>5. r \in Lineage[r] /\ 1 \in Lineage[r] /\ Lineage[r] \subseteq 1 .. r
      BY <3>1, <3>2, <3>3, <3>4
    <3>6. ASSUME NEW q \in Lineage[r], q # 1 PROVE q \div 2 \in Lineage[r]
      BY <3>1, <3>2, <3>3, <3>6
    <3>7. ASSUME NEW q \in Lineage[r], q # r
          PROVE  \E c \in Lineage[r] : c # 1 /\ c \div 2 = q
      <4>1. q \in Lineage[h]
        BY <3>1, <3>2, <3>7
      <4>2. CASE q = h
        BY <4>2, <3>5, <3>2, <2>2
      <4>3. CASE q # h
        BY <4>1, <4>3, <3>1, <3>2, <3>3
      <4> QED BY <4>2, <4>3
    <3>8. ASSUME NEW i \in Lineage[r], NEW j \in Lineage[r], i < j PROVE i <= j \div 2
      <4>1. i \in 1 .. r /\ j \in 1 .. r
        BY <3>5
      <4>2. i \in Lineage[h]
        BY <3>1, <3>2, <3>8, <4>1
      <4>3. CASE j = r
        BY <4>2, <4>3, <3>2, <3>4
      <4>4. CASE j # r
        <5>1. j \in Lineage[h]
          BY <4>4, <3>1, <3>2
        <5> QED BY <5>1, <4>2, <3>3, <3>8
      <4> QED BY <4>3, <4>4
    <3> QED BY <3>5, <3>6, <3>7, <3>8
  <2> QED BY <2>1, <2>2
<1> HIDE DEF S
<1>2. Nat \subseteq S
  BY <1>1, Strongly
<1>3. p \in S
  BY <1>2 DEF Places
<1> QED BY <1>3 DEF S

Timed(S) == \A x \in S : x.target \in Int

\* What P, the places an element goes through up to q, is.
Climb(P, h, pos, q) ==
    /\ P \subseteq 1 .. pos /\ pos \in P /\ q \in P
    /\ \A i \in P : i \div 2 \in P <=> i # q
    /\ \A i, j \in P : i # j => i \div 2 # j \div 2
    /\ \A i \in P : i # pos => /\ Less(h[pos], h[i])
                               /\ \E c \in P : c # q /\ c \div 2 = i
    /\ q = 1 \/ ~Less(h[pos], h[q \div 2])

\* The places an element passes as it rises are a climb from its own.
LEMMA PassedIs ==
    ASSUME NEW S, Timed(S), NEW h \in Seq(S), NEW pos \in 1 .. Len(h)
    PROVE  \E q \in 1 .. pos : Climb(Passed(h, pos), h, pos, q)
<1> DEFINE L == Lineage[pos]
           P == Passed(h, pos)
<1>1. pos \in Places /\ pos \in Nat
  BY DEF Places
<1>2. /\ pos \in L /\ 1 \in L /\ L \subseteq 1 .. pos
      /\ \A q \in L : q # 1 => q \div 2 \in L
      /\ \A q \in L : q # pos => \E c \in L : c # 1 /\ c \div 2 = q
      /\ \A i, j \in L : i < j => i <= j \div 2
  BY <1>1, LineageHolds
<1>3. \A p : p \in P <=> p \in L /\ \A q \in L : p <= q /\ q < pos => Less(h[pos], h[q])
  BY DEF Passed
<1> HIDE DEF L, P
<1>4. P \subseteq L /\ P \subseteq 1 .. pos /\ pos \in P
  <2>1. P \subseteq L
    BY <1>3
  <2>2. \A q \in L : ~(pos <= q /\ q < pos)
    BY <1>1, <1>2
  <2>3. pos \in P
    BY <1>2, <1>3, <2>2
  <2> QED BY <2>1, <2>3, <1>2
<1>5. ASSUME NEW p \in P, NEW q \in L, p <= q PROVE q \in P
  BY <1>2, <1>3, <1>4, <1>5
<1>6. PICK q \in P : \A i \in P : q <= i
  <2>1. P \subseteq Nat /\ P # {}
    BY <1>4
  <2> QED BY <2>1, LeastNumber
<1>7. q \in 1 .. pos
  BY <1>4
<1>8. \A i \in L : /\ i \in Nat /\ i >= 1 /\ i \div 2 \in Nat /\ i \div 2 < i
                   /\ i = 2 * (i \div 2) \/ i = 2 * (i \div 2) + 1
  BY <1>2, Half DEF Places
<1>9. ASSUME NEW i \in P PROVE i \div 2 \in P <=> i # q
  <2>1. CASE i = q
    BY <2>1, <1>4, <1>6, <1>8
  <2>2. CASE i # q
    <3>1. q < i /\ i # 1
      BY <2>2, <1>4, <1>6, <1>8
    <3>2. q <= i \div 2 /\ i \div 2 \in L
      BY <3>1, <1>2, <1>4
    <3> QED BY <3>2, <2>2, <1>5
  <2> QED BY <2>1, <2>2
<1>10. ASSUME NEW i \in P, NEW j \in P, i # j PROVE i \div 2 # j \div 2
  <2>1. i \in L /\ j \in L
    BY <1>4
  <2>2. \/ i < j /\ i <= j \div 2
        \/ j < i /\ j <= i \div 2
    BY <2>1, <1>2, <1>8, <1>10
  <2> QED BY <2>1, <2>2, <1>8
<1>11. ASSUME NEW i \in P, i # pos
       PROVE  Less(h[pos], h[i]) /\ \E c \in P : c # q /\ c \div 2 = i
  <2>1. i \in L /\ i < pos
    BY <1>4, <1>11
  <2>2. Less(h[pos], h[i])
    BY <2>1, <1>3, <1>8
  <2>3. PICK c \in L : c # 1 /\ c \div 2 = i
    BY <1>2, <1>11, <2>1
  <2>4. i <= c
    BY <2>1, <2>3, <1>8
  <2>5. c \in P
    BY <2>3, <2>4, <1>5
  <2>6. c # q
    BY <2>3, <2>5, <1>9
  <2> QED BY <2>2, <2>3, <2>5, <2>6
<1>12. ASSUME q # 1, Less(h[pos], h[q \div 2]) PROVE FALSE
  <2>1. q \in L /\ q \div 2 \in L /\ q \div 2 < q
    BY <1>2, <1>4, <1>8, <1>12
  <2>2. ASSUME NEW r \in L, q \div 2 <= r, r < pos PROVE Less(h[pos], h[r])
    <3>1. CASE r = q \div 2
      BY <3>1, <1>12
    <3>2. CASE r # q \div 2
      <4>1. q <= r
        BY <3>2, <2>1, <2>2, <1>2, <1>8
      <4>2. r \in P
        BY <4>1, <1>5
      <4> QED BY <4>2, <2>2, <1>11, <1>8
    <3> QED BY <3>1, <3>2
  <2>3. q \div 2 \in P
    BY <2>1, <2>2, <1>3
  <2> QED BY <2>3, <1>9
<1> QED BY <1>4, <1>7, <1>9, <1>10, <1>11, <1>12 DEF Climb, P

\* Two lists with the same elements, each as often.
Rearranging(s, r, h, n) ==
    /\ s \in [1 .. n -> 1 .. n]
    /\ \A i, j \in 1 .. n : s[i] = s[j] => i = j
    /\ \A j \in 1 .. n : \E i \in 1 .. n : s[i] = j
    /\ \A i \in 1 .. n : r[i] = h[s[i]]
Rearranged(r, h) ==
    /\ r \in Seq(Elements(h)) /\ Len(r) = Len(h)
    /\ \E s : Rearranging(s, r, h, Len(h))

\* What Rise puts at each place.
LEMMA RiseIs ==
    ASSUME NEW S, NEW h \in Seq(S), NEW pos \in 1 .. Len(h)
    PROVE  /\ Rise(h, pos) = [i \in 1 .. Len(h) |->
                  IF i \notin Passed(h, pos) THEN h[i]
                  ELSE IF i \div 2 \in Passed(h, pos) THEN h[i \div 2] ELSE h[pos]]
           /\ Rise(h, pos) \in Seq(S) /\ Len(Rise(h, pos)) = Len(h)
<1>1. DOMAIN h = 1 .. Len(h) /\ Len(h) \in Nat
  OBVIOUS
<1>2. Rise(h, pos) = [i \in 1 .. Len(h) |->
                  IF i \notin Passed(h, pos) THEN h[i]
                  ELSE IF i \div 2 \in Passed(h, pos) THEN h[i \div 2] ELSE h[pos]]
  BY <1>1 DEF Rise
<1>3. Passed(h, pos) \subseteq 1 .. Len(h)
  <2>1. pos \in Places /\ Lineage[pos] \subseteq 1 .. pos
    BY LineageHolds DEF Places
  <2> QED BY <2>1 DEF Passed
<1>4. Rise(h, pos) \in [1 .. Len(h) -> S]
  <2>1. \A i \in 1 .. Len(h) : h[i] \in S
    OBVIOUS
  <2>2. ASSUME NEW i \in 1 .. Len(h)
        PROVE  (IF i \notin Passed(h, pos) THEN h[i]
                ELSE IF i \div 2 \in Passed(h, pos) THEN h[i \div 2] ELSE h[pos]) \in S
    BY <2>1, <1>3
  <2> QED BY <1>2, <2>2
<1>5. PICK n \in Nat : n = Len(h)
  BY <1>1
<1>6. PICK f \in [1 .. n -> S] : f = Rise(h, pos)
  BY <1>4, <1>5
<1>7. f \in Seq(S) /\ Len(f) = n
  BY <1>5
<1> QED BY <1>2, <1>5, <1>6, <1>7

\* Nothing is lost and nothing doubled as an element rises.
LEMMA RiseRearranges ==
    ASSUME NEW S, Timed(S), NEW h \in Seq(S), NEW pos \in 1 .. Len(h)
    PROVE  Rearranged(Rise(h, pos), h)
<1>1. PICK r \in Seq(S) : /\ r = Rise(h, pos) /\ Len(r) = Len(h)
  BY RiseIs
<1>2. PICK P, q : P = Passed(h, pos) /\ q \in 1 .. pos /\ Climb(P, h, pos, q)
  BY PassedIs
<1>3. \A i \in 1 .. Len(h) : r[i] = IF i \notin P THEN h[i]
                                    ELSE IF i \div 2 \in P THEN h[i \div 2] ELSE h[pos]
  <2>1. r = [i \in 1 .. Len(h) |->
                  IF i \notin Passed(h, pos) THEN h[i]
                  ELSE IF i \div 2 \in Passed(h, pos) THEN h[i \div 2] ELSE h[pos]]
    BY <1>1, RiseIs
  <2> QED BY <2>1, <1>2
<1>4. Len(h) \in Nat /\ P \subseteq 1 .. Len(h)
  BY <1>2 DEF Climb
<1>5. PICK s \in [1 .. Len(h) -> 1 .. Len(h)] :
          \A i \in 1 .. Len(h) : s[i] = IF i \notin P THEN i
                                        ELSE IF i \div 2 \in P THEN i \div 2 ELSE pos
  <2>1. PICK s : s = [i \in 1 .. Len(h) |-> IF i \notin P THEN i
                                        ELSE IF i \div 2 \in P THEN i \div 2 ELSE pos]
    OBVIOUS
  <2>2. s \in [1 .. Len(h) -> 1 .. Len(h)]
    BY <2>1, <1>4
  <2> QED BY <2>1, <2>2
<1>6. ASSUME NEW i \in 1 .. Len(h), NEW j \in 1 .. Len(h), s[i] = s[j] PROVE i = j
  <2>1. ASSUME NEW k \in P PROVE k \div 2 # pos
    <3>1. k \in Places /\ k <= pos /\ k \in Nat
      BY <1>2 DEF Climb, Places
    <3> QED BY <3>1, Half
  <2>2. CASE i \in P /\ j \in P
    <3>1. \/ i \div 2 \in P /\ s[i] = i \div 2
          \/ i = q /\ s[i] = pos
      BY <2>2, <1>2, <1>5 DEF Climb
    <3>2. \/ j \div 2 \in P /\ s[j] = j \div 2
          \/ j = q /\ s[j] = pos
      BY <2>2, <1>2, <1>5 DEF Climb
    <3>3. i # j => i \div 2 # j \div 2
      BY <2>2, <1>2 DEF Climb
    <3> QED BY <3>1, <3>2, <3>3, <2>1, <2>2, <1>6
  <2>3. CASE i \notin P \/ j \notin P
    <3>1. \A k \in P : k \in 1 .. Len(h) /\ s[k] \in P
      BY <1>2, <1>4, <1>5 DEF Climb
    <3>2. \A k \in 1 .. Len(h) : k \notin P => s[k] = k
      BY <1>5
    <3> QED BY <3>1, <3>2, <2>3, <1>6
  <2> QED BY <2>2, <2>3
<1>7. ASSUME NEW j \in 1 .. Len(h) PROVE \E i \in 1 .. Len(h) : s[i] = j
  <2>1. CASE j \notin P
    BY <2>1, <1>5
  <2>2. CASE j = pos
    <3>1. q \in 1 .. Len(h) /\ s[q] = pos
      BY <1>2, <1>4, <1>5 DEF Climb
    <3> QED BY <2>2, <3>1
  <2>3. CASE j \in P /\ j # pos
    <3>1. PICK c \in P : c # q /\ c \div 2 = j
      BY <2>3, <1>2 DEF Climb
    <3>2. c \in 1 .. Len(h) /\ s[c] = j
      BY <2>3, <3>1, <1>4, <1>5
    <3> QED BY <3>2
  <2> QED BY <2>1, <2>2, <2>3
<1>8. \A i \in 1 .. Len(h) : r[i] = h[s[i]]
  BY <1>3, <1>4, <1>5
<1>9. r \in Seq(Elements(h))
  <2>1. r = [i \in 1 .. Len(h) |-> r[i]] /\ DOMAIN h = 1 .. Len(h)
    BY <1>1
  <2>2. \A i \in 1 .. Len(h) : r[i] \in Elements(h)
    BY <2>1, <1>5, <1>8 DEF Elements
  <2>3. r \in [1 .. Len(h) -> Elements(h)]
    BY <2>1, <2>2
  <2> QED BY <2>3, <1>4
<1>10. Rearranging(s, r, h, Len(h))
  BY <1>5, <1>6, <1>7, <1>8 DEF Rearranging
<1> QED BY <1>1, <1>9, <1>10 DEF Rearranged

\* The order of a heap, and one in which an element may still have to rise.
IsHeap(h) == \A i \in 2 .. Len(h) : ~Less(h[i], h[i \div 2])
IsHeapBut(h, pos) == \A i \in 2 .. Len(h) : i # pos => ~Less(h[i], h[i \div 2])

\* An element without children that rises leaves a heap.
LEMMA RiseOrders ==
    ASSUME NEW S, Timed(S), NEW h \in Seq(S), NEW pos \in 1 .. Len(h),
           2 * pos > Len(h), IsHeapBut(h, pos)
    PROVE  IsHeap(Rise(h, pos))
<1>1. PICK r \in Seq(S) : /\ r = Rise(h, pos) /\ Len(r) = Len(h)
  BY RiseIs
<1>2. PICK P, q : P = Passed(h, pos) /\ q \in 1 .. pos /\ Climb(P, h, pos, q)
  BY PassedIs
<1>3. \A i \in 1 .. Len(h) : r[i] = IF i \notin P THEN h[i]
                                    ELSE IF i \div 2 \in P THEN h[i \div 2] ELSE h[pos]
  <2>1. r = [i \in 1 .. Len(h) |->
                  IF i \notin Passed(h, pos) THEN h[i]
                  ELSE IF i \div 2 \in Passed(h, pos) THEN h[i \div 2] ELSE h[pos]]
    BY <1>1, RiseIs
  <2> QED BY <2>1, <1>2
<1>4. Len(h) \in Nat /\ P \subseteq 1 .. Len(h)
  BY <1>2 DEF Climb
<1>5. \A i \in 1 .. Len(h) : h[i] \in S /\ h[i].target \in Int
  <2>1. \A i \in 1 .. Len(h) : h[i] \in S
    OBVIOUS
  <2> QED BY <2>1 DEF Timed
<1>6. ASSUME NEW i \in 2 .. Len(h) PROVE ~Less(r[i], r[i \div 2])
  <2>1. PICK p \in 1 .. Len(h) : p = i \div 2 /\ p < i /\ 2 * p <= i
    <3>1. i \in Places /\ i # 1
      BY DEF Places
    <3> QED BY <3>1, Half DEF Places
  <2>2. i \in 1 .. Len(h) /\ p # pos
    BY <2>1
  <2>3. p \in P => /\ Less(h[pos], h[p])
                   /\ p # q => p \div 2 \in P
    BY <2>2, <1>2 DEF Climb
  <2>4. r[p] = IF p \notin P THEN h[p] ELSE IF p \div 2 \in P THEN h[p \div 2] ELSE h[pos]
    BY <1>3
  <2>5. p \in P /\ p \div 2 \in P => ~Less(h[p], h[p \div 2])
    <3>1. p # 1 => ~Less(h[p], h[p \div 2])
      BY <2>2, <1>4 DEF IsHeapBut
    <3>2. 1 \div 2 = 0
      OBVIOUS
    <3> QED BY <3>1, <3>2, <1>4
  <2>6. CASE i \in P /\ p \in P
    <3>1. r[i] = h[p]
      BY <2>1, <2>2, <2>6, <1>3
    <3>2. CASE p \div 2 \in P
      BY <2>1, <3>1, <3>2, <2>4, <2>5, <2>6
    <3>3. CASE p \div 2 \notin P
      BY <2>1, <2>2, <3>1, <3>3, <2>3, <2>4, <2>6, <1>2, <1>5 DEF Less
    <3> QED BY <2>1, <3>2, <3>3
  <2>7. CASE i \in P /\ p \notin P
    <3>1. r[i] = h[pos] /\ r[p] = h[p]
      BY <2>1, <2>2, <2>4, <2>7, <1>3
    <3>2. i = q
      BY <2>1, <2>7, <1>2 DEF Climb
    <3> QED BY <2>1, <3>1, <3>2, <1>2 DEF Climb
  <2>8. CASE i \notin P
    <3>1. r[i] = h[i] /\ i # pos
      BY <2>2, <2>8, <1>2, <1>3 DEF Climb
    <3>2. ~Less(h[i], h[p])
      BY <2>1, <3>1 DEF IsHeapBut
    <3>3. CASE p \notin P
      BY <2>1, <2>4, <3>1, <3>2, <3>3
    <3>4. CASE p \in P /\ p \div 2 \in P
      <4>1. r[p] = h[p \div 2] /\ p \div 2 \in 1 .. Len(h)
        BY <2>4, <3>4, <1>4
      <4> QED BY <2>1, <2>2, <2>5, <3>1, <3>2, <3>4, <4>1, <1>5 DEF Less
    <3>5. CASE p \in P /\ p \div 2 \notin P
      <4>1. r[p] = h[pos]
        BY <2>4, <3>5
      <4> QED BY <2>1, <2>2, <2>3, <3>1, <3>2, <3>5, <4>1, <1>5 DEF Less
    <3> QED BY <3>3, <3>4, <3>5
  <2> QED BY <2>6, <2>7, <2>8
<1> QED BY <1>1, <1>6 DEF IsHeap

\* The first of a heap is one of the earliest.
LEMMA TopIsFirst ==
    ASSUME NEW S, Timed(S), NEW h \in Seq(S), IsHeap(h)
    PROVE  \A i \in 1 .. Len(h) : ~Less(h[i], h[1])
<1> DEFINE Held == {n \in Nat : n \in 1 .. Len(h) => ~Less(h[n], h[1])}
<1>1. \A i \in 1 .. Len(h) : h[i] \in S /\ h[i].target \in Int
  <2>1. \A i \in 1 .. Len(h) : h[i] \in S
    OBVIOUS
  <2> QED BY <2>1 DEF Timed
<1>2. ASSUME NEW n \in Nat, \A m \in Nat : m < n => m \in Held PROVE n \in Held
  <2> SUFFICES ASSUME n \in 1 .. Len(h) PROVE ~Less(h[n], h[1])
    OBVIOUS
  <2>1. CASE n = 1
    BY <2>1, <1>1 DEF Less
  <2>2. CASE n # 1
    <3>1. PICK p \in 1 .. Len(h) : p = n \div 2 /\ p < n
      <4>1. n \in Places
        BY DEF Places
      <4> QED BY <2>2, <4>1, Half DEF Places
    <3>2. ~Less(h[n], h[p])
      BY <2>2, <3>1 DEF IsHeap
    <3>3. ~Less(h[p], h[1])
      BY <3>1, <1>2
    <3>4. 1 \in 1 .. Len(h)
      BY <3>1
    <3> QED BY <3>1, <3>2, <3>3, <3>4, <1>1 DEF Less
  <2> QED BY <2>1, <2>2
<1> HIDE DEF Held
<1>3. Nat \subseteq Held
  BY <1>2, Strongly
<1> QED BY <1>3 DEF Held

\* A list of calls without their identifiers.
Mirror(h) == [i \in DOMAIN h |-> Plain(h[i])]
\* The mirror has the targets of the list, place by place.
LEMMA MirrorIs ==
    ASSUME NEW S, NEW h \in Seq(S)
    PROVE  /\ DOMAIN Mirror(h) = 1 .. Len(h) /\ Len(Mirror(h)) = Len(h)
           /\ \A i \in 1 .. Len(h) : /\ Mirror(h)[i] = Plain(h[i])
                                     /\ Mirror(h)[i].target = h[i].target
<1>1. PICK n \in Nat : n = Len(h)
  OBVIOUS
<1>2. Mirror(h) = [i \in 1 .. n |-> Plain(h[i])]
  BY <1>1 DEF Mirror
<1>3. DOMAIN Mirror(h) = 1 .. n /\ Len(Mirror(h)) = n
  BY <1>2
<1>4. \A i \in 1 .. n : Mirror(h)[i] = Plain(h[i])
  BY <1>2
<1> QED BY <1>1, <1>3, <1>4 DEF Plain

\* The list and its mirror rise alike.
LEMMA RiseMirrors ==
    ASSUME NEW S, NEW h \in Seq(S), NEW pos \in 1 .. Len(h)
    PROVE  Rise(Mirror(h), pos) = Mirror(Rise(h, pos))
<1>1. PICK o : o = Mirror(h)
  OBVIOUS
<1>2. /\ DOMAIN o = 1 .. Len(h) /\ DOMAIN h = 1 .. Len(h)
      /\ \A i \in 1 .. Len(h) : o[i] = Plain(h[i]) /\ o[i].target = h[i].target
  BY <1>1, MirrorIs
<1>3. Lineage[pos] \subseteq 1 .. Len(h)
  <2>1. pos \in Places /\ Lineage[pos] \subseteq 1 .. pos
    BY LineageHolds DEF Places
  <2> QED BY <2>1
<1>4. Passed(o, pos) = Passed(h, pos)
  <2>1. \A q \in Lineage[pos] : Less(o[pos], o[q]) <=> Less(h[pos], h[q])
    BY <1>2, <1>3 DEF Less
  <2> QED BY <2>1 DEF Passed
<1>5. PICK P : P = Passed(h, pos) /\ P \subseteq 1 .. Len(h)
  BY <1>3 DEF Passed
<1>6. Rise(o, pos) = [i \in 1 .. Len(h) |-> IF i \notin P THEN o[i]
                        ELSE IF i \div 2 \in P THEN o[i \div 2] ELSE o[pos]]
  BY <1>2, <1>4, <1>5 DEF Rise
<1>7. PICK r : r = Rise(h, pos) /\ DOMAIN r = 1 .. Len(h)
               /\ \A i \in 1 .. Len(h) : r[i] = IF i \notin P THEN h[i]
                        ELSE IF i \div 2 \in P THEN h[i \div 2] ELSE h[pos]
  <2>1. Rise(h, pos) = [i \in 1 .. Len(h) |-> IF i \notin P THEN h[i]
                        ELSE IF i \div 2 \in P THEN h[i \div 2] ELSE h[pos]]
    BY <1>2, <1>5 DEF Rise
  <2> QED BY <2>1
<1>8. ASSUME NEW i \in 1 .. Len(h)
      PROVE  (IF i \notin P THEN o[i] ELSE IF i \div 2 \in P THEN o[i \div 2] ELSE o[pos])
                 = Plain(r[i])
  BY <1>2, <1>5, <1>7
<1>9. Mirror(r) = [i \in 1 .. Len(h) |-> Plain(r[i])]
  BY <1>7 DEF Mirror
<1> QED BY <1>1, <1>6, <1>7, <1>8, <1>9

\* The child that is chosen is the lesser one.
LEMMA ChildIs ==
    ASSUME NEW S, Timed(S), NEW h \in Seq(S), NEW p \in Places, 2 * p <= Len(h)
    PROVE  /\ Child(h, p) \in 2 .. Len(h) /\ Child(h, p) \div 2 = p
           /\ Child(h, p) \in Places /\ Child(h, p) # 1 /\ 2 * p <= Child(h, p)
           /\ \A i \in 2 .. Len(h) : i \div 2 = p => ~Less(h[i], h[Child(h, p)])
<1>1. p \in Nat /\ p >= 1 /\ Len(h) \in Nat
  BY DEF Places
<1>2. \A i \in 1 .. Len(h) : h[i] \in S /\ h[i].target \in Int
  <2>1. \A i \in 1 .. Len(h) : h[i] \in S
    OBVIOUS
  <2> QED BY <2>1 DEF Timed
<1>3. PICK c : c = Child(h, p) /\ c = IF 2 * p < Len(h) /\ ~Less(h[2 * p], h[2 * p + 1])
                                      THEN 2 * p + 1 ELSE 2 * p
  BY DEF Child
<1>4. c \in 2 .. Len(h) /\ (c = 2 * p \/ c = 2 * p + 1)
  BY <1>1, <1>3
<1>5. c \div 2 = p
  BY <1>1, <1>4, Halves
<1>6. ASSUME NEW i \in 2 .. Len(h), i \div 2 = p PROVE ~Less(h[i], h[c])
  <2>1. i = 2 * p \/ i = 2 * p + 1
    BY <1>6, Half DEF Places
  <2>2. i \in 1 .. Len(h) /\ 2 * p \in 1 .. Len(h) /\ c \in 1 .. Len(h)
    BY <1>1, <1>4
  <2>3. CASE i = c
    BY <2>2, <2>3, <1>2 DEF Less
  <2>4. CASE i # c
    <3>1. 2 * p < Len(h)
      BY <2>1, <2>4, <1>1, <1>3, <2>2
    <3>2. 2 * p + 1 \in 1 .. Len(h)
      BY <3>1, <1>1
    <3> QED BY <2>1, <2>2, <2>4, <3>1, <3>2, <1>2, <1>3 DEF Less
  <2> QED BY <2>3, <2>4
<1> QED BY <1>1, <1>3, <1>4, <1>5, <1>6 DEF Places

\* What D, the places an element sinks through to a leaf, is.
Descent(D, h, leaf) ==
    /\ D \subseteq 1 .. Len(h) /\ 1 \in D /\ leaf \in D
    /\ \A p \in D : p # 1 => p \div 2 \in D /\ p = Child(h, p \div 2)
    /\ \A p \in D : 2 * p <= Len(h) => Child(h, p) \in D
    /\ \A p \in D : 2 * p > Len(h) <=> p = leaf

\* The way of the smaller children ends in one leaf.
LEMMA WayIs ==
    ASSUME NEW S, Timed(S), NEW h \in Seq(S), h # <<>>
    PROVE  Descent(Way(h), h, Leaf(h))
<1> DEFINE D == Way(h)
<1>1. Len(h) \in Nat /\ Len(h) >= 1 /\ DOMAIN h = 1 .. Len(h) /\ 1 \in 1 .. Len(h)
  OBVIOUS
<1>2. \A p : p \in D <=> /\ p \in 1 .. Len(h)
                         /\ \A q \in Lineage[p] : q = 1 \/ q = Child(h, q \div 2)
  BY <1>1 DEF Way
<1>3. D \subseteq 1 .. Len(h) /\ \A p \in D : p \in Places /\ p \in Nat /\ p >= 1
  BY <1>2 DEF Places
<1>4. 1 \in D
  <2>1. Lineage[1] = {1}
    BY LineageIs DEF Places
  <2> QED BY <2>1, <1>1, <1>2
<1>5. ASSUME NEW p \in D, p # 1 PROVE p \div 2 \in D /\ p = Child(h, p \div 2)
  <2>1. /\ p \in Lineage[p] /\ Lineage[p] = Lineage[p \div 2] \cup {p}
        /\ p \div 2 \in 1 .. Len(h)
    <3>1. p \div 2 \in Places /\ p \div 2 < p
      BY <1>3, <1>5, Half
    <3>2. p \in Lineage[p] /\ Lineage[p] = Lineage[p \div 2] \cup {p}
      BY <1>3, <1>5, LineageHolds, LineageIs
    <3> QED BY <3>1, <3>2, <1>1, <1>3 DEF Places
  <2> QED BY <2>1, <1>2, <1>5
<1>6. ASSUME NEW p \in D, 2 * p <= Len(h) PROVE Child(h, p) \in D
  <2>1. PICK c : /\ c = Child(h, p) /\ c \in 2 .. Len(h) /\ c \div 2 = p
                 /\ c \in Places /\ c # 1
    BY <1>3, <1>6, ChildIs
  <2>2. Lineage[c] = Lineage[p] \cup {c}
    BY <2>1, LineageIs
  <2> QED BY <2>1, <2>2, <1>1, <1>2
<1> HIDE DEF D
<1>7. \E p \in D : 2 * p > Len(h)
  <2> SUFFICES ASSUME \A p \in D : ~(2 * p > Len(h)) PROVE FALSE
    OBVIOUS
  <2> DEFINE Reached == {Len(h) - p : p \in D}
  <2>1. PICK m \in Reached : \A n \in Reached : m <= n
    <3>1. Reached \subseteq Nat /\ Reached # {}
      <4>1. ASSUME NEW p \in D PROVE Len(h) - p \in Nat
        <5>1. p \in 1 .. Len(h)
          BY <1>3
        <5> QED BY <5>1, <1>1
      <4>2. Len(h) - 1 \in Reached
        BY <1>4
      <4> QED BY <4>1, <4>2
    <3> HIDE DEF Reached
    <3> QED BY <3>1, LeastNumber
  <2>2. PICK p \in D : m = Len(h) - p
    OBVIOUS
  <2>3. PICK c : c = Child(h, p) /\ c \in D /\ 2 * p <= c
    <3>1. 2 * p <= Len(h) /\ p \in Places
      BY <1>1, <1>3
    <3> QED BY <3>1, <1>6, ChildIs
  <2>4. m <= Len(h) - c
    BY <2>1, <2>3
  <2> QED BY <2>2, <2>3, <2>4, <1>1, <1>3
<1>8. ASSUME NEW a \in D, NEW b \in D, a < b PROVE 2 * a <= Len(h) /\ Child(h, a) <= b
  <2> DEFINE Held == {n \in Nat : n \in D =>
                          \A k \in D : k < n => 2 * k <= Len(h) /\ Child(h, k) <= n}
  <2>1. ASSUME NEW n \in Nat, \A m \in Nat : m < n => m \in Held PROVE n \in Held
    <3> SUFFICES ASSUME n \in D, NEW k \in D, k < n
                 PROVE  2 * k <= Len(h) /\ Child(h, k) <= n
      OBVIOUS
    <3>1. k \in Nat /\ k >= 1 /\ n <= Len(h) /\ Len(h) \in Nat /\ n # 1
      BY <1>1, <1>3
    <3>2. PICK p \in D : /\ p = n \div 2 /\ n = Child(h, p) /\ p \in Nat /\ p < n
                         /\ 2 * p <= n
      BY <1>3, <1>5, <3>1, Half
    <3>3. CASE k = p
      <4>1. Child(h, k) = n /\ 2 * k <= n
        BY <3>2, <3>3
      <4> QED BY <4>1, <3>1
    <3>4. CASE k < p
      <4>1. 2 * k <= Len(h) /\ Child(h, k) <= p
        BY <2>1, <3>2, <3>4
      <4>2. Child(h, k) \in Nat
        BY <1>3, <1>6, <4>1
      <4> QED BY <4>1, <4>2, <3>1, <3>2
    <3>5. CASE p < k
      <4>1. Child(h, p) <= k
        BY <2>1, <3>1, <3>2, <3>5
      <4> QED BY <4>1, <3>1, <3>2
    <3> QED BY <3>1, <3>2, <3>3, <3>4, <3>5
  <2> HIDE DEF Held
  <2>2. Nat \subseteq Held
    BY <2>1, Strongly
  <2>3. b \in Nat
    BY <1>3
  <2> QED BY <2>2, <2>3, <1>8 DEF Held
<1>9. Leaf(h) \in D /\ 2 * Leaf(h) > Len(h)
  BY <1>7 DEF Leaf, D
<1>10. ASSUME NEW p \in D, 2 * p > Len(h) PROVE p = Leaf(h)
  <2>1. PICK l \in D : l = Leaf(h) /\ 2 * l > Len(h)
    BY <1>9
  <2>2. ~(l < p) /\ ~(p < l)
    BY <1>1, <1>3, <1>8, <1>10, <2>1
  <2> QED BY <2>1, <2>2, <1>3
<1> QED BY <1>1, <1>3, <1>4, <1>5, <1>6, <1>9, <1>10 DEF Descent, D

\* What is at each place once the way has moved up by one.
LEMMA RaisedIs ==
    ASSUME NEW S, Timed(S), NEW h \in Seq(S), h # <<>>
    PROVE  /\ Raised(h) \in Seq(S) /\ Len(Raised(h)) = Len(h)
           /\ Raised(h) = [i \in 1 .. Len(h) |-> IF i \notin Way(h) THEN h[i]
                        ELSE IF i = Leaf(h) THEN h[1] ELSE h[Child(h, i)]]
<1>1. PICK n \in Nat : n = Len(h) /\ DOMAIN h = 1 .. n /\ 1 \in 1 .. n
  OBVIOUS
<1>2. Raised(h) = [i \in 1 .. n |-> IF i \notin Way(h) THEN h[i]
                        ELSE IF i = Leaf(h) THEN h[1] ELSE h[Child(h, i)]]
  BY <1>1 DEF Raised
<1>3. \A i \in 1 .. n : h[i] \in S
  BY <1>1
<1>4. ASSUME NEW i \in 1 .. n
      PROVE  (IF i \notin Way(h) THEN h[i]
              ELSE IF i = Leaf(h) THEN h[1] ELSE h[Child(h, i)]) \in S
  <2>1. i \in Way(h) /\ i # Leaf(h) => 2 * i <= n /\ Child(h, i) \in 1 .. n
    BY <1>1, WayIs DEF Descent
  <2> QED BY <2>1, <1>1, <1>3
<1>5. PICK f \in [1 .. n -> S] : f = Raised(h)
  BY <1>2, <1>4
<1>6. f \in Seq(S) /\ Len(f) = n
  OBVIOUS
<1> QED BY <1>1, <1>2, <1>5, <1>6

\* Nothing is lost and nothing doubled by it.
LEMMA RaisedRearranges ==
    ASSUME NEW S, Timed(S), NEW h \in Seq(S), h # <<>>
    PROVE  Rearranged(Raised(h), h)
<1>1. PICK n \in Nat : n = Len(h) /\ DOMAIN h = 1 .. n /\ 1 \in 1 .. n
  OBVIOUS
<1>2. PICK D, leaf : D = Way(h) /\ leaf = Leaf(h) /\ Descent(D, h, leaf)
  BY WayIs
<1>3. PICK r \in Seq(S) : r = Raised(h) /\ Len(r) = n /\ DOMAIN r = 1 .. n
  BY <1>1, RaisedIs
<1>4. \A i \in 1 .. n : r[i] = IF i \notin D THEN h[i]
                               ELSE IF i = leaf THEN h[1] ELSE h[Child(h, i)]
  <2>1. r = [i \in 1 .. n |-> IF i \notin D THEN h[i]
                               ELSE IF i = leaf THEN h[1] ELSE h[Child(h, i)]]
    BY <1>1, <1>2, <1>3, RaisedIs
  <2> QED BY <2>1
<1>5. ASSUME NEW i \in D, i # leaf
      PROVE  Child(h, i) \in 2 .. n /\ Child(h, i) \in D /\ Child(h, i) \div 2 = i
  <2>1. i \in Places /\ 2 * i <= n
    BY <1>1, <1>2, <1>5 DEF Descent, Places
  <2> QED BY <2>1, <1>1, <1>2, ChildIs DEF Descent
<1>6. D \subseteq 1 .. n /\ 1 \in D /\ leaf \in D
  BY <1>1, <1>2 DEF Descent
<1>7. PICK s \in [1 .. n -> 1 .. n] :
          \A i \in 1 .. n : s[i] = IF i \notin D THEN i
                                   ELSE IF i = leaf THEN 1 ELSE Child(h, i)
  <2>1. PICK s : s = [i \in 1 .. n |-> IF i \notin D THEN i
                                   ELSE IF i = leaf THEN 1 ELSE Child(h, i)]
    OBVIOUS
  <2>2. \A i \in 1 .. n : (IF i \notin D THEN i
                           ELSE IF i = leaf THEN 1 ELSE Child(h, i)) \in 1 .. n
    BY <1>1, <1>5
  <2>3. s \in [1 .. n -> 1 .. n]
    BY <2>1, <2>2
  <2> QED BY <2>1, <2>3
<1>8. ASSUME NEW i \in 1 .. n, NEW j \in 1 .. n, s[i] = s[j] PROVE i = j
  <2>1. \A k \in D : k \in 1 .. n /\ s[k] \in D
    BY <1>5, <1>6, <1>7
  <2>2. \A k \in 1 .. n : k \notin D => s[k] = k
    BY <1>7
  <2>3. CASE i \in D /\ j \in D
    <3>1. i # leaf => s[i] \in 2 .. n /\ s[i] \div 2 = i
      BY <2>3, <1>5, <1>7
    <3>2. j # leaf => s[j] \in 2 .. n /\ s[j] \div 2 = j
      BY <2>3, <1>5, <1>7
    <3>3. s[leaf] = 1 /\ 1 \notin 2 .. n
      BY <1>6, <1>7
    <3> QED BY <3>1, <3>2, <3>3, <1>8
  <2>4. CASE i \notin D \/ j \notin D
    BY <2>1, <2>2, <2>4, <1>8
  <2> QED BY <2>3, <2>4
<1>9. ASSUME NEW j \in 1 .. n PROVE \E i \in 1 .. n : s[i] = j
  <2>1. CASE j \notin D
    BY <2>1, <1>7
  <2>2. CASE j = 1
    BY <2>2, <1>6, <1>7
  <2>3. CASE j \in D /\ j # 1
    <3>1. PICK p \in D : p = j \div 2 /\ j = Child(h, p)
      BY <2>3, <1>2 DEF Descent
    <3>2. p # leaf
      <4>1. j \in Places /\ p \in Nat
        BY <1>6 DEF Places
      <4>2. 2 * p <= j
        BY <4>1, <3>1, Half
      <4>3. 2 * p <= n
        BY <4>1, <4>2, <1>1
      <4> QED BY <4>1, <4>3, <1>1, <1>2 DEF Descent
    <3>3. p \in 1 .. n /\ s[p] = j
      BY <3>1, <3>2, <1>6, <1>7
    <3> QED BY <3>3
  <2> QED BY <2>1, <2>2, <2>3
<1>10. \A i \in 1 .. n : r[i] = h[s[i]]
  BY <1>4, <1>7
<1>11. r \in Seq(Elements(h))
  <2>1. r = [i \in 1 .. n |-> r[i]]
    BY <1>3
  <2>2. \A i \in 1 .. n : r[i] \in Elements(h)
    BY <1>1, <1>7, <1>10 DEF Elements
  <2>3. r \in [1 .. n -> Elements(h)]
    BY <2>1, <2>2
  <2> QED BY <2>3
<1>12. Rearranging(s, r, h, n)
  BY <1>7, <1>8, <1>9, <1>10 DEF Rearranging
<1> QED BY <1>1, <1>3, <1>11, <1>12 DEF Rearranged

\* Below the root, h is a heap.
IsHeapBelow(h) == \A i \in 2 .. Len(h) : i \div 2 # 1 => ~Less(h[i], h[i \div 2])

\* All is in order after it, but for the element at the leaf.
LEMMA RaisedOrders ==
    ASSUME NEW S, Timed(S), NEW h \in Seq(S), h # <<>>, IsHeapBelow(h)
    PROVE  IsHeapBut(Raised(h), Leaf(h))
<1>1. PICK n \in Nat : n = Len(h) /\ DOMAIN h = 1 .. n /\ 1 \in 1 .. n
  OBVIOUS
<1>2. PICK D, leaf : D = Way(h) /\ leaf = Leaf(h) /\ Descent(D, h, leaf)
  BY WayIs
<1>3. PICK r \in Seq(S) : r = Raised(h) /\ Len(r) = n
  BY <1>1, RaisedIs
<1>4. \A i \in 1 .. n : r[i] = IF i \notin D THEN h[i]
                               ELSE IF i = leaf THEN h[1] ELSE h[Child(h, i)]
  <2>1. r = [i \in 1 .. n |-> IF i \notin D THEN h[i]
                               ELSE IF i = leaf THEN h[1] ELSE h[Child(h, i)]]
    BY <1>1, <1>2, <1>3, RaisedIs
  <2> QED BY <2>1
<1>5. ASSUME NEW i \in 2 .. n, i # leaf PROVE ~Less(r[i], r[i \div 2])
  <2>1. PICK p \in 1 .. n : p = i \div 2 /\ 2 * p <= i /\ p \in Places
    <3>1. i \in Places /\ i # 1
      BY DEF Places
    <3> QED BY <3>1, Half DEF Places
  <2>2. i \in 1 .. n /\ i # 1 /\ 2 * p <= n
    BY <2>1
  <2>3. p # leaf
    BY <2>2, <1>1, <1>2 DEF Descent
  <2>4. r[p] = IF p \notin D THEN h[p] ELSE h[Child(h, p)]
    BY <2>3, <1>4
  <2>5. CASE i \in D
    <3>1. p \in D /\ i = Child(h, p) /\ 2 * i <= n
      BY <2>1, <2>2, <2>5, <1>1, <1>2, <1>5 DEF Descent
    <3>2. PICK c \in 2 .. n : c = Child(h, i) /\ c \div 2 = i
      <4>1. i \in Places
        BY DEF Places
      <4> QED BY <4>1, <3>1, <1>1, ChildIs
    <3>3. r[p] = h[i] /\ r[i] = h[c]
      BY <2>2, <2>4, <2>5, <3>1, <3>2, <1>4, <1>5
    <3>4. ~Less(h[c], h[i])
      BY <2>2, <3>2, <1>1 DEF IsHeapBelow
    <3> QED BY <2>1, <3>3, <3>4
  <2>6. CASE i \notin D /\ p \in D
    <3>1. ~Less(h[i], h[Child(h, p)])
      BY <2>1, <2>2, <1>1, ChildIs
    <3> QED BY <2>1, <2>2, <2>4, <2>6, <3>1, <1>4
  <2>7. CASE i \notin D /\ p \notin D
    <3>1. p # 1
      BY <2>7, <1>2 DEF Descent
    <3>2. ~Less(h[i], h[p])
      BY <2>1, <3>1, <1>1 DEF IsHeapBelow
    <3> QED BY <2>1, <2>2, <2>4, <2>7, <3>2, <1>4
  <2> QED BY <2>5, <2>6, <2>7
<1> QED BY <1>2, <1>3, <1>5 DEF IsHeapBut

\* The list and its mirror have the same way.
LEMMA WayMirrors ==
    ASSUME NEW S, Timed(S), NEW h \in Seq(S), h # <<>>
    PROVE  /\ Way(Mirror(h)) = Way(h) /\ Leaf(Mirror(h)) = Leaf(h)
           /\ Raised(Mirror(h)) = Mirror(Raised(h))
<1>1. PICK o : o = Mirror(h)
  OBVIOUS
<1>2. PICK n \in Nat : n = Len(h) /\ DOMAIN h = 1 .. n /\ 1 \in 1 .. n
  OBVIOUS
<1>3. /\ DOMAIN o = 1 .. n /\ Len(o) = n
      /\ \A i \in 1 .. n : o[i] = Plain(h[i]) /\ o[i].target = h[i].target
  BY <1>1, <1>2, MirrorIs
<1>4. ASSUME NEW p \in Nat, p >= 1 PROVE Child(o, p) = Child(h, p)
  <2>1. 2 * p < n => Less(o[2 * p], o[2 * p + 1]) = Less(h[2 * p], h[2 * p + 1])
    <3>1. 2 * p < n => 2 * p \in 1 .. n /\ 2 * p + 1 \in 1 .. n
      BY <1>4
    <3> QED BY <3>1, <1>3 DEF Less
  <2> QED BY <2>1, <1>2, <1>3 DEF Child
<1>5. \A p \in 1 .. n : \A q \in Lineage[p] : q # 1 => Child(o, q \div 2) = Child(h, q \div 2)
  <2> SUFFICES ASSUME NEW p \in 1 .. n, NEW q \in Lineage[p], q # 1
               PROVE  Child(o, q \div 2) = Child(h, q \div 2)
    OBVIOUS
  <2>1. p \in Places
    BY DEF Places
  <2>2. q \in Places
    BY <2>1, LineageHolds DEF Places
  <2>3. q \div 2 \in Nat /\ q \div 2 >= 1
    BY <2>2, Half DEF Places
  <2> QED BY <2>3, <1>4
<1>6. Way(o) = Way(h)
  BY <1>2, <1>3, <1>5 DEF Way
<1>7. Leaf(o) = Leaf(h)
  BY <1>2, <1>3, <1>6 DEF Leaf
<1>8. PICK D, leaf : D = Way(h) /\ leaf = Leaf(h) /\ Descent(D, h, leaf)
  BY WayIs
<1>9. Raised(o) = [i \in 1 .. n |-> IF i \notin D THEN o[i]
                        ELSE IF i = leaf THEN o[1] ELSE o[Child(o, i)]]
  BY <1>3, <1>6, <1>7, <1>8 DEF Raised
<1>10. PICK r : r = Raised(h) /\ DOMAIN r = 1 .. n
                /\ \A i \in 1 .. n : r[i] = IF i \notin D THEN h[i]
                        ELSE IF i = leaf THEN h[1] ELSE h[Child(h, i)]
  <2>1. Raised(h) = [i \in 1 .. n |-> IF i \notin D THEN h[i]
                        ELSE IF i = leaf THEN h[1] ELSE h[Child(h, i)]]
    BY <1>2, <1>8 DEF Raised
  <2> QED BY <2>1
<1>11. ASSUME NEW i \in 1 .. n
       PROVE  (IF i \notin D THEN o[i] ELSE IF i = leaf THEN o[1] ELSE o[Child(o, i)])
                  = Plain(r[i])
  <2>1. Child(o, i) = Child(h, i)
    BY <1>4
  <2>2. i \in D /\ i # leaf => Child(h, i) \in 1 .. n
    BY <1>2, <1>8 DEF Descent
  <2> QED BY <2>1, <2>2, <1>2, <1>3, <1>10
<1>12. Mirror(r) = [i \in 1 .. n |-> Plain(r[i])]
  BY <1>10 DEF Mirror
<1>13. Raised(o) = Mirror(r)
  BY <1>9, <1>11, <1>12
<1> QED BY <1>1, <1>6, <1>7, <1>10, <1>13

\* An element that sinks leaves a heap, of what was there, in both lists.
LEMMA SinkIs ==
    ASSUME NEW S, Timed(S), NEW h \in Seq(S), h # <<>>, IsHeapBelow(h)
    PROVE  /\ Sink(h) \in Seq(S) /\ Len(Sink(h)) = Len(h)
           /\ IsHeap(Sink(h))
           /\ \E r \in Seq(S) : Rearranged(r, h) /\ Rearranged(Sink(h), r)
           /\ Sink(Mirror(h)) = Mirror(Sink(h))
<1>1. PICK r \in Seq(S) : r = Raised(h) /\ Len(r) = Len(h) /\ Rearranged(r, h)
  BY RaisedIs, RaisedRearranges
<1>2. PICK leaf \in 1 .. Len(r) : leaf = Leaf(h) /\ 2 * leaf > Len(r)
  <2>1. Descent(Way(h), h, Leaf(h))
    BY WayIs
  <2> QED BY <2>1, <1>1 DEF Descent
<1>3. IsHeapBut(r, leaf)
  BY <1>1, <1>2, RaisedOrders
<1>4. Sink(h) = Rise(r, leaf)
  BY <1>1, <1>2 DEF Sink
<1>5. Rise(r, leaf) \in Seq(S) /\ Len(Rise(r, leaf)) = Len(r)
  BY RiseIs
<1>6. IsHeap(Rise(r, leaf))
  BY <1>2, <1>3, RiseOrders
<1>7. Rearranged(Rise(r, leaf), r)
  BY RiseRearranges
<1>8. Sink(Mirror(h)) = Mirror(Rise(r, leaf))
  <2>1. Sink(Mirror(h)) = Rise(Mirror(r), leaf)
    BY <1>1, <1>2, WayMirrors DEF Sink
  <2> QED BY <2>1, RiseMirrors
<1> QED BY <1>1, <1>4, <1>5, <1>6, <1>7, <1>8

\* What a list that is rearranged keeps.
LEMMA RearrangedHolds ==
    ASSUME NEW S, NEW h \in Seq(S), NEW r, Rearranged(r, h)
    PROVE  Elements(r) = Elements(h) /\ r \in Seq(S) /\ Len(r) = Len(h)
<1>1. PICK n \in Nat : n = Len(h) /\ DOMAIN h = 1 .. n
  OBVIOUS
<1>2. PICK s : Rearranging(s, r, h, n)
  BY <1>1 DEF Rearranged
<1>3. r \in Seq(Elements(h)) /\ Len(r) = n
  BY <1>1 DEF Rearranged
<1>4. DOMAIN r = 1 .. n
  BY <1>3
<1>5. Elements(h) \subseteq S
  BY DEF Elements
<1>6. r \in Seq(S)
  BY <1>3, <1>5
<1>7. Elements(r) = Elements(h)
  <2>1. ASSUME NEW x \in Elements(r) PROVE x \in Elements(h)
    BY <1>1, <1>2, <1>4 DEF Elements, Rearranging
  <2>2. ASSUME NEW x \in Elements(h) PROVE x \in Elements(r)
    <3>1. PICK j \in 1 .. n : x = h[j]
      BY <1>1 DEF Elements
    <3>2. PICK i \in 1 .. n : s[i] = j
      BY <1>2 DEF Rearranging
    <3>3. r[i] = x
      BY <3>1, <3>2, <1>2 DEF Rearranging
    <3> QED BY <3>3, <1>4 DEF Elements
  <2> QED BY <2>1, <2>2
<1> QED BY <1>1, <1>3, <1>6, <1>7

\* No identifier is there twice.
Apart(h) == \A i, j \in DOMAIN h : h[i].did = h[j].did => i = j
\* A rearrangement keeps the identifiers apart.
LEMMA ApartKept ==
    ASSUME NEW S, NEW h \in Seq(S), NEW r, Rearranged(r, h), Apart(h)
    PROVE  Apart(r)
<1>1. PICK n \in Nat : n = Len(h) /\ DOMAIN h = 1 .. n
  OBVIOUS
<1>2. PICK s : Rearranging(s, r, h, n)
  BY <1>1 DEF Rearranged
<1>3. r \in Seq(S) /\ Len(r) = n
  BY <1>1, RearrangedHolds
<1>4. DOMAIN r = 1 .. n
  BY <1>3
<1>5. ASSUME NEW i \in 1 .. n, NEW j \in 1 .. n, r[i].did = r[j].did PROVE i = j
  <2>1. s[i] \in 1 .. n /\ s[j] \in 1 .. n /\ r[i] = h[s[i]] /\ r[j] = h[s[j]]
    BY <1>2 DEF Rearranging
  <2>2. s[i] = s[j]
    BY <2>1, <1>1, <1>5 DEF Apart
  <2> QED BY <2>2, <1>2 DEF Rearranging
<1> QED BY <1>4, <1>5 DEF Apart

\* The mirror of a longer list.
LEMMA MirrorAppend ==
    ASSUME NEW S, NEW h \in Seq(S), NEW x \in S
    PROVE  Append(Mirror(h), Plain(x)) = Mirror(Append(h, x))
<1>1. PICK n \in Nat : n = Len(h) /\ DOMAIN h = 1 .. n
  OBVIOUS
<1>2. PICK g : g = Append(h, x)
  OBVIOUS
<1>3. g \in Seq(S) /\ Len(g) = n + 1
  BY <1>1, <1>2
<1>4. \A i \in 1 .. n : g[i] = h[i]
  BY <1>1, <1>2, AppendProperties
<1>5. g[n + 1] = x /\ DOMAIN g = 1 .. n + 1
  BY <1>1, <1>2, <1>3, AppendProperties
<1>6. PICK m : m = Mirror(h) /\ m = [i \in 1 .. n |-> Plain(h[i])]
  BY <1>1 DEF Mirror
<1>7. Mirror(g) = [i \in 1 .. n + 1 |-> Plain(g[i])]
  BY <1>5 DEF Mirror
<1>8. Len(m) = n
  BY <1>6
<1>9. Append(m, Plain(x)) = [i \in 1 .. n + 1 |-> IF i = n + 1 THEN Plain(x) ELSE m[i]]
  BY <1>6, <1>8
<1>10. \A i \in 1 .. n + 1 : (IF i = n + 1 THEN Plain(x) ELSE m[i]) = Plain(g[i])
  <2>1. \A i \in 1 .. n + 1 : i # n + 1 => i \in 1 .. n
    BY <1>1
  <2> QED BY <2>1, <1>4, <1>5, <1>6
<1> QED BY <1>2, <1>6, <1>7, <1>9, <1>10

\* A heap that a call is pushed on.
LEMMA PushIs ==
    ASSUME NEW S, Timed(S), NEW h \in Seq(S), NEW x \in S, IsHeap(h)
    PROVE  LET r == HeapPush(h, x)
           IN  /\ r \in Seq(S) /\ Len(r) = Len(h) + 1 /\ IsHeap(r)
               /\ Elements(r) = Elements(h) \cup {x}
               /\ Apart(Append(h, x)) => Apart(r)
               /\ HeapPush(Mirror(h), Plain(x)) = Mirror(r)
<1>1. PICK n \in Nat : n = Len(h) /\ DOMAIN h = 1 .. n
  OBVIOUS
<1>2. PICK g \in Seq(S) : /\ g = Append(h, x) /\ Len(g) = n + 1 /\ DOMAIN g = 1 .. n + 1
                          /\ \A i \in 1 .. n : g[i] = h[i]
                          /\ g[n + 1] = x
  <2>1. PICK g : g = Append(h, x)
    OBVIOUS
  <2>2. g \in Seq(S) /\ Len(g) = n + 1
    BY <2>1, <1>1
  <2>3. \A i \in 1 .. Len(h) : g[i] = h[i]
    BY <2>1, AppendProperties
  <2>4. g[Len(h) + 1] = x
    BY <2>1, AppendProperties
  <2>5. DOMAIN g = 1 .. n + 1
    BY <2>2
  <2> QED BY <2>1, <2>2, <2>3, <2>4, <2>5, <1>1
<1>3. PICK r : r = HeapPush(h, x) /\ r = Rise(g, n + 1)
  BY <1>1, <1>2 DEF HeapPush
<1>4. n + 1 \in 1 .. Len(g) /\ 2 * (n + 1) > Len(g)
  BY <1>1, <1>2
<1>5. IsHeapBut(g, n + 1)
  <2> SUFFICES ASSUME NEW i \in 2 .. n + 1, i # n + 1 PROVE ~Less(g[i], g[i \div 2])
    BY <1>2 DEF IsHeapBut
  <2>1. i \in 2 .. n /\ i \in Places
    BY DEF Places
  <2>2. i \div 2 \in 1 .. n
    BY <2>1, Half DEF Places
  <2>3. ~Less(h[i], h[i \div 2])
    BY <2>1, <1>1 DEF IsHeap
  <2>4. i \in 1 .. n
    BY <2>1
  <2> QED BY <2>2, <2>3, <2>4, <1>2
<1>6. IsHeap(r)
  BY <1>3, <1>4, <1>5, RiseOrders
<1>7. Rearranged(r, g)
  BY <1>3, <1>4, RiseRearranges
<1>8. r \in Seq(S) /\ Len(r) = n + 1 /\ Elements(r) = Elements(g)
  BY <1>2, <1>7, RearrangedHolds
<1>9. Elements(g) = Elements(h) \cup {x}
  <2>1. 1 .. n + 1 = (1 .. n) \cup {n + 1}
    BY <1>1
  <2> QED BY <2>1, <1>1, <1>2 DEF Elements
<1>10. Apart(g) => Apart(r)
  BY <1>7, ApartKept
<1>11. HeapPush(Mirror(h), Plain(x)) = Mirror(r)
  <2>1. Len(Mirror(h)) = n
    BY <1>1, MirrorIs
  <2>2. Append(Mirror(h), Plain(x)) = Mirror(g)
    BY <1>2, MirrorAppend
  <2>3. HeapPush(Mirror(h), Plain(x)) = Rise(Mirror(g), n + 1)
    BY <2>1, <2>2 DEF HeapPush
  <2> QED BY <2>3, <1>3, <1>4, RiseMirrors
<1> QED BY <1>1, <1>2, <1>3, <1>6, <1>8, <1>9, <1>10, <1>11

\* A heap whose first call is taken.
LEMMA PopIs ==
    ASSUME NEW S, Timed(S), NEW h \in Seq(S), h # <<>>, IsHeap(h), Apart(h)
    PROVE  LET r == HeapPop(h)
           IN  /\ r \in Seq(S) /\ Len(r) = Len(h) - 1 /\ IsHeap(r) /\ Apart(r)
               /\ Elements(r) = Elements(h) \ {h[1]}
               /\ HeapPop(Mirror(h)) = Mirror(r)
<1>1. PICK n \in Nat : n = Len(h) /\ DOMAIN h = 1 .. n /\ 1 \in 1 .. n /\ n >= 1
  OBVIOUS
<1>2. PICK r : r = HeapPop(h)
  OBVIOUS
<1>3. PICK o : o = Mirror(h) /\ o = [i \in 1 .. n |-> Plain(h[i])] /\ Len(o) = n
  <2>1. Mirror(h) = [i \in 1 .. n |-> Plain(h[i])]
    BY <1>1 DEF Mirror
  <2>2. Len(Mirror(h)) = n
    BY <1>1, MirrorIs
  <2> QED BY <2>1, <2>2
<1>4. CASE n = 1
  <2>1. r = <<>> /\ HeapPop(o) = <<>>
    BY <1>1, <1>2, <1>3, <1>4 DEF HeapPop
  <2>2. r \in Seq(S) /\ Len(r) = 0 /\ DOMAIN r = {}
    BY <2>1
  <2>3. Elements(h) = {h[1]} /\ Elements(r) = {}
    BY <2>2, <1>1, <1>4 DEF Elements
  <2>4. Mirror(r) = <<>>
    BY <2>1 DEF Mirror
  <2>5. IsHeap(r) /\ Apart(r)
    BY <2>2 DEF IsHeap, Apart
  <2>6. Elements(r) = Elements(h) \ {h[1]}
    BY <2>3
  <2>7. HeapPop(Mirror(h)) = Mirror(r) /\ Len(r) = Len(h) - 1
    BY <2>1, <2>2, <2>4, <1>1, <1>3, <1>4
  <2> QED BY <2>2, <2>5, <2>6, <2>7, <1>2
<1>5. CASE n # 1
  <2>1. PICK m \in Nat : m = n - 1 /\ m >= 1 /\ n \in 1 .. n
    BY <1>1, <1>5
  <2>2. PICK g : g = [i \in 1 .. m |-> IF i = 1 THEN h[n] ELSE h[i]]
    OBVIOUS
  <2>3. \A i \in 1 .. n : h[i] \in S
    BY <1>1
  <2>4. g \in [1 .. m -> S]
    BY <2>1, <2>2, <2>3
  <2>5. g \in Seq(S) /\ Len(g) = m /\ DOMAIN g = 1 .. m /\ g # <<>>
    BY <2>1, <2>4
  <2>6. r = Sink(g)
    BY <2>1, <2>2, <1>1, <1>2, <1>5 DEF HeapPop
  <2>7. IsHeapBelow(g)
    <3> SUFFICES ASSUME NEW i \in 2 .. m, i \div 2 # 1 PROVE ~Less(g[i], g[i \div 2])
      BY <2>5 DEF IsHeapBelow
    <3>1. i \in Places /\ i \in 2 .. n /\ i \in 1 .. m /\ i # 1
      BY <2>1 DEF Places
    <3>2. i \div 2 \in 1 .. m
      BY <3>1, Half DEF Places
    <3>3. ~Less(h[i], h[i \div 2])
      BY <3>1, <1>1 DEF IsHeap
    <3> QED BY <3>1, <3>2, <3>3, <2>2
  <2>8. PICK q \in Seq(S) : Rearranged(q, g) /\ Rearranged(r, q)
    BY <2>5, <2>6, <2>7, SinkIs
  <2>9. r \in Seq(S) /\ Len(r) = m /\ IsHeap(r)
    BY <2>5, <2>6, <2>7, SinkIs
  <2>10. Elements(r) = Elements(g)
    BY <2>5, <2>8, RearrangedHolds
  <2>11. Apart(g)
    <3> SUFFICES ASSUME NEW i \in 1 .. m, NEW j \in 1 .. m, g[i].did = g[j].did PROVE i = j
      BY <2>5 DEF Apart
    <3>1. PICK a \in 1 .. n : a = (IF i = 1 THEN n ELSE i) /\ g[i] = h[a]
      BY <2>1, <2>2
    <3>2. PICK b \in 1 .. n : b = (IF j = 1 THEN n ELSE j) /\ g[j] = h[b]
      BY <2>1, <2>2
    <3>3. a = b
      BY <3>1, <3>2, <1>1 DEF Apart
    <3> QED BY <3>1, <3>2, <3>3, <2>1
  <2>12. Apart(r)
    BY <2>5, <2>8, <2>11, ApartKept
  <2>13. Elements(g) = Elements(h) \ {h[1]}
    <3>1. ASSUME NEW x \in Elements(g) PROVE x \in Elements(h) \ {h[1]}
      <4>1. PICK i \in 1 .. m : x = g[i]
        BY <2>5 DEF Elements
      <4>2. PICK a \in 1 .. n : a # 1 /\ x = h[a]
        BY <4>1, <2>1, <2>2
      <4>3. h[a] # h[1]
        BY <4>2, <1>1 DEF Apart
      <4> QED BY <4>2, <4>3, <1>1 DEF Elements
    <3>2. ASSUME NEW x \in Elements(h), x # h[1] PROVE x \in Elements(g)
      <4>1. PICK a \in 1 .. n : x = h[a] /\ a # 1
        BY <3>2, <1>1 DEF Elements
      <4>2. PICK i \in 1 .. m : x = g[i]
        <5>1. CASE a = n
          BY <5>1, <4>1, <2>1, <2>2
        <5>2. CASE a # n
          <6>1. a \in 1 .. m
            BY <5>2, <2>1
          <6> QED BY <6>1, <4>1, <2>2
        <5> QED BY <5>1, <5>2
      <4> QED BY <4>2, <2>5 DEF Elements
    <3> QED BY <3>1, <3>2
  <2>14. HeapPop(o) = Mirror(r)
    <3>1. PICK p : p = [i \in 1 .. m |-> IF i = 1 THEN o[n] ELSE o[i]]
      OBVIOUS
    <3>2. HeapPop(o) = Sink(p)
      BY <3>1, <2>1, <1>3, <1>5 DEF HeapPop
    <3>3. Mirror(g) = [i \in 1 .. m |-> Plain(g[i])]
      BY <2>5 DEF Mirror
    <3>4. \A i \in 1 .. m : (IF i = 1 THEN o[n] ELSE o[i]) = Plain(g[i])
      <4>1. \A i \in 1 .. m : i \in 1 .. n
        BY <2>1
      <4> QED BY <4>1, <2>1, <2>2, <1>3
    <3>5. p = Mirror(g)
      BY <3>1, <3>3, <3>4
    <3> QED BY <3>2, <3>5, <2>5, <2>6, <2>7, SinkIs
  <2> QED BY <2>1, <2>9, <2>10, <2>12, <2>13, <2>14, <1>1, <1>2, <1>3
<1> QED BY <1>4, <1>5

\* A is the list after each of the pushes.
Pushes(A, h, s, n) ==
    A = [k \in 0 .. n |-> IF k = 0 THEN h ELSE HeapPush(A[k - 1], s[k])]
\* PushAll has the value of its recursion.
LEMMA PushAllIs ==
    ASSUME NEW h, NEW s, NEW n \in Nat, n = Len(s), NEW A, Pushes(A, h, s, n)
    PROVE  PushAll(h, s) = A[n]
<1> DEFINE Held(f) == f = [k \in 0 .. n |-> IF k = 0 THEN h ELSE HeapPush(f[k - 1], s[k])]
<1>1. PICK B : B = CHOOSE f : Held(f)
  OBVIOUS
<1>2. Held(A)
  BY DEF Pushes
<1>3. Held(B)
  <2> HIDE DEF Held
  <2> QED BY <1>1, <1>2
<1>4. PushAll(h, s) = B[n]
  BY <1>1 DEF PushAll
<1> DEFINE Same == {k \in Nat : k \in 0 .. n => A[k] = B[k]}
<1>5. ASSUME NEW k \in Nat, \A m \in Nat : m < k => m \in Same PROVE k \in Same
  <2> SUFFICES ASSUME k \in 0 .. n PROVE A[k] = B[k]
    OBVIOUS
  <2>1. CASE k = 0
    BY <2>1, <1>2, <1>3
  <2>2. CASE k # 0
    <3>1. k - 1 \in Nat /\ k - 1 < k /\ k - 1 \in 0 .. n
      BY <2>2
    <3>2. A[k - 1] = B[k - 1]
      BY <3>1, <1>5
    <3>3. A[k] = HeapPush(A[k - 1], s[k])
      BY <2>2, <1>2
    <3>4. B[k] = HeapPush(B[k - 1], s[k])
      BY <2>2, <1>3
    <3> QED BY <3>2, <3>3, <3>4
  <2> QED BY <2>1, <2>2
<1> HIDE DEF Same
<1>6. n \in Same
  BY <1>5, Strongly
<1> QED BY <1>4, <1>6 DEF Same

\* An element with an identifier of its own may be appended.
LEMMA ApartAppend ==
    ASSUME NEW S, NEW g \in Seq(S), NEW x \in S, Apart(g),
           \A y \in Elements(g) : y.did # x.did
    PROVE  Apart(Append(g, x))
<1>1. PICK n \in Nat : n = Len(g) /\ DOMAIN g = 1 .. n
  OBVIOUS
<1>2. PICK a : a = Append(g, x)
  OBVIOUS
<1>3. a \in Seq(S) /\ Len(a) = n + 1
  BY <1>1, <1>2
<1>4. \A i \in 1 .. n : a[i] = g[i] /\ g[i] \in Elements(g)
  BY <1>1, <1>2, AppendProperties DEF Elements
<1>5. a[n + 1] = x
  BY <1>1, <1>2, AppendProperties
<1>6. DOMAIN a = 1 .. n + 1 /\ \A i \in 1 .. n + 1 : i \in 1 .. n \/ i = n + 1
  BY <1>3
<1>7. ASSUME NEW i \in 1 .. n + 1, NEW j \in 1 .. n + 1, a[i].did = a[j].did PROVE i = j
  <2>1. CASE i \in 1 .. n /\ j \in 1 .. n
    BY <2>1, <1>1, <1>4, <1>7 DEF Apart
  <2>2. CASE ~(i \in 1 .. n /\ j \in 1 .. n)
    BY <2>2, <1>4, <1>5, <1>6, <1>7
  <2> QED BY <2>1, <2>2
<1> QED BY <1>2, <1>6, <1>7 DEF Apart

\* Calls that are pushed one by one, none of which has the identifier of another.
Unlike(h, s) ==
    /\ Apart(h) /\ Apart(s)
    /\ \A x \in Elements(h), y \in Elements(s) : x.did # y.did
Pushed(S, h, s, k, g) ==
    /\ g \in Seq(S) /\ IsHeap(g) /\ Apart(g)
    /\ Elements(g) = Elements(h) \cup {s[i] : i \in 1 .. k}

\* One more element pushed back.
LEMMA PushedNext ==
    ASSUME NEW S, Timed(S), NEW h \in Seq(S), NEW s \in Seq(S), Unlike(h, s),
           NEW k \in 1 .. Len(s), NEW g, Pushed(S, h, s, k - 1, g)
    PROVE  /\ Pushed(S, h, s, k, HeapPush(g, s[k]))
           /\ HeapPush(Mirror(g), Plain(s[k])) = Mirror(HeapPush(g, s[k]))
<1>1. PICK x \in S : x = s[k]
  OBVIOUS
<1>2. g \in Seq(S) /\ IsHeap(g) /\ Apart(g)
  BY DEF Pushed
<1>3. PICK r : r = HeapPush(g, x)
  OBVIOUS
<1>4. /\ r \in Seq(S) /\ IsHeap(r) /\ Elements(r) = Elements(g) \cup {x}
      /\ Apart(Append(g, x)) => Apart(r)
      /\ HeapPush(Mirror(g), Plain(x)) = Mirror(r)
  <2>1. /\ HeapPush(g, x) \in Seq(S) /\ IsHeap(HeapPush(g, x))
        /\ Elements(HeapPush(g, x)) = Elements(g) \cup {x}
        /\ Apart(Append(g, x)) => Apart(HeapPush(g, x))
        /\ HeapPush(Mirror(g), Plain(x)) = Mirror(HeapPush(g, x))
    BY <1>2, PushIs
  <2> QED BY <2>1, <1>3
<1>5. DOMAIN s = 1 .. Len(s) /\ Len(s) \in Nat
  OBVIOUS
<1>6. \A y \in Elements(g) : y.did # x.did
  <2> SUFFICES ASSUME NEW y \in Elements(g) PROVE y.did # x.did
    OBVIOUS
  <2>1. CASE y \in Elements(h)
    BY <2>1, <1>1, <1>5 DEF Unlike, Elements
  <2>2. CASE y \notin Elements(h)
    <3>1. PICK i \in 1 .. k - 1 : y = s[i]
      BY <2>2 DEF Pushed
    <3>2. i \in 1 .. Len(s) /\ i # k
      BY <1>5
    <3> QED BY <3>1, <3>2, <1>1, <1>5 DEF Unlike, Apart
  <2> QED BY <2>1, <2>2
<1>7. Apart(Append(g, x))
  BY <1>2, <1>6, ApartAppend
<1>8. Elements(r) = Elements(h) \cup {s[i] : i \in 1 .. k}
  <2>1. 1 .. k = (1 .. k - 1) \cup {k}
    BY <1>5
  <2>2. {s[i] : i \in 1 .. k} = {s[i] : i \in 1 .. k - 1} \cup {x}
    BY <2>1, <1>1
  <2>3. Elements(g) = Elements(h) \cup {s[i] : i \in 1 .. k - 1}
    BY DEF Pushed
  <2> QED BY <2>2, <2>3, <1>4
<1> QED BY <1>1, <1>3, <1>4, <1>7, <1>8 DEF Pushed

\* All of them pushed back, in both lists.
LEMMA PushAllHolds ==
    ASSUME NEW S, Timed(S), NEW h \in Seq(S), IsHeap(h), NEW s \in Seq(S), Unlike(h, s)
    PROVE  /\ Pushed(S, h, s, Len(s), PushAll(h, s))
           /\ PushAll(Mirror(h), Mirror(s)) = Mirror(PushAll(h, s))
<1>1. PICK n \in Nat : n = Len(s) /\ DOMAIN s = 1 .. n
  OBVIOUS
<1> DEFINE Begun(A, m) ==
              /\ A \in [0 .. m -> Seq(S)]
              /\ \A k \in 0 .. m : Pushed(S, h, s, k, A[k])
              /\ A[0] = h /\ \A k \in 1 .. m : A[k] = HeapPush(A[k - 1], s[k])
           Held == {m \in Nat : m <= n => \E A : Begun(A, m)}
<1>2. ASSUME NEW m \in Nat, \A l \in Nat : l < m => l \in Held PROVE m \in Held
  <2> SUFFICES ASSUME m <= n PROVE \E A : Begun(A, m)
    OBVIOUS
  <2>1. CASE m = 0
    <3>1. PICK A \in [0 .. m -> Seq(S)] : A = [k \in 0 .. m |-> h]
      OBVIOUS
    <3>2. Pushed(S, h, s, 0, h)
      BY DEF Pushed, Unlike
    <3>3. Begun(A, m)
      BY <2>1, <3>1, <3>2
    <3> HIDE DEF Begun
    <3> QED BY <3>3
  <2>2. CASE m # 0
    <3>1. m - 1 \in Nat /\ m - 1 < m /\ m - 1 <= n /\ m \in 1 .. n
      BY <2>2
    <3>2. PICK A : Begun(A, m - 1)
      <4> HIDE DEF Begun
      <4> QED BY <3>1, <1>2
    <3>3. PICK x : x = HeapPush(A[m - 1], s[m])
      OBVIOUS
    <3>4. m - 1 \in 0 .. m - 1
      BY <3>1
    <3>5. Pushed(S, h, s, m, x)
      BY <3>1, <3>2, <3>3, <3>4, <1>1, PushedNext
    <3>6. x \in Seq(S)
      BY <3>5 DEF Pushed
    <3>7. PICK B \in [0 .. m -> Seq(S)] : B = [k \in 0 .. m |-> IF k = m THEN x ELSE A[k]]
      <4>1. \A k \in 0 .. m : k # m => k \in 0 .. m - 1
        OBVIOUS
      <4> QED BY <4>1, <3>2, <3>6
    <3>8. B[m] = x /\ \A k \in 0 .. m - 1 : k # m /\ k \in 0 .. m /\ B[k] = A[k]
      BY <3>7
    <3>9. ASSUME NEW k \in 0 .. m PROVE Pushed(S, h, s, k, B[k])
      <4>1. k # m => k \in 0 .. m - 1
        OBVIOUS
      <4> QED BY <4>1, <3>2, <3>5, <3>8
    <3>10. B[0] = h
      <4>1. 0 \in 0 .. m - 1
        BY <3>1
      <4> QED BY <4>1, <3>2, <3>8
    <3>11. ASSUME NEW k \in 1 .. m PROVE B[k] = HeapPush(B[k - 1], s[k])
      <4>1. k - 1 \in 0 .. m - 1
        OBVIOUS
      <4>2. CASE k = m
        BY <4>1, <4>2, <3>3, <3>8
      <4>3. CASE k # m
        <5>1. k \in 1 .. m - 1 /\ k \in 0 .. m - 1
          BY <4>3
        <5> QED BY <4>1, <5>1, <3>2, <3>8
      <4> QED BY <4>2, <4>3
    <3>12. Begun(B, m)
      BY <3>7, <3>9, <3>10, <3>11
    <3> HIDE DEF Begun
    <3> QED BY <3>12
  <2> QED BY <2>1, <2>2
<1> HIDE DEF Held
<1>3. n \in Held
  BY <1>2, Strongly
<1>4. PICK A : Begun(A, n)
  <2>1. n <= n
    OBVIOUS
  <2> HIDE DEF Begun
  <2> QED BY <2>1, <1>3 DEF Held
<1>5. A = [k \in 0 .. n |-> IF k = 0 THEN h ELSE HeapPush(A[k - 1], s[k])]
  <2>1. \A k \in 0 .. n : k = 0 \/ k \in 1 .. n
    OBVIOUS
  <2>2. \A k \in 0 .. n : A[k] = IF k = 0 THEN h ELSE HeapPush(A[k - 1], s[k])
    BY <2>1, <1>4
  <2>3. A = [k \in 0 .. n |-> A[k]]
    BY <1>4
  <2> QED BY <2>2, <2>3
<1>6. PushAll(h, s) = A[n]
  BY <1>1, <1>5, PushAllIs DEF Pushes
<1>7. Pushed(S, h, s, n, A[n])
  BY <1>4
<1>8. PICK t : t = Mirror(s) /\ Len(t) = n /\ \A k \in 1 .. n : t[k] = Plain(s[k])
  BY <1>1, MirrorIs
<1>9. PICK B : B = [k \in 0 .. n |-> Mirror(A[k])]
  OBVIOUS
<1>10. ASSUME NEW k \in 1 .. n PROVE Mirror(A[k]) = HeapPush(Mirror(A[k - 1]), Plain(s[k]))
  <2>1. k - 1 \in 0 .. n
    OBVIOUS
  <2> QED BY <2>1, <1>1, <1>4, PushedNext
<1>11. B = [k \in 0 .. n |-> IF k = 0 THEN Mirror(h) ELSE HeapPush(B[k - 1], t[k])]
  <2>1. \A k \in 0 .. n : k = 0 \/ (k \in 1 .. n /\ k - 1 \in 0 .. n)
    OBVIOUS
  <2>2. \A k \in 0 .. n : B[k] = Mirror(A[k])
    BY <1>9
  <2>3. \A k \in 0 .. n : Mirror(A[k]) = IF k = 0 THEN Mirror(h) ELSE HeapPush(B[k - 1], t[k])
    BY <2>1, <2>2, <1>4, <1>8, <1>10
  <2> QED BY <2>3, <1>9
<1>12. PushAll(Mirror(h), t) = B[n]
  <2>1. n = Len(t)
    BY <1>8
  <2>2. Pushes(B, Mirror(h), t, n)
    BY <1>11 DEF Pushes
  <2> QED BY <2>1, <2>2, PushAllIs
<1>13. B[n] = Mirror(A[n])
  BY <1>9
<1> QED BY <1>1, <1>6, <1>7, <1>8, <1>12, <1>13

-----------------------------------------------------------------------------
(* The two heaps. *)

Calls == [target: Targets, did: Nat, callable: Callables, lid: {0, 1}]
\* Calls have targets, which are numbers.
LEMMA CallsTimed == Timed(Calls)
<1>1. Targets \subseteq Int
  BY TargetsAssumption
<1> QED BY <1>1 DEF Timed, Calls

\* The heap is one, and so is what was set aside but for the order; the other
\* heap is the same without the identifiers.
HeapInv ==
    /\ delayed \in Seq(Calls) /\ aside \in Seq(Calls) /\ did \in Nat /\ lid \in {0, 1}
    /\ IsHeap(delayed) /\ Unlike(delayed, aside)
    /\ \A x \in Elements(delayed) \cup Elements(aside) : x.did < did
    /\ delayedO = Mirror(delayed) /\ asideO = Mirror(aside)

\* The empty heap.
LEMMA NoCalls == \A h : h = <<>> => /\ h \in Seq(Calls) /\ IsHeap(h) /\ Apart(h)
                                    /\ Elements(h) = {} /\ Mirror(h) = <<>>
<1> TAKE h
<1> HAVE h = <<>>
<1>1. h \in Seq(Calls) /\ Len(h) = 0 /\ DOMAIN h = {}
  OBVIOUS
<1>2. Mirror(h) = <<>>
  BY <1>1 DEF Mirror
<1> QED BY <1>1, <1>2 DEF IsHeap, Apart, Elements

\* The invariant holds at first.
LEMMA HeapInitInv == HeapInit => HeapInv
  BY NoCalls DEF HeapInit, HeapInv, Unlike

\* A call that is scheduled is added to what is held.
LEMMA DelayKeeps ==
    ASSUME HeapInv, NEW c \in Callables, NEW t \in Targets, Delay(c, t)
    PROVE  HeapInv' /\ Elements(delayed) \subseteq Elements(delayed')
<1>1. PICK x \in Calls : x = [target |-> t, did |-> did, callable |-> c, lid |-> lid]
  BY DEF HeapInv, Calls
<1>2. PICK h \in Seq(Calls) : h = delayed /\ IsHeap(h) /\ Apart(h)
  BY DEF HeapInv, Unlike
<1>3. PICK r : r = HeapPush(h, x)
  OBVIOUS
<1>4. /\ r \in Seq(Calls) /\ IsHeap(r) /\ Elements(r) = Elements(h) \cup {x}
      /\ Apart(Append(h, x)) => Apart(r)
      /\ HeapPush(Mirror(h), Plain(x)) = Mirror(r)
  <2>1. /\ HeapPush(h, x) \in Seq(Calls) /\ IsHeap(HeapPush(h, x))
        /\ Elements(HeapPush(h, x)) = Elements(h) \cup {x}
        /\ Apart(Append(h, x)) => Apart(HeapPush(h, x))
        /\ HeapPush(Mirror(h), Plain(x)) = Mirror(HeapPush(h, x))
    BY <1>2, CallsTimed, PushIs
  <2> QED BY <2>1, <1>3
<1>5. /\ delayed' = r /\ delayedO' = Mirror(r) /\ did' = did + 1
      /\ lid' = lid /\ aside' = aside /\ asideO' = asideO
  BY <1>1, <1>2, <1>3, <1>4 DEF Delay, HeapInv
<1>6. did \in Nat /\ x.did = did
  BY <1>1 DEF HeapInv
<1>7. Apart(Append(h, x))
  <2>1. \A y \in Elements(h) : y.did # x.did
    BY <1>2, <1>6 DEF HeapInv
  <2> QED BY <2>1, <1>2, ApartAppend
<1>8. Unlike(r, aside)
  <2>1. \A y \in Elements(aside) : y.did # x.did
    BY <1>6 DEF HeapInv
  <2> QED BY <2>1, <1>2, <1>4, <1>7 DEF HeapInv, Unlike
<1>9. \A y \in Elements(r) \cup Elements(aside) : y.did < did + 1
  <2>1. \A y \in Elements(h) \cup Elements(aside) : y.did \in Nat
    <3>1. Elements(h) \subseteq Calls /\ Elements(aside) \subseteq Calls
      BY DEF Elements, HeapInv
    <3> QED BY <3>1 DEF Calls
  <2> QED BY <2>1, <1>2, <1>4, <1>6 DEF HeapInv
<1> QED BY <1>2, <1>4, <1>5, <1>6, <1>8, <1>9 DEF HeapInv

\* The first call is taken.
LEMMA TopIs ==
    ASSUME HeapInv, delayed # <<>>
    PROVE  /\ Top \in Calls /\ Top \in Elements(delayed) /\ Head(delayedO) = Plain(Top)
           /\ \A x \in Elements(delayed) : ~(x.target < Top.target)
           /\ HeapPop(delayed) \in Seq(Calls) /\ IsHeap(HeapPop(delayed))
           /\ Apart(HeapPop(delayed))
           /\ Elements(HeapPop(delayed)) = Elements(delayed) \ {Top}
           /\ HeapPop(delayedO) = Mirror(HeapPop(delayed))
<1>1. PICK h \in Seq(Calls) : h = delayed /\ IsHeap(h) /\ Apart(h) /\ h # <<>>
  BY DEF HeapInv, Unlike
<1>2. PICK n \in Nat : n = Len(h) /\ DOMAIN h = 1 .. n /\ 1 \in 1 .. n
  BY <1>1
<1>3. Top = h[1] /\ h[1] \in Calls
  BY <1>1, <1>2 DEF Top
<1>4. h[1] \in Elements(h)
  BY <1>2 DEF Elements
<1>5. \A x \in Elements(h) : ~(x.target < h[1].target)
  <2>1. \A i \in 1 .. n : ~Less(h[i], h[1])
    BY <1>1, <1>2, CallsTimed, TopIsFirst
  <2> QED BY <2>1, <1>2 DEF Elements, Less
<1>6. /\ HeapPop(h) \in Seq(Calls) /\ IsHeap(HeapPop(h)) /\ Apart(HeapPop(h))
      /\ Elements(HeapPop(h)) = Elements(h) \ {h[1]}
      /\ HeapPop(Mirror(h)) = Mirror(HeapPop(h))
  BY <1>1, CallsTimed, PopIs
<1>7. Head(Mirror(h)) = Plain(h[1])
  <2>1. Mirror(h) = [i \in 1 .. n |-> Plain(h[i])]
    BY <1>2 DEF Mirror
  <2>2. Head(Mirror(h)) = Mirror(h)[1]
    BY <2>1, <1>2
  <2> QED BY <2>1, <2>2, <1>2
<1>8. delayedO = Mirror(h)
  BY <1>1 DEF HeapInv
<1> QED BY <1>1, <1>3, <1>4, <1>5, <1>6, <1>7, <1>8

\* A call goes to those that are set aside.
LEMMA SetAside ==
    ASSUME HeapInv, delayed # <<>>
    PROVE  LET calls == Append(aside, Top)
           IN  /\ calls \in Seq(Calls) /\ Unlike(HeapPop(delayed), calls)
               /\ Elements(calls) = Elements(aside) \cup {Top}
               /\ Append(asideO, Head(delayedO)) = Mirror(calls)
<1>1. PICK a \in Seq(Calls) : a = aside /\ Apart(a) /\ asideO = Mirror(a)
  BY DEF HeapInv, Unlike
<1>2. PICK x \in Calls : x = Top /\ x \in Elements(delayed) /\ Head(delayedO) = Plain(x)
  BY TopIs
<1>3. PICK c \in Seq(Calls) : c = Append(a, x)
  BY AppendProperties
<1>4. \A y \in Elements(a) : y.did # x.did
  BY <1>1, <1>2 DEF HeapInv, Unlike
<1>5. Apart(c)
  BY <1>1, <1>3, <1>4, ApartAppend
<1>6. Elements(c) = Elements(a) \cup {x}
  <2>1. PICK n \in Nat : n = Len(a) /\ DOMAIN a = 1 .. n
    OBVIOUS
  <2>2. Len(c) = n + 1 /\ \A i \in 1 .. n : c[i] = a[i]
    BY <2>1, <1>3, AppendProperties
  <2>3. c[n + 1] = x /\ DOMAIN c = (1 .. n) \cup {n + 1}
    BY <2>1, <2>2, <1>3, AppendProperties
  <2> QED BY <2>1, <2>2, <2>3 DEF Elements
<1>7. Unlike(HeapPop(delayed), c)
  <2> SUFFICES ASSUME NEW y \in Elements(HeapPop(delayed)), NEW z \in Elements(c)
               PROVE  y.did # z.did
    BY <1>5, TopIs DEF Unlike
  <2>1. y \in Elements(delayed) /\ y # x
    BY <1>2, TopIs
  <2>2. y.did # x.did
    BY <2>1, <1>2 DEF HeapInv, Unlike, Apart, Elements
  <2>3. z \in Elements(aside) => y.did # z.did
    BY <2>1 DEF HeapInv, Unlike
  <2> QED BY <2>2, <2>3, <1>1, <1>6
<1>8. Append(asideO, Head(delayedO)) = Mirror(c)
  BY <1>1, <1>2, <1>3, MirrorAppend
<1> QED BY <1>1, <1>2, <1>3, <1>6, <1>7, <1>8

\* What was set aside goes back.
LEMMA RestoreKeeps ==
    ASSUME HeapInv, NEW h \in Seq(Calls), NEW c \in Seq(Calls), IsHeap(h), Unlike(h, c),
           Elements(h) \cup Elements(c) = Elements(delayed) \cup Elements(aside),
           Restore(h, Mirror(h), c, Mirror(c)), lid' = lid
    PROVE  HeapInv' /\ Elements(delayed) \subseteq Elements(delayed')
<1>1. PICK r : r = PushAll(h, c)
  OBVIOUS
<1>2. Pushed(Calls, h, c, Len(c), r) /\ PushAll(Mirror(h), Mirror(c)) = Mirror(r)
  BY <1>1, CallsTimed, PushAllHolds
<1>3. delayed' = r /\ delayedO' = Mirror(r) /\ aside' = <<>> /\ asideO' = <<>>
  BY <1>1, <1>2 DEF Restore
<1>4. Elements(r) = Elements(delayed) \cup Elements(aside)
  <2>1. Elements(c) = {c[i] : i \in 1 .. Len(c)}
    BY DEF Elements
  <2> QED BY <2>1, <1>2 DEF Pushed
<1>5. PICK e : e = <<>>
  OBVIOUS
<1>6. e \in Seq(Calls) /\ Apart(e) /\ Elements(e) = {} /\ Mirror(e) = <<>>
  BY <1>5, NoCalls
<1>7. r \in Seq(Calls) /\ IsHeap(r) /\ Unlike(r, e)
  BY <1>2, <1>6 DEF Pushed, Unlike
<1>8. did' \in Nat /\ \A x \in Elements(r) : x.did < did'
  <2>1. CASE r = <<>>
    <3>1. did' = 0 /\ Elements(r) = {}
      BY <2>1, <1>3, NoCalls DEF Restore
    <3> QED BY <3>1
  <2>2. CASE r # <<>>
    <3>1. did' = did
      BY <2>2, <1>3 DEF Restore
    <3> QED BY <3>1, <1>4 DEF HeapInv
  <2> QED BY <2>1, <2>2
<1>9. HeapInv'
  BY <1>3, <1>5, <1>6, <1>7, <1>8 DEF HeapInv
<1> QED BY <1>3, <1>4, <1>9

\* The call at the top is taken, or goes back to the heap with what was set aside.
LEMMA PopsKeep ==
    ASSUME HeapInv, PopNotDue \/ PopNextTick \/ PopDue
    PROVE  /\ HeapInv'
           /\ \/ Elements(delayed) \subseteq Elements(delayed')
              \/ Elements(delayed') = Elements(delayed) \ {Top}
<1> delayed # <<>>
  BY DEF PopNotDue, PopNextTick, PopDue
<1>1. PICK h \in Seq(Calls) : /\ h = HeapPop(delayed) /\ IsHeap(h) /\ Apart(h)
                              /\ Elements(h) = Elements(delayed) \ {Top}
                              /\ HeapPop(delayedO) = Mirror(h)
  BY TopIs
<1>2. PICK c \in Seq(Calls) : /\ c = Append(aside, Top) /\ Unlike(h, c)
                              /\ Elements(c) = Elements(aside) \cup {Top}
                              /\ Append(asideO, Head(delayedO)) = Mirror(c)
  BY <1>1, SetAside
<1>3. Elements(h) \cup Elements(c) = Elements(delayed) \cup Elements(aside)
  BY <1>1, <1>2, TopIs
<1>4. CASE PopNotDue
  <2>1. Restore(h, Mirror(h), c, Mirror(c)) /\ lid' = lid
    BY <1>1, <1>2, <1>4 DEF PopNotDue
  <2> QED BY <2>1, <1>1, <1>2, <1>3, RestoreKeeps
<1>5. CASE PopNextTick
  <2>1. /\ delayed' = h /\ delayedO' = Mirror(h) /\ aside' = c /\ asideO' = Mirror(c)
        /\ did' = did /\ lid' = lid
    BY <1>1, <1>2, <1>5 DEF PopNextTick
  <2>2. HeapInv'
    BY <2>1, <1>1, <1>2, <1>3 DEF HeapInv
  <2> QED BY <2>1, <2>2, <1>1
<1>6. CASE PopDue
  <2>1. /\ delayed' = h /\ delayedO' = Mirror(h) /\ aside' = aside /\ asideO' = asideO
        /\ did' = did /\ lid' = lid
    BY <1>1, <1>6 DEF PopDue
  <2>2. Unlike(h, aside)
    BY <1>1 DEF HeapInv, Unlike
  <2>3. HeapInv'
    BY <2>1, <2>2, <1>1 DEF HeapInv
  <2> QED BY <2>1, <2>3, <1>1
<1> QED BY <1>4, <1>5, <1>6

\* It goes back too when the heap is empty.
LEMMA EndKeeps ==
    ASSUME HeapInv, End
    PROVE  HeapInv' /\ Elements(delayed) \subseteq Elements(delayed')
<1>1. PICK h \in Seq(Calls) : h = delayed /\ IsHeap(h) /\ delayedO = Mirror(h)
  BY DEF HeapInv
<1>2. PICK c \in Seq(Calls) : c = aside /\ Unlike(h, c) /\ asideO = Mirror(c)
  BY <1>1 DEF HeapInv
<1>3. Restore(h, Mirror(h), c, Mirror(c)) /\ lid' = lid
  BY <1>1, <1>2 DEF End
<1> QED BY <1>1, <1>2, <1>3, RestoreKeeps

\* Each step, and what it is of the queue.
LEMMA HeapStep ==
    ASSUME HeapInv, [HeapNext]_heapVars
    PROVE  HeapInv' /\ [Queue!Next]_(Elements(delayed))
<1>1. CASE \E c \in Callables, t \in Targets : Delay(c, t)
  <2>1. HeapInv' /\ Elements(delayed) \subseteq Elements(delayed')
    BY <1>1, DelayKeeps
  <2> QED BY <2>1 DEF Queue!Next, Queue!Insert
<1>2. CASE \E t \in Targets \cap Nat : Begin(t)
  <2>1. /\ delayed' = delayed /\ delayedO' = delayedO /\ aside' = aside
        /\ asideO' = asideO /\ did' = did /\ lid' \in {0, 1}
    BY <1>2 DEF Begin, HeapInv
  <2>2. HeapInv'
    BY <2>1 DEF HeapInv
  <2> QED BY <2>1, <2>2
<1>3. CASE PopNotDue \/ PopNextTick \/ PopDue
  <2>1. HeapInv' /\ \/ Elements(delayed) \subseteq Elements(delayed')
                    \/ Elements(delayed') = Elements(delayed) \ {Top}
    BY <1>3, PopsKeep
  <2>2. delayed # <<>>
    BY <1>3 DEF PopNotDue, PopNextTick, PopDue
  <2>3. Top \in Elements(delayed) /\ \A x \in Elements(delayed) : ~(x.target < Top.target)
    BY <2>2, TopIs
  <2> QED BY <2>1, <2>3 DEF Queue!Next, Queue!Insert, Queue!Take
<1>4. CASE End
  <2>1. HeapInv' /\ Elements(delayed) \subseteq Elements(delayed')
    BY <1>4, EndKeeps
  <2> QED BY <2>1 DEF Queue!Next, Queue!Insert
<1>5. CASE UNCHANGED heapVars
  BY <1>5 DEF heapVars, HeapInv
<1> QED BY <1>1, <1>2, <1>3, <1>4, <1>5 DEF HeapNext

\* The invariant holds more than what is claimed.
LEMMA HeapInvSafe == HeapInv => HeapSafety
<1> SUFFICES ASSUME HeapInv PROVE HeapSafety
  OBVIOUS
<1>1. InStep
  BY DEF HeapInv, InStep, Mirror
<1>2. PICK h \in Seq(Calls) : h = delayed /\ Apart(h)
  BY DEF HeapInv, Unlike
<1>3. PICK s \in Seq(Calls) : s = aside /\ Apart(s)
  BY DEF HeapInv, Unlike
<1>4. PICK n \in Nat, m \in Nat : /\ n = Len(h) /\ DOMAIN h = 1 .. n
                                  /\ m = Len(s) /\ DOMAIN s = 1 .. m
  OBVIOUS
<1>5. PICK all \in Seq(Calls) : all = h \o s
  BY ConcatProperties
<1>6. /\ Len(all) = n + m /\ DOMAIN all = 1 .. n + m
      /\ \A i \in 1 .. n + m : all[i] = IF i <= n THEN h[i] ELSE s[i - n]
  BY <1>4, <1>5, ConcatProperties
<1>7. ASSUME NEW i \in 1 .. n + m
      PROVE  \/ i \in 1 .. n /\ all[i] = h[i] /\ h[i] \in Elements(h)
             \/ i - n \in 1 .. m /\ all[i] = s[i - n] /\ s[i - n] \in Elements(s)
  <2>1. CASE i <= n
    <3>1. i \in 1 .. n
      BY <2>1
    <3> QED BY <2>1, <3>1, <1>4, <1>6 DEF Elements
  <2>2. CASE ~(i <= n)
    <3>1. i - n \in 1 .. m
      BY <2>2
    <3> QED BY <2>2, <3>1, <1>4, <1>6 DEF Elements
  <2> QED BY <2>1, <2>2
<1>8. ASSUME NEW i \in 1 .. n + m, NEW j \in 1 .. n + m, all[i].did = all[j].did PROVE i = j
  <2>1. \A x \in Elements(h), y \in Elements(s) : x.did # y.did
    BY <1>2, <1>3 DEF HeapInv, Unlike
  <2>2. CASE i \in 1 .. n /\ j \in 1 .. n /\ all[i] = h[i] /\ all[j] = h[j]
    BY <2>2, <1>2, <1>4, <1>8 DEF Apart
  <2>3. CASE /\ i - n \in 1 .. m /\ j - n \in 1 .. m
             /\ all[i] = s[i - n] /\ all[j] = s[j - n]
    <3>1. i - n = j - n
      BY <2>3, <1>3, <1>4, <1>8 DEF Apart
    <3> QED BY <3>1
  <2> QED BY <2>1, <2>2, <2>3, <1>7, <1>8
<1>9. ASSUME NEW i \in 1 .. n + m PROVE all[i].did < did
  BY <1>2, <1>3, <1>7 DEF HeapInv
<1>10. UniqueIds
  BY <1>2, <1>3, <1>5, <1>6, <1>8, <1>9 DEF UniqueIds
<1> QED BY <1>1, <1>10 DEF HeapSafety

(* However many calls there are, of whatever targets, and whatever they
   schedule: the two heaps of delay() and _delays() hold the same calls at the
   same places, and no two calls that are held have one identifier. *)
THEOREM HeapSafe == HeapInit /\ [][HeapNext]_heapVars => []HeapSafety
<1>1. HeapInv /\ [HeapNext]_heapVars => HeapInv'
  BY HeapStep
<1> QED BY <1>1, HeapInitInv, HeapInvSafe, PTL

(* And the heap, with the algorithm of heapq, implements the queue that the
   loop relies on: what is scheduled is held until it is taken, once, and what
   is taken is one of the earliest. *)
THEOREM HeapIsQueue == HeapInit /\ [][HeapNext]_heapVars => IsQueue
<1>1. HeapInit => Queue!Init
  BY NoCalls DEF HeapInit, Queue!Init
<1>2. HeapInv /\ [HeapNext]_heapVars => HeapInv' /\ [Queue!Next]_(Elements(delayed))
  BY HeapStep
<1> QED BY <1>1, <1>2, HeapInitInv, PTL DEF IsQueue, Queue!Spec
=============================================================================
