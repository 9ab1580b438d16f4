-------------------------------- MODULE Poll --------------------------------
(***************************************************************************)
(* The polls of netius.base.poll behind one interface: the tables of who   *)
(* owns the events of a socket, the tables from descriptors to sockets,    *)
(* and what the kernel is asked to report.  The users are the connections, *)
(* which subscribe when they open, add and remove the writes, disable and  *)
(* enable the reads, upgrade to another socket on the same descriptor, and *)
(* unsubscribe from all when they close.                                   *)
(***************************************************************************)
EXTENDS Integers, FiniteSets

CONSTANTS Sockets, Fds,
          None,
          Backends,  \* "epoll", "kqueue", "poll", "select"
          Disables   \* those with which disable_read() is called

ASSUME BackendsAssumption ==
    Backends \subseteq {"epoll", "kqueue", "poll", "select"} /\ Disables \subseteq Backends
ASSUME NamesAssumption == None \notin Sockets \cup Fds

VARIABLES
    backend,             \* the poll of the loop, one for its life
    life,                \* of each socket
    fd,                  \* its descriptor
    readO, writeO, errorO,  \* `read_o`, `write_o`, `error_o`: the sockets in them
    readFd, writeFd,     \* `read_fd` and `write_fd`; `fd_m` of the others is readFd
    asked,               \* the descriptors the kernel knows
    mask,                \* what it reports of each, besides errors
    raised,              \* a call of the kernel failed, or an owner is not found
    opened               \* `_open`

owners == <<readO, writeO, errorO>>
fds == <<readFd, writeFd>>
kernel == <<asked, mask, raised>>
poll == <<owners, fds, kernel, opened>>
pollVars == <<backend, life, fd, poll>>

Masks == {"in", "out"}

PollType ==
    /\ backend \in Backends
    /\ life \in [Sockets -> {"new", "open", "closed"}]
    /\ fd \in [Sockets -> Fds \cup {None}]
    /\ readO \subseteq Sockets /\ writeO \subseteq Sockets
    /\ errorO \subseteq Sockets
    /\ readFd \in [Fds -> Sockets \cup {None}]
    /\ writeFd \in [Fds -> Sockets \cup {None}]
    /\ asked \subseteq Fds /\ mask \in [Fds -> SUBSET Masks]
    /\ raised \in BOOLEAN /\ opened \in BOOLEAN

PollInit ==
    /\ backend \in Backends
    /\ life = [s \in Sockets |-> "new"] /\ fd = [s \in Sockets |-> None]
    /\ readO = {} /\ writeO = {} /\ errorO = {}
    /\ readFd = [f \in Fds |-> None] /\ writeFd = [f \in Fds |-> None]
    /\ asked = {} /\ mask = [f \in Fds |-> {}]
    /\ raised = FALSE /\ opened = FALSE

Select == backend = "select"
Kqueue == backend = "kqueue"
\* those that ask for all when the reads are subscribed
Edge == backend \in {"epoll", "kqueue"}

-----------------------------------------------------------------------------
(* The interface, as functions of the state of the poll: an operation of a *)
(* user is made of several.  f is the descriptor of socket s.              *)

State == [read |-> readO, write |-> writeO, error |-> errorO,
          readFd |-> readFd, writeFd |-> writeFd,
          asked |-> asked, mask |-> mask, raised |-> raised]

\* register() of a known descriptor and modify() and unregister() of an
\* unknown one raise
Register(p, f, kinds) ==
    [p EXCEPT !.asked = @ \cup {f}, !.mask[f] = kinds,
              !.raised = @ \/ f \in p.asked]
Modify(p, f, kinds) ==
    [p EXCEPT !.mask[f] = kinds, !.raised = @ \/ f \notin p.asked]
Unregister(p, f) ==
    [p EXCEPT !.asked = @ \ {f}, !.mask[f] = {},
              !.raised = @ \/ f \notin p.asked]

\* kqueue has a filter for each kind: one that is there is added again, and
\* one that is not there is not deleted
AddFilters(p, f, kinds) ==
    [p EXCEPT !.asked = @ \cup {f}, !.mask[f] = @ \cup kinds]
DeleteFilters(p, f, kinds) ==
    [p EXCEPT !.asked = IF p.mask[f] \subseteq kinds THEN @ \ {f} ELSE @,
              !.mask[f] = @ \ kinds,
              !.raised = @ \/ ~(kinds \subseteq p.mask[f])]

\* the owner of the reads is that of the writes and of the errors
OwnAll(p, s, f) ==
    [p EXCEPT !.read = @ \cup {s}, !.write = @ \cup {s}, !.error = @ \cup {s},
              !.readFd[f] = s]

EpollSubRead(p, s, f) == Register(OwnAll(p, s, f), f, Masks)
KqueueSubRead(p, s, f) == AddFilters(OwnAll(p, s, f), f, Masks)
PollSubRead(p, s, f) ==
    Register([p EXCEPT !.read = @ \cup {s}, !.readFd[f] = s], f, {"in"})

SubRead(p, s, f) ==
    CASE s \in p.read -> p
      [] s \notin p.read /\ backend = "epoll" -> EpollSubRead(p, s, f)
      [] s \notin p.read /\ Kqueue -> KqueueSubRead(p, s, f)
      [] s \notin p.read /\ Select -> [p EXCEPT !.read = @ \cup {s}]
      [] OTHER -> PollSubRead(p, s, f)

PollSubWrite(p, s, f) ==
    Modify([p EXCEPT !.write = @ \cup {s}, !.writeFd[f] = s], f, Masks)

\* nothing with epoll and kqueue
SubWrite(p, s, f) ==
    CASE s \in p.write \/ Edge -> p
      [] s \notin p.write /\ Select -> [p EXCEPT !.write = @ \cup {s}]
      [] OTHER -> PollSubWrite(p, s, f)

SubError(p, s) ==
    IF Edge THEN p ELSE [p EXCEPT !.error = @ \cup {s}]

DisownAll(p, s, f) ==
    [p EXCEPT !.read = @ \ {s}, !.write = @ \ {s}, !.error = @ \ {s},
              !.readFd[f] = None]

EpollUnsubRead(p, s, f) == Unregister(DisownAll(p, s, f), f)
KqueueUnsubRead(p, s, f) == DeleteFilters(DisownAll(p, s, f), f, Masks)

PollUnsubRead(p, s, f) ==
    Unregister([p EXCEPT !.read = @ \ {s}, !.readFd[f] = None], f)

UnsubRead(p, s, f) ==
    CASE s \notin p.read -> p
      [] s \in p.read /\ backend = "epoll" -> EpollUnsubRead(p, s, f)
      [] s \in p.read /\ Kqueue -> KqueueUnsubRead(p, s, f)
      [] s \in p.read /\ Select -> [p EXCEPT !.read = @ \ {s}]
      [] OTHER -> PollUnsubRead(p, s, f)

PollUnsubWrite(p, s, f) ==
    Modify([p EXCEPT !.write = @ \ {s}, !.writeFd[f] = None], f, {"in"})

UnsubWrite(p, s, f) ==
    CASE s \notin p.write \/ Edge -> p
      [] s \in p.write /\ Select -> [p EXCEPT !.write = @ \ {s}]
      [] OTHER -> PollUnsubWrite(p, s, f)

UnsubError(p, s) ==
    IF Edge THEN p ELSE [p EXCEPT !.error = @ \ {s}]

\* mutant of UnsubAll: the reads go before the writes
UnsubAllReadFirst(p, s, f) ==
    UnsubWrite(UnsubRead(UnsubError(p, s), s, f), s, f)

UnsubAll(p, s, f) ==
    UnsubRead(UnsubWrite(UnsubError(p, s), s, f), s, f)

\* close() empties the tables; epoll and poll let go of what they know
Cleared(p) ==
    [read |-> {}, write |-> {}, error |-> {},
     readFd |-> [f \in Fds |-> None], writeFd |-> [f \in Fds |-> None],
     asked |-> {}, mask |-> [f \in Fds |-> {}], raised |-> p.raised]
UnregisterAll(p) ==
    [p EXCEPT !.raised = @ \/ \E f \in Fds : p.readFd[f] # None /\ f \notin p.asked]

Becomes(p) ==
    /\ readO' = p.read /\ writeO' = p.write /\ errorO' = p.error
    /\ readFd' = p.readFd /\ writeFd' = p.writeFd
    /\ asked' = p.asked /\ mask' = p.mask /\ raised' = p.raised

-----------------------------------------------------------------------------
(* The users.  What raises is the end: the operation is left half-way.     *)

\* Base.start() and cleanup(), that closes the connections before the poll
OpenPoll ==
    /\ ~raised /\ ~opened /\ opened' = TRUE
    /\ Becomes(Cleared(State))
    /\ UNCHANGED <<backend, life, fd>>

ClosePoll ==
    /\ ~raised /\ opened /\ opened' = FALSE
    /\ \A s \in Sockets : life[s] # "open"
    /\ Becomes(Cleared(IF Select \/ Kqueue THEN State ELSE UnregisterAll(State)))
    /\ UNCHANGED <<backend, life, fd>>

Free(f) == \A s \in Sockets : fd[s] # f
Lives(s) == ~raised /\ life[s] = "open"

\* open(): a descriptor that was closed is given again
Open(s, f) ==
    /\ ~raised /\ opened /\ life[s] = "new" /\ Free(f)
    /\ life' = [life EXCEPT ![s] = "open"] /\ fd' = [fd EXCEPT ![s] = f]
    /\ Becomes(SubError(SubRead(State, s, f), s))
    /\ UNCHANGED <<backend, opened>>

\* ensure_write()
EnsureWrite(s) ==
    /\ Lives(s) /\ s \notin writeO
    /\ Becomes(SubWrite(State, s, fd[s]))
    /\ UNCHANGED <<backend, life, fd, opened>>

\* remove_write()
RemoveWrite(s) ==
    /\ Lives(s) /\ s \in writeO
    /\ Becomes(UnsubWrite(State, s, fd[s]))
    /\ UNCHANGED <<backend, life, fd, opened>>

DisableRead(s) ==
    /\ backend \in Disables /\ Lives(s) /\ s \in readO
    /\ Becomes(UnsubRead(State, s, fd[s]))
    /\ UNCHANGED <<backend, life, fd, opened>>

EnableRead(s) ==
    /\ Lives(s) /\ s \notin readO
    /\ Becomes(SubRead(State, s, fd[s]))
    /\ UNCHANGED <<backend, life, fd, opened>>

\* upgrade(): another socket takes the descriptor
Upgrade(s, t) ==
    /\ Lives(s) /\ life[t] = "new"
    /\ life' = [life EXCEPT ![s] = "closed", ![t] = "open"]
    /\ fd' = [fd EXCEPT ![s] = None, ![t] = fd[s]]
    /\ LET without == UnsubAll(State, s, fd[s])
       IN  Becomes(SubError(SubRead(without, t, fd[s]), t))
    /\ UNCHANGED <<backend, opened>>

Close(s) ==
    /\ Lives(s)
    /\ life' = [life EXCEPT ![s] = "closed"] /\ fd' = [fd EXCEPT ![s] = None]
    /\ Becomes(UnsubAll(State, s, fd[s]))
    /\ UNCHANGED <<backend, opened>>

-----------------------------------------------------------------------------
(* What poll() answers, and the owners poll_owner() takes of it.           *)

\* what the kernel reports of the descriptors it knows: errors, the kinds it
\* is asked for, and with kqueue the end of the stream of either
Events ==
    {e \in [fd : asked, filter : Masks \cup {"error"}, eof : BOOLEAN] :
        /\ e.filter \in mask[e.fd] \cup {"error"}
        /\ e.eof => Kqueue /\ e.filter # "error"}

List == [in |-> "read", out |-> "write", error |-> "error"]

EpollAnswer(e) == <<List[e.filter], readFd[e.fd]>>
KqueueAnswer(e) == <<IF e.eof THEN "error" ELSE List[e.filter], readFd[e.fd]>>
PollAnswer(e) ==
    <<List[e.filter], IF e.filter = "out" THEN writeFd[e.fd] ELSE readFd[e.fd]>>

\* the lists of select are the sockets in the tables
SelectAnswers ==
    ({"read"} \X readO) \cup ({"write"} \X writeO) \cup ({"error"} \X errorO)

Answers ==
    CASE backend = "epoll" -> {EpollAnswer(e) : e \in Events}
      [] backend = "kqueue" -> {KqueueAnswer(e) : e \in Events}
      [] backend = "poll" -> {PollAnswer(e) : e \in Events}
      [] OTHER -> SelectAnswers

Owners == [read |-> readO, write |-> writeO, error |-> errorO]

\* a descriptor without a socket is left out, and a socket without an owner
\* raises
PollOwner ==
    /\ ~raised /\ opened
    /\ \E a \in Answers : a[2] # None /\ raised' = (a[2] \notin Owners[a[1]])
    /\ UNCHANGED <<backend, life, fd, owners, fds, asked, mask, opened>>

PollNext ==
    \/ OpenPoll \/ ClosePoll \/ PollOwner
    \/ \E s \in Sockets :
          \/ \E f \in Fds : Open(s, f)
          \/ EnsureWrite(s) \/ RemoveWrite(s)
          \/ DisableRead(s) \/ EnableRead(s)
          \/ \E t \in Sockets : Upgrade(s, t)
          \/ Close(s)

PollSpec == PollInit /\ [][PollNext]_pollVars

-----------------------------------------------------------------------------
(* Properties.                                                             *)

\* Whoever is subscribed is told: the kernel is asked, and the answer finds the
\* socket (sub_read(), sub_write(), poll() of each poll).
Reported ==
    \A s \in Sockets :
        life[s] = "open" /\ ~Select =>
            /\ s \in readO => /\ fd[s] \in asked /\ "in" \in mask[fd[s]]
                              /\ readFd[fd[s]] = s
            /\ s \in writeO => /\ fd[s] \in asked /\ "out" \in mask[fd[s]]
                               /\ (IF Edge THEN readFd ELSE writeFd)[fd[s]] = s

\* What the kernel reports belongs to a socket that lives on that descriptor
\* and has an owner for it, over closed, reused and upgraded descriptors; else
\* poll_owner() raises, or calls the wrong connection.  And what is closed is in
\* no table, that would keep it for ever.
Owned ==
    /\ \A f \in asked :
          \E s \in Sockets :
              /\ life[s] = "open" /\ fd[s] = f
              /\ readFd[f] = s /\ s \in readO /\ s \in errorO
              /\ "out" \in mask[f] => s \in writeO
    /\ \A s \in Sockets :
          life[s] = "closed" /\ ~raised =>
              /\ s \notin readO \cup writeO \cup errorO
              /\ \A f \in Fds : readFd[f] # s /\ writeFd[f] # s

\* No operation of a user is left half-way (unsub_write(), unsub_all()).
NeverRaises == ~raised

\* The tables of the poll, of the kernel and of the sockets agree.
PollSafety == PollType /\ Reported /\ Owned /\ NeverRaises
=============================================================================
