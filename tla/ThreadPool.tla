----------------------------- MODULE ThreadPool -----------------------------
(***************************************************************************)
(* netius.pool: a queue of work under a condition variable, the threads    *)
(* that take from it, the list of events they leave for the loop with the  *)
(* event file that wakes its poll, and the start, use and stop of the pool *)
(* by the loop (pool/common.py, pool/file.py, pool/task.py, base/common.py). *)
(*                                                                         *)
(* What runs with the lock of the condition, or of the events, is one step. *)
(* stop() writes the flag of a thread without it, so the tests of the flag *)
(* and the write have steps of their own.                                  *)
(***************************************************************************)
EXTENDS Integers, Sequences, FiniteSets

CONSTANTS Count,      \* threads of the pool
          Works,      \* each is pushed once at most
          Nothing,
          Kinds,      \* "files": FilePool, that answers with events;
                      \* "tasks": TaskPool
          EventFiles, \* "unix" (eventfd), "pipe", "socket"
          ReadSize,   \* what one read takes of a pipe or socket
          Failing     \* the works that raise

ASSUME CountAssumption == Count \in Nat
ASSUME WorksAssumption == Failing \subseteq Works /\ Nothing \notin Works
ASSUME KindsAssumption == Kinds \subseteq {"files", "tasks"}
ASSUME EventFilesAssumption ==
    EventFiles \subseteq {"unix", "pipe", "socket"} /\ ReadSize \in Nat \ {0}

\* in the order they start
Threads == 1 .. Count

VARIABLES
    kind,      \* of the pool
    file,      \* which event file it has
    queue,     \* the works pushed and not popped
    run,       \* the flag `_run` of each thread
    pc,        \* where each thread is
    work,      \* the work each thread has popped
    events,    \* the works whose event waits for the loop
    counter,   \* the value of the event file, or the bytes in it
    count,     \* `_count` of a pipe or socket
    closed,    \* the event file is closed
    loop,      \* where the loop is
    turn,      \* the thread that start() or stop() is at
    batch,     \* the events files() took
    pushed, executed, answered,  \* history: the works, in order
    registered,  \* the loop reads the event file when its poll reports it
    early      \* history: stop() came while a thread was yet to run

threads == <<run, pc, work>>
owner == <<loop, turn, batch>>
history == <<pushed, executed, answered>>
chosen == <<kind, file, registered, early>>
poolVars ==
    <<chosen, queue, threads, events, counter, count, closed, owner, history>>

Files == kind = "files"

SetOf(seq) == {seq[i] : i \in DOMAIN seq}

PoolType ==
    /\ kind \in Kinds /\ file \in EventFiles /\ early \in BOOLEAN
    /\ registered \in BOOLEAN
    /\ queue \in Seq(Works)
    /\ run \in [Threads -> BOOLEAN]
    /\ pc \in [Threads -> {"new", "boot", "head", "tick", "wait", "execute",
                           "notify", "dead"}]
    /\ work \in [Threads -> Works \cup {Nothing}]
    /\ events \in Seq(Works) /\ counter \in Nat /\ count \in Nat
    /\ closed \in BOOLEAN
    /\ loop \in {"start", "files", "callbacks", "handlers", "poll",
                 "denotify", "stop", "wake", "join", "stopped"}
    /\ turn \in 1 .. Count + 1
    /\ batch \in Seq(Works)
    /\ pushed \in Seq(Works) /\ executed \in Seq(Works)
    /\ answered \in Seq(Works)

PoolInit ==
    /\ kind \in Kinds /\ file \in EventFiles /\ early = FALSE
    /\ registered = FALSE
    /\ queue = <<>>
    /\ run = [t \in Threads |-> FALSE]
    /\ pc = [t \in Threads |-> "new"]
    /\ work = [t \in Threads |-> Nothing]
    /\ events = <<>> /\ counter = 0 /\ count = 0 /\ closed = FALSE
    /\ loop = "start" /\ turn = 1 /\ batch = <<>>
    /\ pushed = <<>> /\ executed = <<>> /\ answered = <<>>

Move(t, from, to) == pc[t] = from /\ pc' = [pc EXCEPT ![t] = to]

-----------------------------------------------------------------------------
(* A thread: run(), tick(), execute().                                     *)

Boot(t) ==
    /\ Move(t, "boot", "head")
    /\ run' = [run EXCEPT ![t] = TRUE]
    /\ UNCHANGED <<queue, work, events, counter, count, closed, owner, history,
                   chosen>>

\* while self._run
While(t) ==
    /\ Move(t, "head", IF run[t] THEN "tick" ELSE "dead")
    /\ UNCHANGED <<queue, run, work, events, counter, count, closed, owner, history,
                   chosen>>

\* tick() takes the lock, first or after a notification: nothing to do
Wait(t) ==
    /\ queue = <<>> /\ run[t]
    /\ Move(t, "tick", "wait")
    /\ UNCHANGED <<queue, run, work, events, counter, count, closed, owner, history,
                   chosen>>

\* it returns, whatever the queue holds
Leave(t) ==
    /\ ~run[t]
    /\ Move(t, "tick", "head")
    /\ UNCHANGED <<queue, run, work, events, counter, count, closed, owner, history,
                   chosen>>

Pop(t) ==
    /\ queue # <<>> /\ run[t]
    /\ Move(t, "tick", "execute")
    /\ work' = [work EXCEPT ![t] = Head(queue)]
    /\ queue' = Tail(queue)
    /\ UNCHANGED <<run, events, counter, count, closed, owner, history, chosen>>

Done(t) ==
    /\ executed' = Append(executed, work[t])
    /\ work' = [work EXCEPT ![t] = Nothing]

\* execute() of a FileThread: it ends with an event, of an error if it raises
ExecuteFile(t) ==
    /\ Files
    /\ Move(t, "execute", "notify")
    /\ events' = Append(events, work[t])
    /\ Done(t)
    /\ UNCHANGED <<queue, run, counter, count, closed, owner, pushed, answered,
                   chosen>>

\* notify() of an eventfd, that is nothing once it is closed, and of a pipe or
\* socket, that counts what it writes
FileWritten == counter' = IF closed THEN counter ELSE counter + 1
UnixNotify == FileWritten /\ UNCHANGED count
PipeNotify == FileWritten /\ count' = count + 1
SocketNotify == FileWritten /\ count' = count + 1

\* notify() of the event file, once the event is in
Notify(t) ==
    /\ Move(t, "notify", "head")
    /\ \/ file = "unix" /\ UnixNotify
       \/ file = "pipe" /\ PipeNotify
       \/ file = "socket" /\ SocketNotify
    /\ UNCHANGED <<queue, run, work, events, closed, owner, history, chosen>>

\* execute() of a TaskThread: what raises ends the thread
ExecuteTask(t) ==
    /\ ~Files
    /\ Move(t, "execute", IF work[t] \in Failing THEN "dead" ELSE "head")
    /\ Done(t)
    /\ UNCHANGED <<queue, run, events, counter, count, closed, owner, pushed,
                   answered, chosen>>

ThreadStep(t) ==
    \/ Boot(t) \/ While(t) \/ Wait(t) \/ Leave(t) \/ Pop(t)
    \/ ExecuteFile(t) \/ Notify(t) \/ ExecuteTask(t)

-----------------------------------------------------------------------------
(* The loop: start(), pushes, the events, stop().                          *)

Waiting == {t \in Threads : pc[t] = "wait"}

\* notify() of the condition wakes one of those that wait
NotifyOne ==
    IF Waiting = {} THEN UNCHANGED pc
    ELSE \E t \in Waiting : pc' = [pc EXCEPT ![t] = "tick"]

\* mutant of NotifyAll: stop() wakes one thread
NotifyFirst == NotifyOne

NotifyAll == pc' = [t \in Threads |-> IF t \in Waiting THEN "tick" ELSE pc[t]]

\* the poll is asked for the event file, and no more
Pregister == registered' = TRUE
Punregister == registered' = FALSE

Start ==
    /\ loop = "start"
    /\ IF turn \in Threads
       THEN /\ Move(turn, "new", "boot") /\ turn' = turn + 1
            /\ UNCHANGED <<loop, registered>>
       ELSE loop' = "files" /\ Pregister /\ UNCHANGED <<pc, turn>>
    /\ UNCHANGED <<queue, run, work, events, counter, count, closed, batch, history,
                   kind, file, early>>

\* files() takes the events at the start of a tick
TakeEvents ==
    /\ loop = "files"
    /\ IF Files THEN batch' = events /\ events' = <<>>
                ELSE UNCHANGED <<batch, events>>
    /\ loop' = "callbacks"
    /\ UNCHANGED <<queue, threads, counter, count, closed, turn, history, chosen>>

CallEvents ==
    /\ loop = "callbacks"
    /\ IF batch = <<>>
       THEN loop' = "handlers" /\ UNCHANGED <<batch, answered>>
       ELSE /\ answered' = Append(answered, Head(batch))
            /\ batch' = Tail(batch) /\ UNCHANGED loop
    /\ UNCHANGED <<queue, threads, events, counter, count, closed, turn, pushed,
                   executed, chosen>>

\* push(), from a callback or handler of the loop
Push(w) ==
    /\ loop \in {"callbacks", "handlers"}
    /\ w \notin SetOf(pushed)
    /\ queue' = Append(queue, w) /\ pushed' = Append(pushed, w)
    /\ NotifyOne
    /\ UNCHANGED <<run, work, events, counter, count, closed, owner, executed,
                   answered, chosen>>

\* mutant of EnterPoll: the event file is read before the poll
EnterPollRead ==
    /\ loop = "handlers" /\ loop' = "poll"
    /\ counter' = 0 /\ count' = 0
    /\ UNCHANGED <<queue, threads, events, closed, turn, batch, history,
                   chosen>>

\* the loop goes to its poll, which returns on the event file or after a time
EnterPoll ==
    /\ loop = "handlers" /\ loop' = "poll"
    /\ UNCHANGED <<queue, threads, events, counter, count, closed, turn, batch,
                   history, chosen>>

LeavePoll ==
    /\ loop = "poll"
    /\ loop' = (IF registered /\ counter > 0 THEN "denotify" ELSE "files")
    /\ UNCHANGED <<queue, threads, events, counter, count, closed, turn, batch,
                   history, chosen>>

\* one read of an eventfd takes all of its value, and one of a pipe or socket
\* some of the bytes, that is not tried when none is counted
UnixDenotify == counter' = 0 /\ UNCHANGED count
ReadBytes == IF counter < ReadSize THEN counter ELSE ReadSize
PipeDenotify == counter' = counter - ReadBytes /\ count' = count - ReadBytes
SocketDenotify ==
    IF count = 0 THEN UNCHANGED <<counter, count>>
    ELSE counter' = counter - ReadBytes /\ count' = count - ReadBytes

\* pcallback()
Denotify ==
    /\ loop = "denotify" /\ loop' = "files"
    /\ \/ file = "unix" /\ UnixDenotify
       \/ file = "pipe" /\ PipeDenotify
       \/ file = "socket" /\ SocketDenotify
    /\ UNCHANGED <<queue, threads, events, closed, turn, batch, history,
                   chosen>>

Running == \A t \in Threads : pc[t] \notin {"new", "boot"}

\* stop(): the flags one by one, without the lock; then wake all, join each
Stop ==
    /\ loop = "handlers"
    /\ Punregister
    /\ loop' = "stop" /\ turn' = 1 /\ early' = ~Running
    /\ UNCHANGED <<queue, threads, events, counter, count, closed, batch, history,
                   kind, file>>

StopThread ==
    /\ loop = "stop"
    /\ IF turn \in Threads
       THEN /\ run' = [run EXCEPT ![turn] = FALSE]
            /\ turn' = turn + 1 /\ UNCHANGED loop
       ELSE loop' = "wake" /\ turn' = 1 /\ UNCHANGED run
    /\ UNCHANGED <<queue, pc, work, events, counter, count, closed, batch, history,
                   chosen>>

StopWake ==
    /\ loop = "wake" /\ loop' = "join"
    /\ NotifyAll
    /\ UNCHANGED <<queue, run, work, events, counter, count, closed, turn, batch,
                   history, chosen>>

Join ==
    /\ loop = "join"
    /\ IF turn \in Threads
       THEN pc[turn] = "dead" /\ turn' = turn + 1 /\ UNCHANGED <<loop, closed>>
       ELSE loop' = "stopped" /\ closed' = TRUE /\ UNCHANGED turn
    /\ UNCHANGED <<queue, threads, events, counter, count, batch, history, chosen>>

OwnerStep ==
    \/ Start \/ TakeEvents \/ CallEvents \/ EnterPoll \/ LeavePoll \/ Denotify
    \/ StopThread \/ StopWake \/ Join

PoolNext ==
    \/ \E t \in Threads : ThreadStep(t)
    \/ OwnerStep \/ Stop
    \/ \E w \in Works : Push(w)

PoolSpec == PoolInit /\ [][PoolNext]_poolVars

\* the scheduler runs every thread; whoever uses the pool need not push or stop
PoolFairness ==
    /\ \A t \in Threads : WF_poolVars(ThreadStep(t))
    /\ WF_poolVars(OwnerStep)

-----------------------------------------------------------------------------
(* Properties.                                                             *)

Stopping == loop \in {"stop", "wake", "join", "stopped"}
Positions(w, seq) == {i \in DOMAIN seq : seq[i] = w}

\* A work is in one place: the queue, one thread, or done, and each is executed
\* and answered once at most, whatever threads wake together (push(), tick()).
InOnePlace ==
    \A w \in Works :
        Cardinality(Positions(w, queue))
        + Cardinality({t \in Threads : work[t] = w})
        + Cardinality(Positions(w, executed))
        = Cardinality(Positions(w, pushed))

\* Works are taken in the order they were pushed: nothing that waits in the
\* queue is older than something a thread took (push(), pop()).
TakenInOrder ==
    \A i, j \in DOMAIN pushed :
        i < j /\ pushed[i] \in SetOf(queue) => pushed[j] \in SetOf(queue)

\* No wake-up is lost: while threads wait, at least as many others are on
\* their way to the queue as works are in it (notify() of push(), wait() of
\* tick(), and the flags of stop(), which it writes before it wakes all).
Ticking == {t \in Threads : pc[t] = "tick"}
NoLostWakeup ==
    Waiting # {} /\ ~Stopping =>
        Len(queue) <= Cardinality(Ticking)

\* The loop never sleeps in its poll on an event: the event file says so, or
\* the thread that left the event is about to (push_event(), files(),
\* pcallback()).
PollKnows ==
    loop = "poll" /\ events # <<>> =>
        registered /\ (counter > 0 \/ \E t \in Threads : pc[t] = "notify")

\* What is counted is what the file holds, else the bytes of a socket are never
\* read and its poll never sleeps again (notify(), denotify()).
Counted == file # "unix" /\ ~closed => count = counter

\* Every work pushed is executed and answered, or the pool is stopped.
EventuallyAnswered ==
    \A w \in Works :
        w \in SetOf(pushed) ~> w \in SetOf(IF Files THEN answered ELSE executed)
                               \/ Stopping

\* A stop() that joins ends, if every thread runs by then: fstop() and tstop()
\* call it at the end of the loop (a thread that is yet to run sets its flag
\* after stop() has cleared it, and is joined for ever).
StopEnds == loop = "stop" /\ ~early ~> loop = "stopped"

\* What is asked of the pool comes to an end, the pool itself included.
PoolEnds == EventuallyAnswered /\ StopEnds

\* Works and wake-ups are lost nowhere between the threads and the loop.
PoolSafety ==
    PoolType /\ InOnePlace /\ TakenInOrder /\ NoLostWakeup /\ PollKnows /\ Counted
=============================================================================
