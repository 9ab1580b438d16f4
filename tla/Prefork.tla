------------------------------- MODULE Prefork -------------------------------
(***************************************************************************)
(* A server of several processes (base/common.py): the parent that forks   *)
(* the children, waits for signals, calls what the children ask of it by   *)
(* the pipe and SIGUSR1, and when it is told to stop tells them, joins     *)
(* them, and kills those that take too long.                               *)
(*                                                                         *)
(* A signal is pending once however many times it is sent, is dropped when *)
(* it is ignored, and its handler, of Python, runs between any two steps   *)
(* of the process: it may raise what the code there has to catch.          *)
(***************************************************************************)
EXTENDS Integers, FiniteSets

CONSTANTS
    Processes,     \* how many children are asked for: `children`
    MaxCommands    \* how many commands all of them send

ASSUME PreforkAssumption == Processes \in Nat \ {0} /\ MaxCommands \in Nat

Kids == 1 .. Processes

VARIABLES
    races,      \* if signals may come where their error is not caught, or
                \* before the parent counts as running
    master,     \* where the parent is in fork(), and what signals work on
    inbox,      \* the signals pending on the parent
    lines,      \* commands in the pipe
    commands,   \* commands sent so far
    kid         \* each child: where it is, if SIGTERM is pending, if killed

preforkVars == <<races, master, inbox, lines, commands, kid>>

Signals == {"TERM", "USR1", "ALRM"}
Stages == {"fork", "bind", "usr1", "enter", "test", "awake", "merge", "clear",
           "calls", "sleep", "unbind", "terminate", "timer", "wait", "kill",
           "after", "joined", "broken"}

\* stages of _wait_forever()
Waiting == {"test", "awake", "merge", "clear", "calls", "sleep"}

PreforkInit ==
    /\ races \in BOOLEAN
    /\ master = [at |-> "fork", forked |-> 0, running |-> FALSE,
                 awaken |-> "unset", delayed |-> 0, due |-> 0, next |-> 1,
                 stopped |-> FALSE]
    /\ inbox = {} /\ lines = 0 /\ commands = 0
    /\ kid = [k \in Kids |-> [at |-> "none", told |-> FALSE, killed |-> FALSE]]

\* the signals the parent has a handler for; the others it ignores
Bound ==
    (IF master.at \in Waiting \cup {"usr1", "enter", "unbind"} THEN {"TERM"} ELSE {})
    \cup (IF master.at \in {"fork", "bind", "usr1"} THEN {} ELSE {"USR1"})
    \cup (IF master.at \in {"timer", "wait", "kill", "after"} THEN {"ALRM"} ELSE {})

\* os.kill() on the parent
Signal(s) == inbox' = IF s \in Bound THEN inbox \cup {s} ELSE inbox

Go(stage) == master' = [master EXCEPT !.at = stage]

\* the signals are ignored, or handled, from now on
Rebind(stage) ==
    /\ Go(stage)
    /\ inbox' = inbox \ (CASE stage = "terminate" -> {"TERM"} [] OTHER -> {})

-----------------------------------------------------------------------------
(* The parent: fork().                                                     *)

\* os.fork(), for the next child
ForkChild ==
    /\ master.at = "fork" /\ master.forked < Processes
    /\ master' = [master EXCEPT !.forked = @ + 1]
    /\ kid' = [kid EXCEPT ![master.forked + 1].at = "born"]
    /\ UNCHANGED <<inbox, lines, commands>>

\* bind_signals(), the handler of SIGUSR1, and the start of the wait
Prepare ==
    /\ \/ master.at = "fork" /\ master.forked = Processes /\ Go("bind")
       \/ master.at = "bind" /\ Go("usr1")
       \/ master.at = "usr1" /\ Go("enter")
       \/ /\ master.at = "enter"
          /\ master' = [master EXCEPT !.at = "test", !.running = TRUE]
    /\ UNCHANGED <<inbox, lines, commands, kid>>

\* the turns of _wait_forever(), with the merge of delay_m() in them
WaitTest ==
    /\ master.at = "test"
    /\ Go(IF master.running THEN "awake" ELSE "unbind")

WaitAwake ==
    /\ master.at = "awake"
    /\ master' = [master EXCEPT !.at = "merge", !.awaken = "yes"]

MergeCalls ==
    /\ master.at = "merge"
    /\ master' = [master EXCEPT !.at = "clear", !.due = @ + master.delayed]

ClearCalls ==
    /\ master.at = "clear"
    /\ master' = [master EXCEPT !.at = "calls", !.delayed = 0]

DelaysDone ==
    /\ master.at = "calls" /\ master.due = 0
    /\ master' = [master EXCEPT !.at = "sleep", !.awaken = "no"]

\* sleep() ends by itself
SleepEnds == master.at = "sleep" /\ Go("test")

WaitForever ==
    /\ WaitTest \/ WaitAwake \/ MergeCalls \/ ClearCalls \/ DelaysDone \/ SleepEnds
    /\ UNCHANGED <<inbox, lines, commands, kid>>

\* callback(): readline() waits for a line if there is none
OnCommand ==
    /\ master.at = "calls" /\ master.due > 0 /\ lines > 0
    /\ master' = [master EXCEPT !.due = @ - 1]
    /\ lines' = lines - 1
    /\ UNCHANGED <<inbox, commands, kid>>

UnbindSignals ==
    /\ master.at = "unbind" /\ Rebind("terminate")
    /\ UNCHANGED <<lines, commands, kid>>

\* SIGTERM to each child: one that ignores it does not hear of it
Terminate ==
    /\ master.at = "terminate" /\ Go("timer")
    /\ kid' = [k \in Kids |-> IF kid[k].at \in {"run", "wrote"}
                              THEN [kid[k] EXCEPT !.told = TRUE] ELSE kid[k]]
    /\ UNCHANGED <<inbox, lines, commands>>

Reap(k) == kid' = [kid EXCEPT ![k].at = "reaped"]

\* setitimer(), for the next child, or on_join()
JoinNext ==
    /\ master.at \in {"timer", "after"} /\ "ALRM" \notin inbox
    /\ IF master.at = "timer" THEN Go("wait")
       ELSE IF master.next = Processes THEN Go("joined")
       ELSE master' = [master EXCEPT !.at = "timer", !.next = @ + 1]
    /\ UNCHANGED <<inbox, lines, commands, kid>>

\* waitpid() returns, and not as the timer goes off
Join ==
    /\ master.at \in {"wait", "kill"} /\ kid[master.next].at = "dead"
    /\ "ALRM" \in inbox => races
    /\ Reap(master.next) /\ Go("after")
    /\ UNCHANGED <<inbox, lines, commands>>

\* the timer goes off while the parent waits, or, if it just ended, after
AlarmRings ==
    /\ \/ master.at = "wait"
       \/ races /\ master.at = "after" /\ ~kid[master.next].killed
    /\ Signal("ALRM")
    /\ UNCHANGED <<master, lines, commands, kid>>

-----------------------------------------------------------------------------
(* The handlers.                                                           *)

\* handler(): stop(), which raises StopError if the parent runs
OnTerm ==
    /\ "TERM" \in inbox
    /\ master.running \/ races
    /\ inbox' = inbox \ {"TERM"}
    /\ IF master.running
       THEN master' = [master EXCEPT !.at = "unbind", !.running = FALSE,
                                     !.awaken = "unset", !.stopped = TRUE]
       ELSE UNCHANGED master
    /\ UNCHANGED <<lines, commands, kid>>

\* pipe_handler(): WakeupError is caught in a turn, and not between two
OnUsr1 ==
    /\ "USR1" \in inbox
    /\ master.at = "test" /\ master.awaken = "no" => races
    /\ inbox' = inbox \ {"USR1"}
    /\ master' =
           IF ~master.running THEN master
           ELSE IF master.awaken # "no"
           THEN [master EXCEPT !.delayed = @ + 1]
           ELSE [master EXCEPT !.delayed = @ + 1, !.awaken = "yes",
                               !.at = IF @ = "test" THEN "broken" ELSE "test"]
    /\ UNCHANGED <<lines, commands, kid>>

\* catcher(): the child is killed
OnAlarm ==
    /\ "ALRM" \in inbox
    /\ inbox' = inbox \ {"ALRM"}
    /\ IF master.at = "wait"
       THEN /\ Go("kill")
            /\ kid' = [kid EXCEPT ![master.next].at = "dead",
                                  ![master.next].killed = TRUE]
       ELSE Go("broken") /\ UNCHANGED kid
    /\ UNCHANGED <<lines, commands>>

-----------------------------------------------------------------------------
(* A child.                                                                *)

\* on_child(): until then SIGTERM is ignored
OnChild(k) ==
    /\ kid[k].at = "born"
    /\ kid' = [kid EXCEPT ![k].at = "run"]
    /\ UNCHANGED <<master, inbox, lines, commands>>

\* mutant of PipeWrite: the line is not in the pipe before the signal
PipeWriteLate(k) ==
    /\ kid[k].at = "run" /\ commands < MaxCommands
    /\ kid' = [kid EXCEPT ![k].at = "wrote"]
    /\ commands' = commands + 1
    /\ UNCHANGED <<master, inbox, lines>>

\* pipe_send(): the line, then the signal
PipeWrite(k) ==
    /\ kid[k].at = "run" /\ commands < MaxCommands
    /\ kid' = [kid EXCEPT ![k].at = "wrote"]
    /\ lines' = lines + 1 /\ commands' = commands + 1
    /\ UNCHANGED <<master, inbox>>

PipeSignal(k) ==
    /\ kid[k].at = "wrote"
    /\ kid' = [kid EXCEPT ![k].at = "run"]
    /\ Signal("USR1")
    /\ UNCHANGED <<master, lines, commands>>

\* SystemExit of SIGTERM: the loop ends, and is cleaned
ChildTerm(k) ==
    /\ kid[k].told /\ kid[k].at \in {"run", "wrote"}
    /\ kid' = [kid EXCEPT ![k].at = "ending"]
    /\ UNCHANGED <<master, inbox, lines, commands>>

\* it ends, and may have failed by itself
ChildExit(k) ==
    /\ kid[k].at \in {"run", "ending"}
    /\ kid' = [kid EXCEPT ![k].at = "dead"]
    /\ UNCHANGED <<master, inbox, lines, commands>>

\* the user stops the server
UserStops == Signal("TERM") /\ UNCHANGED <<master, lines, commands, kid>>

ParentStep ==
    ForkChild \/ Prepare \/ WaitForever \/ OnCommand \/ UnbindSignals
    \/ Terminate \/ JoinNext \/ Join

Handlers == OnTerm \/ OnUsr1 \/ OnAlarm

\* what goes on without the user and the children
ParentGoes == UNCHANGED races /\ (ParentStep \/ Handlers \/ AlarmRings)

PreforkNext ==
    \/ ParentGoes
    \/ /\ UNCHANGED races
       /\ \/ UserStops
          \/ \E k \in Kids : OnChild(k) \/ PipeWrite(k) \/ PipeSignal(k)
                             \/ ChildTerm(k) \/ ChildExit(k)

-----------------------------------------------------------------------------
(* Properties.                                                             *)

PreforkTypeOK ==
    /\ master.at \in Stages /\ master.forked \in 0 .. Processes
    /\ master.next \in Kids
    /\ inbox \subseteq Signals /\ lines \in Nat
    /\ \A k \in Kids : kid[k].at \in {"none", "born", "run", "wrote", "ending",
                                      "dead", "reaped"}

\* the calls that wait never are more than the lines they read: the parent
\* does not stop in readline(), where it would hear of no other command
NeverBlocks == master.at = "calls" => master.due <= lines

\* on_join() and the cleanup of the parent come when no child is left, not
\* even one it has not waited for
JoinedAll == master.at = "joined" => \A k \in Kids : kid[k].at = "reaped"

\* the timer of a child never ends the wait for the next one
OneAlarm == "ALRM" \in inbox => master.at \in {"wait", "after"}

\* the errors the handlers raise never leave fork(), unless they come in one
\* of two places: between two turns of the wait after a sleep that ended by
\* itself, and between two joins
Caught == master.at = "broken" => races

\* The parent of several processes is never left by an error it did not ask for,
\* nor before all its children (fork(), _wait_forever()).
PreforkSafety ==
    PreforkTypeOK /\ NeverBlocks /\ JoinedAll /\ OneAlarm /\ Caught

\* once stop() is heard the parent ends, with all its children, even those
\* that never hear of it
Stops == master.stopped /\ ~races
AllJoined == master.at = "joined"
StopJoins == Stops ~> AllJoined
=============================================================================
