------------------------------- MODULE Compat -------------------------------
(***************************************************************************)
(* The opening and the end of what a protocol of netius.base.protocol      *)
(* speaks over: connect_stream(), build_datagram() and serve_stream() of    *)
(* base/compat.py, with the native loop or as a task of CompatLoop, and a  *)
(* coroutine that awaits create_connection(), create_datagram_endpoint()   *)
(* or create_server() and may be cancelled.  Each step of it waits in the     *)
(* queue of the loop while the user closes, cancels, or the peer goes:     *)
(*   "start"    on_ready(), or the first step of the coroutine             *)
(*   "ready"    on_complete() of a datagram or of a service                *)
(*   "child"    the callbacks of the future the coroutine waits for        *)
(*   "cancel"   the callbacks of the coroutine's own future, cancelled     *)
(*   "done"     the callbacks of that future, done                         *)
(*   "lost"     connection_lost() of the protocol                          *)
(*   "finish"   finish() of the protocol                                   *)
(* The modules DelayHeap and Connector say in what order the loop calls,   *)
(* and how a connect goes: any order, and any outcome, is allowed here.    *)
(***************************************************************************)
EXTENDS Naturals, FiniteSets

CONSTANTS AtOnce   \* a connect may be over in the call that begins it

ASSUME AtOnceAssumption == AtOnce \in BOOLEAN

VARIABLES
    way,         \* "native", "task" (the functions in the compat mode),
                 \* "await" (a coroutine of the user)
    medium,      \* "stream", "datagram", "service"
    state,       \* of the protocol: _open, _closing, _closed
    looped,      \* the protocol has its `_loop`
    transport,   \* of the protocol: "none", "live", "dead" (no connection)
    socket,      \* "none", "connecting", "open", "flushing", "closed",
                 \* "idle" (a service that is not bound yet),
                 \* "unbound" (the bind of a service failed)
    jobs,        \* what waits in the loop
    child,       \* the future of create_connection(): "none", "running",
                 \* "done", "failed", "cancelled"
    future,      \* the future of the coroutine, the same
    told,        \* how often the user was given transport and protocol
    made, gone,  \* calls of connection_made() and connection_lost()
    left         \* the user closed the protocol

compatVars == <<way, medium, state, looped, transport, socket, jobs, child,
                future, told, made, gone, left>>

Jobs == {"start", "ready", "child", "cancel", "done", "lost", "finish"}
Futures == {"none", "running", "done", "failed", "cancelled"}

CompatTypeOK ==
    /\ way \in {"native", "task", "await"}
    /\ medium \in {"stream", "datagram", "service"}
    /\ state \in {"pending", "open", "closing", "closed"}
    /\ looped \in BOOLEAN /\ left \in BOOLEAN
    /\ transport \in {"none", "live", "dead"}
    /\ socket \in {"none", "connecting", "open", "flushing", "closed", "idle",
                  "unbound"}
    /\ jobs \subseteq Jobs
    /\ child \in Futures /\ future \in Futures
    /\ told \in Nat /\ made \in Nat /\ gone \in Nat

\* The call itself: a function builds the protocol, that is given the loop, and
\* delays on_ready() or makes a task of a coroutine, that has a future.
Built(kind, asTask) ==
    /\ medium = kind /\ looped = TRUE
    /\ way = IF asTask THEN "task" ELSE "native"
    /\ future = IF asTask THEN "running" ELSE "none"

ConnectStreamNative == Built("stream", FALSE)
ConnectStreamCompat == Built("stream", TRUE)
BuildDatagramNative == Built("datagram", FALSE)
BuildDatagramCompat == Built("datagram", TRUE)
ServeStreamNative == Built("service", FALSE)
ServeStreamCompat == Built("service", TRUE)

\* a coroutine of the user
Awaits ==
    /\ medium \in {"stream", "datagram", "service"} /\ looped = FALSE
    /\ way = "await" /\ future = "running"

CompatInit ==
    /\ \/ ConnectStreamNative \/ ConnectStreamCompat
       \/ BuildDatagramNative \/ BuildDatagramCompat
       \/ ServeStreamNative \/ ServeStreamCompat
       \/ Awaits
    /\ state = "pending" /\ left = FALSE
    /\ transport = "none" /\ socket = "none"
    /\ jobs = {"start"} /\ child = "none"
    /\ told = 0 /\ made = 0 /\ gone = 0

Does(job) == job \in jobs
Shut == state \in {"closing", "closed"}

-----------------------------------------------------------------------------
(* The protocol and its transport.                                         *)

\* finish(): what delay() calls at once when the protocol has no loop
Finishes ==
    /\ state' = "closed" /\ transport' = "none" /\ looped' = FALSE

\* close() of the protocol, with `others` in the queue: it aborts the
\* transport, whose connection closes and has connection_lost() to come
Closes(others) ==
    LET aborts == transport = "live" /\ socket = "open"
        after == others \cup (IF aborts THEN {"lost"} ELSE {})
    IN  IF Shut THEN /\ jobs' = others
                     /\ UNCHANGED <<state, looped, transport, socket>>
        ELSE /\ socket' = IF aborts THEN "closed" ELSE socket
             /\ IF looped
                THEN /\ state' = "closing" /\ jobs' = after \cup {"finish"}
                     /\ transport' = IF aborts THEN "dead" ELSE transport
                     /\ UNCHANGED looped
                ELSE Finishes /\ jobs' = after

UserCloses ==
    /\ ~Shut /\ (way = "await" => made > 0)
    /\ left' = TRUE /\ Closes(jobs)
    /\ UNCHANGED <<way, medium, child, future, told, made, gone>>

\* close() of the transport: the connection closes once all is sent
TransportClose ==
    /\ state = "open" /\ transport = "live" /\ socket = "open"
    /\ socket' = "flushing" /\ transport' = "dead"
    /\ UNCHANGED <<way, medium, state, looped, jobs, child, future, told, made,
                   gone, left>>

\* the connection ends below: all is sent, the peer leaves, or it fails
SocketEnds ==
    /\ medium # "service" /\ socket \in {"open", "flushing"} /\ made > 0
    /\ socket' = "closed" /\ jobs' = jobs \cup {"lost"}
    /\ transport' = IF transport = "live" THEN "dead" ELSE transport
    /\ UNCHANGED <<way, medium, state, looped, child, future, told, made, gone,
                   left>>

\* _call_connection_lost(): connection_lost() closes the protocol
CallLost ==
    /\ Does("lost")
    /\ gone' = gone + 1 /\ Closes(jobs \ {"lost"})
    /\ UNCHANGED <<way, medium, child, future, told, made, left>>

\* finish(): not if the protocol was opened again meanwhile
Finish ==
    /\ Does("finish")
    /\ jobs' = jobs \ {"finish"}
    /\ IF state = "closing" THEN Finishes
                            ELSE UNCHANGED <<state, looped, transport>>
    /\ UNCHANGED <<way, medium, socket, child, future, told, made, gone, left>>

-----------------------------------------------------------------------------
(* The opening.                                                            *)

\* connect() and datagram() of the loop, and serve()
Begin ==
    /\ socket' = CASE medium = "stream" -> "connecting"
                   [] medium = "datagram" -> "open"
                   [] OTHER -> socket
    /\ jobs' = (jobs \ {"start"})
               \cup (IF medium = "stream" THEN {} ELSE {"ready"})
    /\ child' = IF way = "native" THEN child ELSE "running"

\* on_ready(), or the first step of the coroutine, none if it was cancelled
Start ==
    /\ Does("start")
    /\ IF future = "cancelled"
       THEN jobs' = jobs \ {"start"} /\ UNCHANGED <<socket, child>>
       ELSE Begin
    /\ UNCHANGED <<way, medium, state, looped, transport, future, told, made,
                   gone, left>>

\* mutant of Attach: a protocol that was closed meanwhile gets its connection
AttachAnyway(others) ==
    /\ state' = "open" /\ transport' = "live" /\ socket' = "open"
    /\ made' = made + 1
    /\ told' = IF way = "native" THEN told + 1 ELSE told
    /\ jobs' = others \cup (IF way # "native" THEN {"child"} ELSE {})
    /\ child' = IF way = "native" THEN child ELSE "done"

\* on_connect(): a transport over the connection, connection_made(), and the
\* callback or the result.  connect_stream() alone looks whether the protocol
\* was closed meanwhile: elsewhere connection_made() opens it again.  A future
\* that was cancelled refuses its result: what the poll called closes the
\* connection, what the queue called only logs.
Attach(others) ==
    LET refused == child = "cancelled"
        closes == refused /\ medium = "stream" /\ socket = "connecting"
    IN  IF way = "native" /\ medium = "stream" /\ Shut
        THEN /\ socket' = "closed" /\ jobs' = others
             /\ UNCHANGED <<state, transport, made, told, child>>
        ELSE /\ state' = "open" /\ made' = made + 1
             /\ \/ /\ closes
                   /\ socket' = "closed" /\ transport' = "dead"
                   /\ jobs' = others \cup {"lost"}
                \/ /\ ~closes \/ AtOnce
                   /\ socket' = "open" /\ transport' = "live"
                   /\ jobs' = others \cup
                              (IF way # "native" /\ ~refused THEN {"child"}
                                                             ELSE {})
             /\ told' = IF way = "native" THEN told + 1 ELSE told
             /\ child' = IF way = "native" \/ refused THEN child ELSE "done"

\* the connect is over, well or not
ConnectEnds ==
    /\ socket = "connecting"
    /\ Attach(jobs)
    /\ UNCHANGED <<way, medium, looped, future, gone, left>>

\* on_error(): the protocol is closed, or the future has the error
ConnectFails ==
    /\ socket = "connecting"
    /\ socket' = "closed"
    /\ state' = IF way = "native" /\ ~Shut THEN "closing" ELSE state
    /\ child' = IF child = "running" THEN "failed" ELSE child
    /\ jobs' = CASE way = "native" /\ ~Shut -> jobs \cup {"finish"}
                  [] child = "running" -> jobs \cup {"child"}
                  [] OTHER -> jobs
    /\ UNCHANGED <<way, medium, looped, transport, future, told, made, gone,
                   left>>

\* on_complete() of datagram(), in the queue
DatagramReady ==
    /\ Does("ready") /\ medium = "datagram"
    /\ Attach(jobs \ {"ready"})
    /\ UNCHANGED <<way, medium, looped, future, gone, left>>

\* on_complete() of serve(): create_server() binds.  A bind that fails raises
\* there, and the future never knows
ServiceReady(binds) ==
    /\ Does("ready") /\ medium = "service" /\ way # "native"
    /\ socket' = IF binds THEN "open" ELSE "unbound"
    /\ jobs' = (jobs \ {"ready"})
               \cup (IF binds /\ child = "running" THEN {"child"} ELSE {})
    /\ child' = IF binds /\ child = "running" THEN "done" ELSE child
    /\ UNCHANGED <<way, medium, state, looped, transport, future, told, made,
                   gone, left>>

\* with the native loop the user is given a server that is yet to bind
ServerMade ==
    /\ Does("ready") /\ medium = "service" /\ way = "native"
    /\ socket' = "idle" /\ told' = told + 1 /\ jobs' = jobs \ {"ready"}
    /\ UNCHANGED <<way, medium, state, looped, transport, child, future, made,
                   gone, left>>

\* start_serving() of the server, nothing when it serves
StartServing(binds) ==
    /\ socket = "idle"
    /\ socket' = IF binds THEN "open" ELSE "unbound"
    /\ UNCHANGED <<way, medium, state, looped, transport, jobs, child, future,
                   told, made, gone, left>>

-----------------------------------------------------------------------------
(* The coroutine.                                                          *)

\* step() of ensure(), called with the child: its end is that of the coroutine
ChildDone ==
    /\ Does("child")
    /\ IF future = "running"
       THEN future' = child /\ jobs' = (jobs \ {"child"}) \cup {"done"}
       ELSE UNCHANGED future /\ jobs' = jobs \ {"child"}
    /\ UNCHANGED <<way, medium, state, looped, transport, socket, child, told,
                   made, gone, left>>

\* cancel() of the future of the coroutine
UserCancels ==
    /\ way = "await" /\ future = "running"
    /\ future' = "cancelled" /\ jobs' = jobs \cup {"cancel"}
    /\ UNCHANGED <<way, medium, state, looped, transport, socket, child, told,
                   made, gone, left>>

\* cleanup() of ensure(): the child is cancelled, if it runs
Cancelled ==
    /\ Does("cancel")
    /\ IF child = "running"
       THEN child' = "cancelled" /\ jobs' = (jobs \ {"cancel"}) \cup {"child"}
       ELSE UNCHANGED child /\ jobs' = jobs \ {"cancel"}
    /\ UNCHANGED <<way, medium, state, looped, transport, socket, future, told,
                   made, gone, left>>

\* on_connect() of the compat functions, or the user that waits: the result, or
\* for the former the protocol is closed
Done ==
    /\ Does("done")
    /\ IF future = "done"
       THEN /\ told' = told + 1 /\ jobs' = jobs \ {"done"}
            /\ UNCHANGED <<state, looped, transport, socket>>
       ELSE /\ UNCHANGED told
            /\ IF way = "task" THEN Closes(jobs \ {"done"})
               ELSE /\ jobs' = jobs \ {"done"}
                    /\ UNCHANGED <<state, looped, transport, socket>>
    /\ UNCHANGED <<way, medium, child, future, made, gone, left>>

-----------------------------------------------------------------------------
Settle == ConnectEnds \/ ConnectFails
Run == \/ Start \/ DatagramReady \/ ServerMade \/ \E binds \in BOOLEAN : ServiceReady(binds)
       \/ ChildDone \/ Cancelled \/ Done \/ CallLost \/ Finish

CompatNext ==
    \/ Settle \/ Run
    \/ UserCloses \/ UserCancels \/ TransportClose \/ SocketEnds
    \/ \E binds \in BOOLEAN : StartServing(binds)

\* a connect ends, and the loop calls what is in its queue
CompatGoes == Settle \/ Run

CompatSpec == CompatInit /\ [][CompatNext]_compatVars

-----------------------------------------------------------------------------
(* Properties.                                                             *)

\* Once: the connection is made at most once and lost at most once after that,
\* who asked is told at most once, and only of a connection that was made or of
\* a service that listens, or of one of the native loop (connect_stream(), create_connection(),
\* _call_connection_lost()).
Once ==
    /\ made <= 1 /\ told <= 1
    /\ gone + (IF Does("lost") THEN 1 ELSE 0) <= made
    /\ told = 1 => \/ made = 1
                   \/ medium = "service" /\ socket = "open"
                   \/ medium = "service" /\ way = "native" /\ socket # "none"

\* Nothing is left behind: what is open once the queue is empty has a protocol
\* that is open and can close it; that of a closed protocol is closed with it,
\* as is that of a stream whose coroutine was cancelled before it connected; a
\* connection that closed has told its protocol (on_connect(), abort(),
\* on_exception()).
NothingLeft ==
    /\ socket = "open" /\ made = 1 => state = "open" /\ transport = "live"
    /\ socket = "closed" /\ made = 1 =>
           Does("lost") \/ (gone = 1 /\ (Shut \/ Does("finish")))
    /\ left /\ way = "native" /\ medium = "stream" =>
           socket \notin {"open"} /\ (jobs = {} => state = "closed")
    /\ child = "cancelled" /\ medium = "stream" /\ ~AtOnce =>
           socket \in {"connecting", "closed"}
    /\ state = "closed" => transport = "none" /\ ~looped

CompatSafety == CompatTypeOK /\ Once /\ NothingLeft

\* Who asks is told, or what he asked for fails, is closed or was cancelled
\* (but for a service whose address is taken).
Unsettled ==
    /\ told = 0 /\ future \notin {"failed", "cancelled"} /\ ~Shut
    /\ socket # "unbound"
=============================================================================
