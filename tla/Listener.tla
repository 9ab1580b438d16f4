------------------------------ MODULE Listener ------------------------------
(***************************************************************************)
(* The socket of a stream server (base/server.py): it is bound and listens *)
(* before the fork, and each process then polls it for itself and accepts  *)
(* from it until it would block, or until a connection raises.             *)
(***************************************************************************)
EXTENDS Integers, Sequences

CONSTANTS
    Servers,    \* the processes
    Peers,      \* the clients, each of which connects once
    Backlog     \* how many the kernel keeps waiting

ASSUME ListenerAssumption == Backlog \in Nat \ {0}

\* one that raises ends the loop that accepts: it is not allowed, its starter
\* fails, or it is gone before accept()
Fates == {"good", "plain", "raises"}

VARIABLES
    edges,      \* if the poll tells of arrivals, or of a queue that is not empty
    fate,       \* what becomes of each peer when it is accepted
    arrivals,   \* the peers the kernel keeps
    served,     \* where each peer is
    server      \* where each process is, and if its poll has to tell it

listenerVars == <<edges, fate, arrivals, served, server>>

\* bind() and listen(), then fork().  A poll by edges loses those behind one
\* that raises: they are left out
ListenerInit ==
    /\ edges \in BOOLEAN
    /\ fate \in [Peers -> IF edges THEN Fates \ {"raises"} ELSE Fates]
    /\ arrivals = <<>>
    /\ served = [p \in Peers |-> "out"]
    /\ server = [s \in Servers |-> [at |-> "serve", event |-> FALSE]]

\* serve() after the fork: the poll is opened and the socket subscribed to it
ServeChild(s) ==
    /\ server[s].at = "serve"
    /\ server' = [server EXCEPT ![s] = [at |-> "poll", event |-> arrivals # <<>>]]
    /\ UNCHANGED <<edges, fate, arrivals, served>>

Arrive(p) ==
    /\ served[p] = "out" /\ Len(arrivals) < Backlog
    /\ arrivals' = Append(arrivals, p)
    /\ served' = [served EXCEPT ![p] = "queued"]
    /\ server' = [s \in Servers |-> [server[s] EXCEPT !.event = @ \/ server[s].at # "serve"]]
    /\ UNCHANGED <<edges, fate>>

\* reads() of the server's socket
PollListener(s) ==
    /\ server[s].at = "poll"
    /\ IF edges THEN server[s].event ELSE arrivals # <<>>
    /\ server' = [server EXCEPT ![s] = [at |-> "accept", event |-> FALSE]]
    /\ UNCHANGED <<edges, fate, arrivals, served>>

\* on_read_s(): there is no one else
AcceptBlocks(s) ==
    /\ server[s].at = "accept" /\ arrivals = <<>>
    /\ server' = [server EXCEPT ![s].at = "poll"]
    /\ UNCHANGED <<edges, fate, arrivals, served>>

\* mutant of AcceptOne: one for each event
AcceptOneOnly(s) ==
    /\ server[s].at = "accept" /\ arrivals # <<>>
    /\ LET p == Head(arrivals)
       IN  served' = [served EXCEPT ![p] = IF fate[p] = "good" THEN "open" ELSE "closed"]
    /\ server' = [server EXCEPT ![s].at = "poll"]
    /\ arrivals' = Tail(arrivals)
    /\ UNCHANGED <<edges, fate>>

\* on_socket_c(): one without TLS is closed and the loop goes on
AcceptOne(s) ==
    /\ server[s].at = "accept" /\ arrivals # <<>>
    /\ LET p == Head(arrivals)
       IN  /\ served' = [served EXCEPT ![p] =
                            IF fate[p] = "good" THEN "open" ELSE "closed"]
           /\ server' = [server EXCEPT ![s].at =
                            IF fate[p] = "raises" THEN "poll" ELSE "accept"]
    /\ arrivals' = Tail(arrivals)
    /\ UNCHANGED <<edges, fate>>

\* a process ends, and the others go on
ServerEnds(s) ==
    /\ server[s].at # "ended"
    /\ \E t \in Servers \ {s} : server[t].at # "ended"
    /\ server' = [server EXCEPT ![s].at = "ended"]
    /\ UNCHANGED <<edges, fate, arrivals, served>>

ServerStep(s) ==
    ServeChild(s) \/ PollListener(s) \/ AcceptBlocks(s) \/ AcceptOne(s)

ListenerNext ==
    \/ \E p \in Peers : Arrive(p)
    \/ \E s \in Servers : ServerStep(s) \/ ServerEnds(s)

-----------------------------------------------------------------------------
(* Properties.                                                             *)

\* someone who is alive will come for those who wait, even when the process
\* that was told of them, or had begun to accept them, has ended
HeardOf ==
    arrivals # <<>> =>
        \E s \in Servers :
            \/ server[s].at \in {"serve", "accept"}
            \/ server[s].at = "poll" /\ (edges => server[s].event)

\* a peer is in the queue, or it is open or closed, never between
InQueue ==
    \A p \in Peers :
        served[p] = "queued" <=> \E i \in 1 .. Len(arrivals) : arrivals[i] = p

\* Those who connect are not forgotten, whichever process ends (serve(),
\* on_read_s()).
ListenerSafety ==
    /\ \A s \in Servers : server[s].at \in {"serve", "poll", "accept", "ended"}
    /\ HeardOf /\ InQueue

\* someone waits: a peer that connects does it once, so this comes to an end
Waits == arrivals # <<>>
EventuallyAccepted == Waits ~> ~Waits
=============================================================================
