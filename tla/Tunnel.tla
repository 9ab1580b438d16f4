------------------------------- MODULE Tunnel -------------------------------
(***************************************************************************)
(* A tunnel of servers/proxy.py: the front-end connection, the protocol    *)
(* and the connection of the back end (module Protocol), and the data that *)
(* goes both ways between them.  With more in the outgoing connection than *)
(* its high mark, reading is disabled on the incoming one, and the         *)
(* callbacks of what was sent enable it again at the low mark.             *)
(*                                                                         *)
(* Up, Messages are what is read from the client.  Down, only the bytes    *)
(* that wait in the front-end connection are kept.  Both connections have  *)
(* the marks of the proxy.  Of their polls this module has whether a write *)
(* event may come: with epoll, disabling the reads of a socket disables    *)
(* all its events.                                                         *)
(***************************************************************************)
EXTENDS Protocol

CONSTANTS Chunk,     \* bytes read at most from the back end at once
          Ways,      \* "connect": CONNECT, answered to the client at the
                     \* opening; "upgrade": a request, sent up at the opening
          Edge       \* TRUE: epoll or kqueue; FALSE: select

ASSUME TunnelAssumption ==
    /\ Chunk \in Nat \ {0} /\ Edge \in BOOLEAN
    /\ Ways \subseteq {"connect", "upgrade"}

VARIABLES
    way,          \* why the tunnel is made
    renable,      \* of the front-end connection
    backRenable,  \* of the back-end connection
    front,        \* what waits in the front-end connection: bytes, and if it
                  \* was sent with a callback
    frontS,       \* `pending_s` of the front-end connection
    frontReady    \* its socket took all it was given

down == <<backRenable, front, frontS, frontReady>>
tunnelVars == <<protocolVars, way, renable, down>>

TunnelInit ==
    /\ ProtocolInit /\ way \in Ways
    /\ renable = TRUE /\ backRenable = TRUE
    /\ front = <<>> /\ frontS = 0 /\ frontReady = TRUE

\* the entry of the tunnel in conn_map, gone with the close of the protocol
Mapped == phase \in {"pending", "open"}

-----------------------------------------------------------------------------
(* Up: from the client to the back end.                                    *)

\* mutant of FrontData: what finds the back end exhausted is dropped
FrontDataDrop(m) ==
    /\ Idle /\ Mapped /\ renable
    /\ m \notin Silent
    /\ IF conn = "open" /\ pendingS > High
       THEN renable' = FALSE /\ UNCHANGED protocolVars
       ELSE Send(m) /\ UNCHANGED renable
    /\ UNCHANGED <<way, down>>

\* on_data(): is_exhausted() of a protocol without a transport is false
FrontData(m) ==
    /\ Idle /\ Mapped /\ renable
    /\ m \notin Silent
    /\ renable' = ~(conn = "open" /\ pendingS > High)
    /\ Send(m)
    /\ UNCHANGED <<way, down>>

\* _throttle(), the callback of what went up.  The transport is None once the
\* protocol has finished, and a closed connection counts as restored.
Throttle(i) ==
    /\ Call(i)
    /\ renable' = (renable \/ (/\ phase # "closed" /\ Mapped
                               /\ conn = "open" => pendingS <= Low))
    /\ UNCHANGED <<way, down>>

-----------------------------------------------------------------------------
(* Down: from the back end to the client.                                  *)

\* _on_raw_data()
BackData(n) ==
    /\ Idle /\ phase = "open" /\ conn = "open" /\ backRenable
    /\ backRenable' = (frontS <= High)
    /\ front' = Append(front, [left |-> n, calls |-> TRUE])
    /\ frontS' = frontS + n
    /\ UNCHANGED <<protocolVars, way, renable, frontReady>>

\* mutant of RawThrottle: it asks the back end if it is restored
RawThrottleBack(left) ==
    backRenable' = (\/ backRenable
                    \/ Mapped /\ conn = "open" /\ pendingS <= Low)

\* _raw_throttle(), when `left` bytes are left in the front-end connection
RawThrottle(left) ==
    backRenable' = (backRenable \/ (Mapped /\ conn = "open" /\ left <= Low))

\* the socket of the client takes n bytes of the first data; the callback is
\* called after the last of them
FrontTakes(n) ==
    /\ Idle /\ frontReady /\ front # <<>>
    /\ LET first == Head(front)
       IN  /\ n <= first.left
           /\ IF n = first.left
              THEN /\ front' = Tail(front)
                   /\ IF first.calls THEN RawThrottle(frontS - n)
                                     ELSE UNCHANGED backRenable
              ELSE /\ front' = <<[first EXCEPT !.left = @ - n]>> \o Tail(front)
                   /\ UNCHANGED backRenable
    /\ frontS' = frontS - n
    /\ UNCHANGED <<protocolVars, way, renable, frontReady>>

\* it takes no more
FrontRefuses ==
    /\ Idle /\ frontReady /\ front # <<>>
    /\ frontReady' = FALSE
    /\ UNCHANGED <<protocolVars, way, renable, backRenable, front, frontS>>

\* the poll finds that it does again
FrontEvent ==
    /\ Idle /\ ~frontReady
    /\ Edge => renable
    /\ frontReady' = TRUE
    /\ UNCHANGED <<protocolVars, way, renable, backRenable, front, frontS>>

-----------------------------------------------------------------------------
(* Opening, closing, and what the protocol does by itself.                 *)

\* _on_raw_connect(): the request of an upgrade goes up, ...
OpeningSend(m) ==
    /\ way = "upgrade" /\ Runs("opened") /\ m \in Silent
    /\ Send(m)
    /\ UNCHANGED <<way, renable, down>>

\* ... the answer to CONNECT goes down; none of the two has a callback
TunnelOpened ==
    /\ Opened
    /\ front' = IF way = "connect"
                THEN Append(front, [left |-> 1, calls |-> FALSE])
                ELSE front
    /\ frontS' = IF way = "connect" THEN frontS + 1 ELSE frontS
    /\ UNCHANGED <<way, renable, backRenable, frontReady>>

\* the poll tells the back end that its socket takes more, or its connect ends
BackEvent ==
    /\ WriteEvent
    /\ Runs("ready") \/ (Edge => backRenable)
    /\ UNCHANGED <<way, renable, down>>

\* the close of the front end closes the protocol, and so the back end
TunnelClose == CloseProtocol /\ UNCHANGED <<way, renable, down>>

Inside ==
    /\ \/ SendEnd \/ Flush \/ ConnectionMade \/ Disconnected \/ ConnectionLost
       \/ Finish \/ TakeSome \/ SendStops
    /\ UNCHANGED <<way, renable, down>>

TunnelNext ==
    \/ \E m \in Messages : FrontData(m) \/ OpeningSend(m)
    \/ \E i \in DOMAIN calls : Throttle(i)
    \/ \E n \in 1 .. Chunk : BackData(n) \/ FrontTakes(n)
    \/ FrontRefuses \/ FrontEvent
    \/ TunnelOpened \/ BackEvent \/ TunnelClose
    \/ Inside

TunnelSpec == TunnelInit /\ [][TunnelNext]_tunnelVars

\* the calls go on, the loop calls what it was given, and each socket that is
\* polled takes data again and again; what is "off" never begins
On == way # "off"
TunnelFairness ==
    /\ WF_tunnelVars(On /\ (TunnelOpened
                            \/ ((SendEnd \/ Flush \/ SendStops) /\ Inside)))
    /\ WF_tunnelVars(On /\ (\/ \E i \in DOMAIN calls : Throttle(i)
                            \/ (ConnectionMade \/ ConnectionLost \/ Finish)
                               /\ Inside))
    /\ WF_tunnelVars(On /\ BackEvent) /\ SF_tunnelVars(On /\ TakeSome /\ Inside)
    /\ WF_tunnelVars(On /\ FrontEvent)
    /\ SF_tunnelVars(On /\ \E n \in 1 .. Chunk : FrontTakes(n))

-----------------------------------------------------------------------------
(* Properties.                                                             *)

\* What waits down never passes the high mark by more than two reads: the one
\* that passes it, and the one that finds it passed (_on_raw_data()).
DownBounded == frontS <= High + 2 * Chunk

\* A back end whose reads are disabled has the callback to come that enables
\* them: nothing else would (_on_raw_data(), _raw_throttle()).
DownToCome ==
    phase = "open" /\ conn = "open" /\ ~backRenable =>
        \E i \in DOMAIN front : front[i].calls

\* The reads of the back end are enabled again, or the tunnel closes.
DownResumes == ~backRenable ~> backRenable \/ phase # "open" \/ conn # "open"

\* While the protocol is paused, a client whose reads are disabled has data or
\* a callback kept for the resume, so that something is called after it
\* (_throttle(), send() and _flush_callbacks() of the protocol).
UpToCome ==
    Idle /\ phase = "open" /\ conn = "open" /\ ~renable /\ exhausted =>
        Range(callbacks \o keptSends) \ Silent # {}

\* Whoever is no longer read has something to come that looks again.
TunnelSafety == DownBounded /\ DownToCome /\ UpToCome
=============================================================================
