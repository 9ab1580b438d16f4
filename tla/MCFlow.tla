------------------------------- MODULE MCFlow -------------------------------
(***************************************************************************)
(* What a connection goes through on its way, on small instances: Starter, *)
(* Protocol, Tunnel, and the EventLoop they run on, without other threads. *)
(* Each behaviour is one of one of them, the others stay as they begin.    *)
(* Outside of a tunnel the code of the user sends what the client of a     *)
(* tunnel sends; m1 alone is more than the high mark.                      *)
(***************************************************************************)
EXTENDS Tunnel, Starter, EventLoop

CONSTANTS m1, m2, m3, m4, r1, r2, again, task

MCSize == [m \in Messages |-> IF m = m1 THEN 2 ELSE 1]

MCDelays == {-1, 0, 1}

\* a header is of a server; what a poll by level loses over TLS, and what
\* TLS takes a header for, are left out
AnySetup == [role: Roles, secure: BOOLEAN, proxy: 0 .. 2, edge: BOOLEAN,
             ahead: BOOLEAN, header: {"valid", "head", "body", "empty"}]
MCSetups ==
    {x \in AnySetup :
        /\ x.role # "server" => x.proxy = 0
        /\ x.proxy = 0 => x.header = "valid"
        /\ x.proxy = 1 => x.header \in {"valid", "body"}
        /\ x.role \in {"starttls", "upgrader"} => x.secure /\ ~x.ahead
        /\ x.proxy # 0 => ~(x.secure /\ x.ahead)
        /\ x.ahead /\ (x.secure \/ x.role = "client") => x.edge}

\* those a server greets over TLS
MCGreetings ==
    {x \in AnySetup : x.role = "server" /\ x.secure /\ x.proxy = 0
                      /\ ~x.edge /\ x.ahead /\ x.header = "valid"}

VARIABLE part

FlowInit ==
    /\ part \in {"tunnel", "protocol", "starter", "loop"}
    /\ renable = TRUE /\ backRenable = TRUE
    /\ front = <<>> /\ frontS = 0 /\ frontReady = TRUE
    /\ ProtocolInit
    /\ part # "protocol" => kind = "raw"
    /\ way \in CASE part = "tunnel" -> Ways
                 [] part = "protocol" -> {"none"}
                 [] OTHER -> {"off"}
    /\ StarterInit
    /\ part # "starter" =>
           setup = CHOOSE x \in Setups : x.role = "server" /\ x.secure
    /\ Init

FlowNext ==
    /\ UNCHANGED part
    /\ \/ /\ part = "tunnel" /\ TunnelNext
          /\ UNCHANGED <<starterVars, vars>>
       \/ /\ part = "protocol" /\ ProtocolNext
          /\ UNCHANGED <<way, renable, down, starterVars, vars>>
       \/ /\ part = "starter" /\ StarterNext
          /\ UNCHANGED <<tunnelVars, vars>>
       \/ /\ part = "loop" /\ Next
          /\ UNCHANGED <<tunnelVars, starterVars>>

FlowVars == <<part, tunnelVars, starterVars, vars>>
FlowSpec == FlowInit /\ [][FlowNext]_FlowVars

\* What is fair is fair in its own part.  The loop, once it has the connection,
\* goes on, the kernel ends what it began, and time passes.
StarterFair ==
    WF_starterVars(/\ part = "starter"
                   /\ \/ AcceptPeer
                      \/ PollOnce
                      \/ FlushOnce
                      \/ ProxyTimeout
                      \/ \E no \in BOOLEAN : ConnectPeer(no) \/ Settle(no))

\* the thread of the loop runs, what it calls returns, the clock advances
LoopFair ==
    /\ WF_vars(part = "loop" /\ (Serve \/ Return \/ Start))
    /\ WF_vars(part = "loop" /\ Clock)

FlowFairSpec ==
    FlowSpec /\ TunnelFairness /\ StarterFair /\ LoopFair

GreetingSpec ==
    FlowInit /\ part = "starter" /\ [][FlowNext]_FlowVars /\ StarterFair
TunnelFairSpec ==
    FlowInit /\ part = "tunnel" /\ [][FlowNext]_FlowVars /\ TunnelFairness
CallbacksSpec == FlowInit /\ part = "protocol" /\ [][FlowNext]_FlowVars
=============================================================================
