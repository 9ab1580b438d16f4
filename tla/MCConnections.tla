--------------------------- MODULE MCConnections ----------------------------
(***************************************************************************)
(* What carries data, on small instances: Connection, with a message       *)
(* longer than the send buffer of the kernel and one that is shorter,      *)
(* Http2, with two streams that share the window of a connection,          *)
(* Connector, with two calls that connect, and Compat, with what asks for  *)
(* a connection.  Each behaviour is one of one of them, the others stay as *)
(* they begin.                                                             *)
(***************************************************************************)
EXTENDS Connection, Http2, Connector, Compat

CONSTANTS long, short

MCSize == [m \in Messages |-> IF m = long THEN 3 ELSE 1]
MCStreams == {1, 3}
MCInitials == {2}
MCParts == {1, 2}

VARIABLE part
carryVars == <<part, connectionVars, http2Vars, connectorVars, compatVars>>

Init ==
    /\ part \in {"connection", "http2", "connector", "compat"}
    /\ ConnectionInit /\ Http2Init /\ ConnectorInit /\ CompatInit
    /\ part # "connection" => poll = "edge"
    /\ part # "connector" =>
           \A i \in Calls : calls[i].kind = "tcp" /\ ~calls[i].hangs
    /\ part # "compat" => way = "native" /\ medium = "stream"

Next ==
    /\ UNCHANGED part
    /\ \/ /\ part = "connection" /\ ConnectionNext
          /\ UNCHANGED <<http2Vars, connectorVars, compatVars>>
       \/ /\ part = "http2" /\ Http2Next
          /\ UNCHANGED <<connectionVars, connectorVars, compatVars>>
       \/ /\ part = "connector" /\ ConnectorNext
          /\ UNCHANGED <<connectionVars, http2Vars, compatVars>>
       \/ /\ part = "compat" /\ CompatNext
          /\ UNCHANGED <<connectionVars, http2Vars, connectorVars>>

ConnectorFairness ==
    \A i \in Calls : WF_connectorVars(part = "connector" /\ ConnectorGoes(i))

CompatFairness == WF_compatVars(part = "compat" /\ CompatGoes)

\* nothing fair is enabled in the connection that stays
Spec == Init /\ [][Next]_carryVars /\ ConnectionFairness /\ ConnectorFairness
        /\ CompatFairness

\* nothing is lost, reordered or miscounted in a connection, and the callback
\* of each message is called when it is sent; who connects is told once, and
\* only the truth
ConnectionSafety == QueueSafety /\ CallbackSafety /\ ConnectorSafety

\* What an open connection accepted is sent, and who connects is told what
\* came of it.
Waits ==
    \/ Unsent
    \/ \E i \in Calls : Untold(i)
    \/ part = "compat" /\ Unsettled
Carried == Waits ~> ~Waits

\* frames keep to the windows and their order, and streams to their states
Http2Safety == FlowSafety /\ StreamSafety
=============================================================================
