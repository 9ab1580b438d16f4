---------------------------- MODULE MCEventLoop ----------------------------
(***************************************************************************)
(* EventLoop, and the small protocols Pop, Tftp, WebSocket, FileServer and *)
(* Dhcp, on small instances: each behaviour is one of one of them, the     *)
(* others stay as they begin.  The requests of the loop are                *)
(* interchangeable.                                                        *)
(***************************************************************************)
EXTENDS EventLoop, Pop, Tftp, WebSocket, FileServer, Dhcp, TLC

CONSTANTS r1, r2, flush, task, ev, k1, k2

LoopDelays == {-1, 0, 1}
MCChunks == [k \in Mails |-> IF k = k1 THEN 2 ELSE 1]
FileRequest(kind, first, last, code) ==
    [kind : {kind}, first : {first}, last : {last}, code : {code},
     keep : BOOLEAN, v11 : BOOLEAN]
MCFileRequests ==
    FileRequest("file", 0, 4, 200) \cup FileRequest("file", 1, 2, 206) \cup
    UNION {FileRequest(kind, 0, -1, 200) : kind \in {"file", "same", "dir", "none"}}
MCSymmetry == Permutations(Requests)

VARIABLE part
protocolVars == <<popVars, tftpVars, webSocketVars, fileVars, dhcpVars>>

MCInit ==
    /\ part \in {"loop", "pop", "tftp", "webSocket", "file", "dhcp"}
    /\ Init /\ PopInit /\ TftpInit /\ WebSocketInit /\ FileInit /\ DhcpInit
    /\ part # "tftp" => blocks = 0
    /\ part # "file" => serving.encoding = "plain"
    /\ part # "dhcp" => ~late

MCNext ==
    /\ UNCHANGED part
    /\ \/ part = "loop" /\ Next /\ UNCHANGED protocolVars
       \/ /\ part = "pop" /\ PopNext
          /\ UNCHANGED <<vars, tftpVars, webSocketVars, fileVars, dhcpVars>>
       \/ /\ part = "tftp" /\ TftpNext
          /\ UNCHANGED <<vars, popVars, webSocketVars, fileVars, dhcpVars>>
       \/ /\ part = "webSocket" /\ WebSocketNext
          /\ UNCHANGED <<vars, popVars, tftpVars, fileVars, dhcpVars>>
       \/ /\ part = "file" /\ FileNext
          /\ UNCHANGED <<vars, popVars, tftpVars, webSocketVars, dhcpVars>>
       \/ /\ part = "dhcp" /\ DhcpNext
          /\ UNCHANGED <<vars, popVars, tftpVars, webSocketVars, fileVars>>
       \* these come to an end, the loop does not
       \/ part # "loop" /\ UNCHANGED <<vars, protocolVars>>

MCSpec == MCInit /\ [][MCNext]_<<part, vars, protocolVars>>

\* messages and files arrive whole, once and in order, whatever the cuts of the
\* stream and what is asked meanwhile
ProtocolsSafety == WebSocketSafety /\ FileSafety
=============================================================================
