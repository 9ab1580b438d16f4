----------------------------- MODULE Connector -----------------------------
(***************************************************************************)
(* A loop that connects (connect() and datagram() of base/common.py): the  *)
(* call returns a connection, the loop connects its socket on its next     *)
(* turn, polls until the kernel has an answer and, over TLS, until the     *)
(* handshake of the starter ends, and tells the caller of it.              *)
(*                                                                         *)
(* What is sent, and starters other than the handshake, are in Connection  *)
(* and Starter.  Errors that do not go through the socket are left out.    *)
(***************************************************************************)
EXTENDS Integers, Sequences

CONSTANTS Calls,    \* the calls that may be made
          Outcomes  \* of socket.connect(): trying, up, refused, or absent,
                    \* an error that is taken for "not yet" (VALID_ERRORS)

ASSUME ConnectorAssumption ==
    Outcomes \subseteq {"trying", "up", "refused", "absent"}

VARIABLES
    calls,  \* of each call: the connection, its socket, and what it was told
    turn    \* what the loop has to call, in order

connectorVars == <<calls, turn>>

Sorts == {"tcp", "tls", "datagram"}

ConnectorType ==
    /\ calls \in [Calls ->
           [kind: Sorts, status: {"none", "pending", "open", "closed"},
            connecting: BOOLEAN, sslConnecting: BOOLEAN, sslHandshake: BOOLEAN,
            starters: 0 .. 2, starter: BOOLEAN, writes: BOOLEAN,
            kernel: {"idle", "trying", "up", "refused", "absent"},
            peer: {"quiet", "answered", "gone"}, inbox: BOOLEAN, trusted: BOOLEAN,
            hangs: BOOLEAN, bound: SUBSET {"connect", "close"},
            told: Seq(BOOLEAN), raised: BOOLEAN]]
    /\ turn \in Seq(Calls)

\* a connection nobody made yet, whose peer may be trusted, and whose caller
\* may close it when told
New(kind, trusted, hangs) ==
    [kind |-> kind, status |-> "none", connecting |-> FALSE,
     sslConnecting |-> FALSE, sslHandshake |-> FALSE, starters |-> 0,
     starter |-> FALSE, writes |-> FALSE, kernel |-> "idle", peer |-> "quiet",
     inbox |-> FALSE, trusted |-> trusted, hangs |-> hangs, bound |-> {},
     told |-> <<>>, raised |-> FALSE]

\* only the handshake verifies a peer
Starts == {s \in [kind: Sorts, trusted: BOOLEAN, hangs: BOOLEAN] :
               s.kind # "tls" => s.trusted}

ConnectorInit ==
    /\ calls \in [Calls -> {New(s.kind, s.trusted, s.hangs) : s \in Starts}]
    /\ turn = <<>>

-----------------------------------------------------------------------------
(* What handlers do to a connection; raised is an error on its way out.     *)

Tell(x, ok) == [x EXCEPT !.told = Append(@, ok)]

\* close(): on_close() tells a caller that was told nothing
Leave(x) ==
    LET closed == [x EXCEPT !.status = "closed", !.connecting = FALSE,
                            !.writes = FALSE, !.bound = {}]
    IN  IF x.status = "closed" THEN x
        ELSE IF "close" \in x.bound THEN Tell(closed, FALSE) ELSE closed

\* on_connect(), and the caller, who may close the connection there and then
Joined(x) ==
    LET up == [x EXCEPT !.writes = FALSE, !.connecting = FALSE, !.bound = {}]
        heard == IF "connect" \in x.bound THEN Tell(up, TRUE) ELSE up
    IN  IF x.hangs THEN Leave(heard) ELSE heard

\* on_client_ssl(): the host and the fingerprint before on_connect()
ClientSsl(x) ==
    IF ~x.trusted THEN [x EXCEPT !.raised = TRUE]
    ELSE IF x.connecting THEN Joined(x) ELSE x

\* _ssl_client_handshake(); the poll is not asked to tell that it can write
\* while the peer has to
ClientHandshake(x) ==
    LET begun == [x EXCEPT !.sslHandshake = FALSE, !.sslConnecting = TRUE]
    IN  CASE x.peer = "answered" ->
                 ClientSsl([x EXCEPT !.sslHandshake = TRUE, !.sslConnecting = FALSE,
                                     !.starter = FALSE, !.inbox = FALSE])
          [] x.peer = "gone" -> [begun EXCEPT !.raised = TRUE]
          [] x.peer = "quiet" -> [begun EXCEPT !.writes = FALSE]

\* _pending() is run_starter(), which finds one starter at most
Pending(x) ==
    IF x.starter THEN ClientHandshake(x)
    ELSE IF x.starters > 0
    THEN ClientHandshake([x EXCEPT !.starters = @ - 1, !.starter = TRUE])
    ELSE x

\* _connectf()
FinishConnect(x) ==
    IF x.sslConnecting THEN x
    ELSE IF x.kernel = "refused" THEN Leave(x)
    ELSE IF x.kind = "tls" THEN Pending([x EXCEPT !.starters = @ + 1])
    ELSE Joined(x)

\* what on_read() and on_write() do of an error: on_exception(), on_expected()
Caught(x) == IF x.raised THEN Leave([x EXCEPT !.raised = FALSE]) ELSE x

Continued(x) == IF x.connecting THEN FinishConnect(x) ELSE x

\* on_read(): data, the end of it, or the socket that was closed meanwhile
Read(x) ==
    LET on == Continued(x)
        done == IF on.raised THEN on ELSE Pending(on)
    IN  IF x.status # "open" THEN x
        ELSE IF done.raised THEN Caught(done)
        ELSE IF done.starter \/ done.status = "closed" THEN done
        ELSE IF done.peer = "gone" THEN Leave(done)
        ELSE [done EXCEPT !.inbox = FALSE]

Write(x) == IF x.status # "open" THEN x ELSE Caught(Continued(x))

Error(x) == IF x.status = "open" THEN Leave(x) ELSE x

-----------------------------------------------------------------------------
\* connect(): the connection, whose caller is told of "connect" or of "close"
ConnectCall(i) ==
    /\ calls[i].status = "none" /\ calls[i].kind # "datagram"
    /\ calls' = [calls EXCEPT ![i].status = "pending", ![i].bound = {"connect", "close"}]
    /\ turn' = Append(turn, i)

\* datagram(): it is connected at once, the caller is told on the next turn
DatagramCall(i) ==
    /\ calls[i].status = "none" /\ calls[i].kind = "datagram"
    /\ calls' = [calls EXCEPT ![i].status = "open", ![i].kernel = "up"]
    /\ turn' = Append(turn, i)

\* the turn of a datagram connection, even of one that was closed
Report ==
    /\ turn # <<>> /\ calls[Head(turn)].kind = "datagram"
    /\ calls' = [calls EXCEPT ![Head(turn)] = Tell(@, TRUE)]
    /\ turn' = Tail(turn)

\* _connect(), unless it was closed; an error of _connectf() leaves it as it is
ConnectTurn ==
    /\ turn # <<>> /\ calls[Head(turn)].kind # "datagram"
    /\ LET x == calls[Head(turn)]
           Opened(outcome) == [x EXCEPT !.status = "open", !.connecting = TRUE,
                                        !.writes = TRUE, !.kernel = outcome]
       IN  IF x.status = "closed" THEN UNCHANGED calls
           ELSE \E outcome \in Outcomes :
                   calls' = [calls EXCEPT ![Head(turn)] =
                       CASE outcome = "refused" -> Leave(Opened(outcome))
                         [] outcome = "up" ->
                                [FinishConnect(Opened(outcome)) EXCEPT !.raised = FALSE]
                         [] OTHER -> Opened(outcome)]
    /\ turn' = Tail(turn)

\* a turn of the poll, of the events there are when it is called: reads, then
\* writes, then errors
PollTurn(i) ==
    LET x == calls[i]
        readable == x.kernel = "refused" \/ x.inbox
        writable == x.writes /\ x.kernel \in {"up", "refused", "absent"}
        read == IF readable THEN Read(x) ELSE x
        written == IF writable THEN Write(read) ELSE read
    IN  /\ x.status = "open" /\ (readable \/ writable)
        /\ calls' = [calls EXCEPT ![i] =
                         IF x.kernel = "refused" THEN Error(written) ELSE written]
        /\ UNCHANGED turn

\* the users of a connection close it when they like
UserLeaves(i) ==
    /\ calls[i].status \in {"pending", "open"}
    /\ calls' = [calls EXCEPT ![i] = Leave(@)]
    /\ UNCHANGED turn

\* the kernel ends what it tries
KernelSettles(i) ==
    /\ calls[i].kernel = "trying"
    /\ calls' = [calls EXCEPT ![i].kernel = "up"] \/ calls' = [calls EXCEPT ![i].kernel = "refused"]
    /\ UNCHANGED turn

\* the peer takes part in the handshake, or sends; or it goes
PeerAnswers(i) ==
    /\ calls[i].kernel = "up" /\ calls[i].peer = "quiet"
    /\ calls[i].kind = "tls" => calls[i].sslConnecting
    /\ calls' = [calls EXCEPT ![i].peer = "answered", ![i].inbox = TRUE]
    /\ UNCHANGED turn

PeerGoes(i) ==
    /\ calls[i].kernel = "up" /\ calls[i].peer # "gone"
    /\ calls' = [calls EXCEPT ![i].peer = "gone", ![i].inbox = TRUE]
    /\ UNCHANGED turn

ConnectorNext ==
    \/ Report \/ ConnectTurn
    \/ \E i \in Calls :
          \/ ConnectCall(i) \/ DatagramCall(i) \/ PollTurn(i) \/ UserLeaves(i)
          \/ KernelSettles(i) \/ PeerAnswers(i) \/ PeerGoes(i)

ConnectorSpec == ConnectorInit /\ [][ConnectorNext]_connectorVars

\* the loop goes on, what the kernel tries ends, and so does what the peer does
ConnectorGoes(i) ==
    Report \/ ConnectTurn \/ PollTurn(i) \/ KernelSettles(i) \/ PeerAnswers(i)

-----------------------------------------------------------------------------
\* A caller is told once, whatever closes the connection when: that it is
\* connected only if it is, over TLS with a peer that was verified, and that
\* it is not as soon as it is closed (on_connect() and on_close() of connect()).
ToldOnce ==
    \A i \in Calls : LET x == calls[i] IN
        /\ Len(x.told) <= 1
        /\ x.told = <<TRUE>> =>
              /\ x.kernel = "up" /\ ~x.connecting
              /\ x.kind = "tls" => x.sslHandshake /\ x.trusted
        /\ x.told = <<FALSE>> => x.status = "closed"
        /\ x.kind # "datagram" =>
              /\ x.status = "closed" => x.told # <<>>
              /\ x.status = "open" /\ x.told = <<>> => x.connecting

\* While the peer has to go on with the handshake the poll is not asked to
\* tell of a socket that can always be written, which would never let it sleep.
SleepsInHandshake ==
    \A i \in Calls : calls[i].sslConnecting => ~calls[i].writes

ConnectorSafety == ConnectorType /\ ToldOnce /\ SleepsInHandshake

\* someone waits to be told
Untold(i) == calls[i].status # "none" /\ calls[i].told = <<>>
=============================================================================
