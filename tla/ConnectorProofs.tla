--------------------------- MODULE ConnectorProofs ---------------------------
(***************************************************************************)
(* Proofs about Connector: a caller is told once, and only the truth.  The *)
(* invariant says of each connection what its caller was told against what *)
(* is known of the socket and of the handshake (Honest, Ready), and of the *)
(* loop that it has each call once, in a state that the call expects       *)
(* (TurnIsOnce, TurnIsDue).  A handler of the poll is a chain of calls     *)
(* that may raise in the middle: Settled is what each leaves, an error on  *)
(* its way out (Hurt) or a sound connection.                               *)
(*                                                                         *)
(* ConnectionsSafe joins it with ConnectionProofs, for the behaviours that *)
(* the runs of MCConnections check, and CompatSafe is about the functions  *)
(* of base/compat.py, for streams, datagrams and services, whatever closes *)
(* or cancels between two steps.                                           *)
(*                                                                         *)
(* Http2Safe is about what is sent over HTTP/2.  FlowGood says of the      *)
(* frames that are delayed that the first one of a stream does not fit     *)
(* (Starved), that they carry on where those that were sent end (Ordered), *)
(* and that no credit is lost (Credited).  send_part() and flush_frames()  *)
(* send frame by frame: RecursionIs gives the function that their models   *)
(* define by recursion, and UpToAll is the induction over it.              *)
(***************************************************************************)
EXTENDS MCConnections, ConnectionProofs, SequenceTheorems, WellFoundedInduction,
        TLAPS

Record ==
    [kind: Sorts, status: {"none", "pending", "open", "closed"},
     connecting: BOOLEAN, sslConnecting: BOOLEAN, sslHandshake: BOOLEAN,
     starters: 0 .. 2, starter: BOOLEAN, writes: BOOLEAN,
     kernel: {"idle", "trying", "up", "refused", "absent"},
     peer: {"quiet", "answered", "gone"}, inbox: BOOLEAN, trusted: BOOLEAN,
     hangs: BOOLEAN, bound: SUBSET {"connect", "close"},
     told: Seq(BOOLEAN), raised: BOOLEAN]

\* what a handler leaves of a call as it was
Alike(x, r) ==
    /\ r \in Record
    /\ r.kind = x.kind /\ r.kernel = x.kernel /\ r.peer = x.peer
    /\ r.trusted = x.trusted /\ r.hangs = x.hangs

\* Tell(), and Leave() of a connection that is not closed
HasTold(x, ok, r) ==
    /\ Alike(x, r) /\ r.told = Append(x.told, ok)
    /\ r.status = x.status /\ r.connecting = x.connecting
    /\ r.sslConnecting = x.sslConnecting /\ r.sslHandshake = x.sslHandshake
    /\ r.starters = x.starters /\ r.starter = x.starter
    /\ r.writes = x.writes /\ r.inbox = x.inbox
    /\ r.bound = x.bound /\ r.raised = x.raised

HasLeft(x, r) ==
    /\ Alike(x, r)
    /\ r.told = (IF "close" \in x.bound THEN Append(x.told, FALSE) ELSE x.told)
    /\ r.status = "closed" /\ r.connecting = FALSE
    /\ r.sslConnecting = x.sslConnecting /\ r.sslHandshake = x.sslHandshake
    /\ r.starters = x.starters /\ r.starter = x.starter
    /\ r.writes = FALSE /\ r.inbox = x.inbox
    /\ r.bound = {} /\ r.raised = x.raised

LEMMA TellFacts ==
    ASSUME NEW x \in Record, NEW ok \in BOOLEAN
    PROVE  HasTold(x, ok, Tell(x, ok))
<1>1. x.told \in Seq(BOOLEAN)
  BY DEF Record
<1>2. Append(x.told, ok) \in Seq(BOOLEAN)
  BY <1>1, AppendProperties
<1> QED BY <1>2 DEF Tell, Alike, Record, HasTold

LEMMA LeaveFacts ==
    ASSUME NEW x \in Record, x.status # "closed"
    PROVE  HasLeft(x, Leave(x))
<1> DEFINE a == [x EXCEPT !.status = "closed"]
           b == [a EXCEPT !.connecting = FALSE]
           c == [b EXCEPT !.writes = FALSE]
           d == [c EXCEPT !.bound = {}]
<1>1. a \in Record
  BY DEF Record
<1>2. d \in Record
  BY DEF Record
<1>3. d = [x EXCEPT !.status = "closed", !.connecting = FALSE,
                            !.writes = FALSE, !.bound = {}]
  BY DEF Record
<1>4. /\ Alike(x, d) /\ d.told = x.told
      /\ d.status = "closed" /\ d.connecting = FALSE
      /\ d.sslConnecting = x.sslConnecting /\ d.sslHandshake = x.sslHandshake
      /\ d.starters = x.starters /\ d.starter = x.starter
      /\ d.writes = FALSE /\ d.inbox = x.inbox
      /\ d.bound = {} /\ d.raised = x.raised
  BY <1>2 DEF Record, Alike
<1> HIDE DEF d
<1>5. Leave(x) = IF "close" \in x.bound THEN Tell(d, FALSE) ELSE d
  BY <1>3 DEF Leave
<1>6. CASE "close" \in x.bound
  <2>1. HasTold(d, FALSE, Tell(d, FALSE))
    BY <1>2, TellFacts
  <2>2. Leave(x) = Tell(d, FALSE)
    BY <1>5, <1>6
  <2>3. HasTold(d, FALSE, Leave(x))
    BY <2>1, <2>2
  <2> QED BY <1>4, <1>6, <2>3 DEF HasTold, HasLeft, Alike
<1>7. CASE "close" \notin x.bound
  <2>1. Leave(x) = d
    BY <1>5, <1>7
  <2> QED BY <1>4, <1>7, <2>1 DEF HasLeft
<1> QED BY <1>6, <1>7

-----------------------------------------------------------------------------
(* A call between two steps.                                               *)

\* what the caller and the poll may rely on
Honest(x) ==
    /\ x \in Record /\ x.kernel # "absent"
    /\ x.told \in {<<>>, <<TRUE>>, <<FALSE>>}
    /\ x.told = <<TRUE>> =>
          /\ x.kernel = "up" /\ ~x.connecting /\ ~x.sslConnecting
          /\ x.kind = "tls" => x.sslHandshake /\ x.trusted
    /\ x.told = <<FALSE>> => x.status = "closed"
    /\ x.bound = IF x.kind # "datagram" /\ x.told = <<>>
                    /\ x.status \in {"pending", "open"}
                 THEN {"connect", "close"} ELSE {}
    /\ x.kind # "datagram" =>
          /\ x.status = "closed" => x.told # <<>>
          /\ x.status = "open" /\ x.told = <<>> => x.connecting
    /\ x.kind = "datagram" =>
          /\ ~x.connecting /\ ~x.sslConnecting
          /\ x.status # "none" => x.kernel = "up"

\* what is there of the handshake, and of the kernel
Ready(x) ==
    /\ x.starters = 0
    /\ x.starter => x.sslConnecting
    /\ x.sslConnecting => x.kind = "tls" /\ x.kernel = "up"
    /\ x.peer # "quiet" => x.kernel = "up"
    /\ x.inbox => x.peer # "quiet"
    /\ x.status \in {"none", "pending"} =>
          /\ x.kernel = "idle" /\ ~x.connecting /\ ~x.sslConnecting
          /\ ~x.writes /\ x.told = <<>>
    /\ x.status = "open" => x.kernel # "idle"

Sound(x) ==
    Honest(x) /\ Ready(x) /\ ~x.raised /\ (x.sslConnecting => ~x.writes)

\* in the handshake, after an error of it, and after any handler
Handshaking(x) ==
    /\ x \in Record /\ x.kind = "tls" /\ x.status = "open" /\ x.connecting
    /\ x.kernel = "up" /\ x.told = <<>> /\ x.bound = {"connect", "close"}
    /\ x.starters = 0 /\ (x.inbox => x.peer # "quiet")

Hurt(x) ==
    Handshaking(x) /\ x.raised /\ (x.starter => x.sslConnecting) /\ x.peer # "quiet"

Settled(x, r) ==
    /\ Alike(x, r)
    /\ IF r.raised THEN Hurt(r) ELSE Sound(r) /\ (r.starter => r.status = "open")
    /\ x.status = "open" => r.status \in {"open", "closed"}
    /\ x.kind = "datagram" => r.told = x.told

LEMMA LeaveSound ==
    ASSUME NEW x, Honest(x), Ready(x), ~x.raised, x.status \in {"pending", "open"}
    PROVE  /\ Sound(Leave(x)) /\ Alike(x, Leave(x)) /\ Leave(x).status = "closed"
           /\ x.kind = "datagram" => Leave(x).told = x.told
           /\ x.starter = Leave(x).starter
<1> DEFINE r == Leave(x)
<1>1. x \in Record /\ x.status # "closed"
  BY DEF Honest
<1>2. HasLeft(x, r)
  BY <1>1, LeaveFacts
<1> HIDE DEF r
<1>3. /\ Append(<<>>, FALSE) = <<FALSE>>
      /\ <<FALSE>> # <<>> /\ <<TRUE>> # <<>> /\ <<FALSE>> # <<TRUE>>
  OBVIOUS
<1>4. \/ r.told = <<FALSE>> /\ x.kind # "datagram" /\ x.told = <<>>
      \/ r.told = x.told /\ (x.kind = "datagram" \/ x.told = <<TRUE>>)
  <2>1. x.told \in {<<>>, <<TRUE>>}
    BY <1>1 DEF Honest
  <2>2. CASE x.kind # "datagram" /\ x.told = <<>>
    <3>1. "close" \in x.bound
      BY <2>2 DEF Honest
    <3>2. r.told = Append(x.told, FALSE)
      BY <1>2, <3>1 DEF HasLeft
    <3> QED BY <1>3, <2>2, <3>2
  <2>3. CASE x.kind = "datagram" \/ x.told # <<>>
    <3>1. "close" \notin x.bound
      BY <2>3 DEF Honest
    <3>2. r.told = x.told
      BY <1>2, <3>1 DEF HasLeft
    <3> QED BY <2>1, <2>3, <3>2
  <2> QED BY <2>2, <2>3
<1>5. Honest(r)
  <2>1. /\ Alike(x, r) /\ r.status = "closed" /\ ~r.connecting
        /\ r.sslConnecting = x.sslConnecting /\ r.sslHandshake = x.sslHandshake
        /\ r.bound = {}
    BY <1>2 DEF HasLeft
  <2>2. r \in Record /\ r.kernel # "absent"
    BY <2>1 DEF Alike, Honest
  <2>3. r.told \in {<<>>, <<TRUE>>, <<FALSE>>}
    BY <1>4 DEF Honest
  <2>4. ASSUME r.told = <<TRUE>>
        PROVE  /\ r.kernel = "up" /\ ~r.connecting /\ ~r.sslConnecting
               /\ r.kind = "tls" => r.sslHandshake /\ r.trusted
    <3>1. <<TRUE>> # <<FALSE>>
      OBVIOUS
    <3>2. x.told = <<TRUE>>
      BY <1>4, <2>4, <3>1
    <3> QED BY <2>1, <3>2 DEF Alike, Honest
  <2>5. r.kind # "datagram" => r.told # <<>>
    BY <1>3, <1>4, <2>1 DEF Alike
  <2>6. r.kind = "datagram" => ~r.sslConnecting /\ r.kernel = "up"
    BY <2>1 DEF Alike, Honest
  <2> QED BY <2>1, <2>2, <2>3, <2>4, <2>5, <2>6 DEF Honest
<1>6. Ready(r) /\ ~r.raised /\ ~r.writes
  BY <1>2 DEF HasLeft, Alike, Ready
<1> QED BY <1>2, <1>4, <1>5, <1>6 DEF Sound, HasLeft, r

LEMMA JoinedSound ==
    ASSUME NEW x, Honest(x), Ready(x), ~x.raised, x.status = "open", x.connecting,
           x.kernel = "up", ~x.sslConnecting,
           x.kind = "tls" => x.sslHandshake /\ x.trusted
    PROVE  Settled(x, Joined(x)) /\ ~Joined(x).raised
<1> DEFINE a == [x EXCEPT !.writes = FALSE]
           b == [a EXCEPT !.connecting = FALSE]
           up == [b EXCEPT !.bound = {}]
           heard == Tell(up, TRUE)
<1>1. x \in Record /\ x.told = <<>> /\ x.kind # "datagram" /\ "connect" \in x.bound
  BY DEF Honest
<1>2. up \in Record /\ up = [x EXCEPT !.writes = FALSE, !.connecting = FALSE, !.bound = {}]
  BY <1>1 DEF Record
<1>3. /\ Alike(x, up) /\ up.told = <<>> /\ up.status = "open"
      /\ ~up.connecting /\ ~up.sslConnecting /\ up.sslHandshake = x.sslHandshake
      /\ up.starters = x.starters /\ up.starter = x.starter /\ ~up.writes
      /\ up.inbox = x.inbox /\ up.bound = {} /\ up.raised = x.raised
  BY <1>1, <1>2 DEF Record, Alike
<1> HIDE DEF up
<1>4. HasTold(up, TRUE, heard)
  BY <1>2, TellFacts
<1>5. Joined(x) = IF x.hangs THEN Leave(heard) ELSE heard
  BY <1>1, <1>2 DEF Joined
<1> HIDE DEF heard
<1>6. heard.told = <<TRUE>> /\ <<TRUE>> # <<>> /\ <<TRUE>> # <<FALSE>>
  BY <1>3, <1>4 DEF HasTold
<1>7. /\ Alike(x, heard) /\ heard.status = "open"
      /\ ~heard.connecting /\ ~heard.sslConnecting
      /\ heard.sslHandshake = x.sslHandshake
      /\ heard.starters = x.starters /\ heard.starter = x.starter /\ ~heard.writes
      /\ heard.inbox = x.inbox /\ heard.bound = {} /\ ~heard.raised
  BY <1>3, <1>4 DEF HasTold, Alike
<1>8. Honest(heard)
  BY <1>1, <1>6, <1>7 DEF Honest, Alike
<1>9. Ready(heard) /\ ~heard.starter
  BY <1>1, <1>6, <1>7 DEF Ready, Alike
<1>10. Sound(heard)
  BY <1>7, <1>8, <1>9 DEF Sound
<1>11. CASE x.hangs
  <2>1. /\ Sound(Leave(heard)) /\ Alike(heard, Leave(heard))
        /\ Leave(heard).status = "closed" /\ ~Leave(heard).starter
    BY <1>7, <1>8, <1>9, LeaveSound
  <2>2. Joined(x) = Leave(heard)
    BY <1>5, <1>11
  <2> QED BY <1>1, <1>7, <2>1, <2>2 DEF Settled, Alike, Sound
<1>12. CASE ~x.hangs
  BY <1>1, <1>5, <1>7, <1>9, <1>10, <1>12 DEF Settled
<1> QED BY <1>11, <1>12

LEMMA CaughtSound ==
    ASSUME NEW x, Hurt(x)
    PROVE  Sound(Caught(x)) /\ Alike(x, Caught(x)) /\ Caught(x).status = "closed"
<1> DEFINE y == [x EXCEPT !.raised = FALSE]
<1>1. x \in Record
  BY DEF Hurt, Handshaking
<1>2. y \in Record /\ Alike(x, y) /\ y.told = x.told /\ y.status = x.status
      /\ y.connecting = x.connecting /\ y.sslConnecting = x.sslConnecting
      /\ y.sslHandshake = x.sslHandshake /\ y.starters = x.starters
      /\ y.starter = x.starter /\ y.inbox = x.inbox
      /\ y.bound = x.bound /\ ~y.raised
  BY <1>1 DEF Record, Alike
<1>3. Caught(x) = Leave(y)
  BY DEF Caught, Hurt
<1> HIDE DEF y
<1>4. Honest(y)
  BY <1>2 DEF Honest, Hurt, Handshaking, Alike
<1>5. Ready(y)
  BY <1>2 DEF Ready, Hurt, Handshaking, Alike
<1>6. y.status = "open"
  BY <1>2 DEF Hurt, Handshaking
<1> QED BY <1>2, <1>3, <1>4, <1>5, <1>6, LeaveSound DEF Alike

LEMMA HandshakeSound ==
    ASSUME NEW x, Handshaking(x), ~x.raised
    PROVE  Settled(x, ClientHandshake(x))
<1> DEFINE a == [x EXCEPT !.sslHandshake = FALSE]
           begun == [a EXCEPT !.sslConnecting = TRUE]
           hurt == [begun EXCEPT !.raised = TRUE]
           waits == [begun EXCEPT !.writes = FALSE]
           e == [x EXCEPT !.sslHandshake = TRUE]
           f == [e EXCEPT !.sslConnecting = FALSE]
           g == [f EXCEPT !.starter = FALSE]
           over == [g EXCEPT !.inbox = FALSE]
           refuses == [over EXCEPT !.raised = TRUE]
<1>1. x \in Record
  BY DEF Handshaking
<1>2. CASE x.peer = "gone"
  <2>1. ClientHandshake(x) = hurt
    BY <1>1, <1>2 DEF ClientHandshake, Record
  <2>2. /\ Alike(x, hurt) /\ hurt.status = x.status /\ hurt.connecting = x.connecting
        /\ hurt.told = x.told /\ hurt.bound = x.bound /\ hurt.starters = x.starters
        /\ hurt.inbox = x.inbox /\ hurt.raised = TRUE /\ hurt.sslConnecting = TRUE
    BY <1>1 DEF Record, Alike
  <2> HIDE DEF hurt
  <2>3. Hurt(hurt)
    BY <1>2, <2>2 DEF Hurt, Handshaking, Alike
  <2> QED BY <2>1, <2>2, <2>3 DEF Settled, Handshaking
<1>3. CASE x.peer = "quiet"
  <2>1. ClientHandshake(x) = waits
    BY <1>1, <1>3 DEF ClientHandshake, Record
  <2>2. /\ Alike(x, waits) /\ waits.status = x.status
        /\ waits.connecting = x.connecting
        /\ waits.told = x.told /\ waits.bound = x.bound /\ waits.starters = x.starters
        /\ waits.inbox = x.inbox /\ waits.raised = x.raised
        /\ waits.sslConnecting = TRUE /\ waits.writes = FALSE
    BY <1>1 DEF Record, Alike
  <2> HIDE DEF waits
  <2>3. Honest(waits)
    BY <2>2 DEF Handshaking, Alike, Honest
  <2>4. Ready(waits)
    BY <2>2 DEF Handshaking, Alike, Ready
  <2>5. Sound(waits)
    BY <2>2, <2>3, <2>4 DEF Sound
  <2> QED BY <2>1, <2>2, <2>5 DEF Settled, Handshaking
<1>4. CASE x.peer = "answered"
  <2>1. /\ over \in Record
        /\ over = [x EXCEPT !.sslHandshake = TRUE, !.sslConnecting = FALSE,
                            !.starter = FALSE, !.inbox = FALSE]
    BY <1>1 DEF Record
  <2>2. /\ Alike(x, over) /\ over.status = x.status /\ over.connecting = x.connecting
        /\ over.told = x.told /\ over.bound = x.bound /\ over.starters = x.starters
        /\ over.inbox = FALSE /\ over.raised = x.raised
        /\ over.sslConnecting = FALSE /\ over.sslHandshake = TRUE
        /\ over.starter = FALSE
    BY <1>1, <2>1 DEF Record, Alike
  <2>3. ClientHandshake(x) = ClientSsl(over)
    BY <1>4, <2>1 DEF ClientHandshake
  <2>4. CASE ~x.trusted
    <3>1. ClientHandshake(x) = refuses
      BY <2>2, <2>3, <2>4 DEF ClientSsl, Alike
    <3>2. /\ Alike(x, refuses) /\ refuses.status = x.status
          /\ refuses.connecting = x.connecting /\ refuses.told = x.told
          /\ refuses.bound = x.bound /\ refuses.starters = x.starters
          /\ refuses.inbox = FALSE /\ refuses.raised = TRUE /\ refuses.starter = FALSE
      BY <1>1, <2>1, <2>2 DEF Record, Alike
    <3> HIDE DEF refuses
    <3>3. Hurt(refuses)
      BY <1>4, <3>2 DEF Hurt, Handshaking, Alike
    <3> QED BY <3>1, <3>2, <3>3 DEF Settled, Handshaking
  <2>5. CASE x.trusted
    <3> HIDE DEF over
    <3>1. ClientHandshake(x) = Joined(over)
      BY <2>2, <2>3, <2>5 DEF ClientSsl, Alike, Handshaking
    <3>2. Honest(over)
      BY <2>2 DEF Handshaking, Alike, Honest
    <3>3. Ready(over)
      BY <2>2 DEF Handshaking, Alike, Ready
    <3>4. Settled(over, Joined(over))
      BY <2>2, <2>5, <3>2, <3>3, JoinedSound DEF Handshaking, Alike
    <3> QED BY <2>2, <3>1, <3>4 DEF Settled, Alike, Handshaking
  <2> QED BY <2>4, <2>5
<1> QED BY <1>1, <1>2, <1>3, <1>4 DEF Record

LEMMA FinishSound ==
    ASSUME NEW x, Sound(x), x.status = "open", x.connecting,
           x.kernel \in {"up", "refused"}
    PROVE  Settled(x, FinishConnect(x))
<1>1. x \in Record /\ Honest(x) /\ Ready(x) /\ ~x.raised
  BY DEF Sound, Honest
<1>2. x.told = <<>> /\ x.kind \in {"tcp", "tls"}
  BY <1>1 DEF Honest, Record, Sorts
<1>3. CASE x.sslConnecting
  BY <1>1, <1>3 DEF FinishConnect, Settled, Alike
<1>4. CASE ~x.sslConnecting /\ x.kernel = "refused"
  <2>1. FinishConnect(x) = Leave(x) /\ ~x.starter
    BY <1>1, <1>4 DEF FinishConnect, Ready
  <2>2. /\ Sound(Leave(x)) /\ Alike(x, Leave(x)) /\ Leave(x).status = "closed"
        /\ x.starter = Leave(x).starter
    BY <1>1, LeaveSound
  <2> QED BY <1>2, <2>1, <2>2 DEF Settled, Sound
<1>5. CASE ~x.sslConnecting /\ x.kernel = "up" /\ x.kind = "tls"
  <2> DEFINE y == [x EXCEPT !.starters = @ + 1]
             v == [y EXCEPT !.starters = @ - 1]
             z == [x EXCEPT !.starter = TRUE]
  <2>1. x.starters = 0 /\ x.starter = FALSE
    BY <1>1, <1>5 DEF Record, Ready
  <2>2. y = [x EXCEPT !.starters = 1] /\ y.starters = 1 /\ y.starter = FALSE
    BY <1>1, <2>1 DEF Record
  <2> HIDE DEF y
  <2>3. v = [y EXCEPT !.starters = 0]
    BY <2>2
  <2>4. v = x
    <3>1. v = [[x EXCEPT !.starters = 1] EXCEPT !.starters = 0]
      BY <2>2, <2>3
    <3>2. [[x EXCEPT !.starters = 1] EXCEPT !.starters = 0] = [x EXCEPT !.starters = 0]
      BY <1>1 DEF Record
    <3>3. [x EXCEPT !.starters = 0] = x
      BY <1>1, <2>1 DEF Record
    <3> QED BY <3>1, <3>2, <3>3
  <2>5. [y EXCEPT !.starters = @ - 1, !.starter = TRUE] = [v EXCEPT !.starter = TRUE]
    OBVIOUS
  <2>6. [y EXCEPT !.starters = @ - 1, !.starter = TRUE] = z
    BY <2>4, <2>5
  <2>7. FinishConnect(x) = ClientHandshake(z)
    BY <1>5, <2>2, <2>6 DEF FinishConnect, Pending, y
  <2>8. /\ z.status = x.status /\ z.connecting = x.connecting /\ z.told = x.told
        /\ z.bound = x.bound /\ z.starters = 0 /\ z.inbox = x.inbox
        /\ z.raised = x.raised
    BY <1>1, <2>1 DEF Record
  <2>9. Alike(x, z)
    BY <1>1 DEF Record, Alike
  <2> HIDE DEF z
  <2>10. Handshaking(z)
    BY <1>1, <1>2, <1>5, <2>8, <2>9 DEF Handshaking, Alike, Ready, Honest
  <2>11. Settled(z, ClientHandshake(z))
    BY <1>1, <2>8, <2>10, HandshakeSound
  <2> QED BY <1>2, <2>7, <2>8, <2>9, <2>11 DEF Settled, Alike
<1>6. CASE ~x.sslConnecting /\ x.kernel = "up" /\ x.kind = "tcp"
  BY <1>1, <1>6, JoinedSound DEF FinishConnect
<1> QED BY <1>2, <1>3, <1>4, <1>5, <1>6

LEMMA ContinuedSound ==
    ASSUME NEW x, Sound(x), x.status = "open", x.kernel \in {"up", "refused"}
    PROVE  Settled(x, Continued(x))
<1>1. CASE x.connecting
  BY <1>1, FinishSound DEF Continued
<1>2. CASE ~x.connecting
  BY <1>2 DEF Continued, Settled, Sound, Honest, Alike
<1> QED BY <1>1, <1>2

LEMMA PendingSound ==
    ASSUME NEW x, Sound(x), x.starter => x.status = "open"
    PROVE  /\ Settled(x, Pending(x))
           /\ x.status = "closed" => Pending(x) = x
<1>1. x \in Record /\ Honest(x) /\ Ready(x) /\ ~x.raised
  BY DEF Sound, Honest
<1>2. CASE x.starter
  <2>1. x.told = <<>> /\ x.kind = "tls" /\ x.kernel = "up" /\ x.connecting
    BY <1>1, <1>2 DEF Honest, Ready
  <2>2. Handshaking(x)
    BY <1>1, <1>2, <2>1 DEF Handshaking, Honest, Ready
  <2> QED BY <1>1, <1>2, <2>2, HandshakeSound DEF Pending
<1>3. CASE ~x.starter
  <2>1. Pending(x) = x
    BY <1>1, <1>3 DEF Pending, Ready
  <2> QED BY <1>1, <1>3, <2>1 DEF Settled, Alike
<1> QED BY <1>2, <1>3

-----------------------------------------------------------------------------
(* What the poll calls.                                                     *)

Handled(x, r) ==
    /\ Alike(x, r) /\ Sound(r) /\ r.status \in {"open", "closed"}
    /\ x.kind = "datagram" => r.told = x.told

Polled(x) == Sound(x) /\ x.status \in {"open", "closed"} /\ x.kernel \in {"up", "refused"}

LEMMA HandledBefore ==
    ASSUME NEW x, NEW y, NEW r, Handled(x, y), Handled(y, r)
    PROVE  Handled(x, r)
BY DEF Handled, Alike

LEMMA ReadSound ==
    ASSUME NEW x, Polled(x)
    PROVE  Handled(x, Read(x))
<1>1. x \in Record /\ Sound(x)
  BY DEF Polled, Sound, Honest
<1>2. CASE x.status # "open"
  BY <1>1, <1>2 DEF Read, Polled, Handled, Alike
<1>3. CASE x.status = "open"
  <2> DEFINE on == Continued(x)
             after == IF on.raised THEN on ELSE Pending(on)
             calm == [after EXCEPT !.inbox = FALSE]
  <2>1. Settled(x, on)
    BY <1>1, <1>3, ContinuedSound DEF Polled
  <2>2. on.status \in {"open", "closed"} /\ Alike(x, on)
    BY <1>3, <2>1 DEF Settled
  <2>3. Read(x) = IF after.raised THEN Caught(after)
                  ELSE IF after.starter \/ after.status = "closed" THEN after
                  ELSE IF after.peer = "gone" THEN Leave(after)
                  ELSE calm
    BY <1>3 DEF Read
  <2> HIDE DEF on
  <2>4. Settled(x, after) /\ after.status \in {"open", "closed"}
    <3>1. CASE on.raised
      BY <2>1, <2>2, <3>1
    <3>2. CASE ~on.raised
      <4>1. Sound(on) /\ (on.starter => on.status = "open")
        BY <2>1, <3>2 DEF Settled
      <4>2. Settled(on, Pending(on)) /\ (on.status = "closed" => Pending(on) = on)
        BY <4>1, PendingSound
      <4>3. after = Pending(on)
        BY <3>2
      <4> HIDE DEF after
      <4>4. after.status \in {"open", "closed"}
        BY <2>2, <4>2, <4>3 DEF Settled
      <4> QED BY <1>3, <2>1, <4>2, <4>3, <4>4 DEF Settled, Alike
    <3> QED BY <3>1, <3>2
  <2> HIDE DEF after
  <2>5. CASE after.raised
    <3>1. Hurt(after) /\ Alike(x, after)
      BY <2>4, <2>5 DEF Settled
    <3>2. Sound(Caught(after)) /\ Alike(after, Caught(after)) /\ Caught(after).status = "closed"
      BY <3>1, CaughtSound
    <3>3. x.kind # "datagram"
      BY <3>1 DEF Hurt, Handshaking, Alike
    <3>4. Read(x) = Caught(after)
      BY <2>3, <2>5
    <3> QED BY <3>1, <3>2, <3>3, <3>4 DEF Handled, Alike
  <2>6. CASE ~after.raised
    <3>1. Sound(after) /\ Alike(x, after) /\ (x.kind = "datagram" => after.told = x.told)
      BY <2>4, <2>6 DEF Settled
    <3>2. CASE after.starter \/ after.status = "closed"
      BY <2>3, <2>4, <2>6, <3>1, <3>2 DEF Handled
    <3>3. CASE ~after.starter /\ after.status = "open" /\ after.peer = "gone"
      <4>1. Read(x) = Leave(after)
        BY <2>3, <2>6, <3>3
      <4>2. Honest(after) /\ Ready(after)
        BY <3>1 DEF Sound
      <4>3. /\ Sound(Leave(after)) /\ Alike(after, Leave(after))
            /\ Leave(after).status = "closed"
            /\ after.kind = "datagram" => Leave(after).told = after.told
        BY <2>6, <3>3, <4>2, LeaveSound
      <4> QED BY <3>1, <4>1, <4>3 DEF Handled, Alike
    <3>4. CASE ~after.starter /\ after.status = "open" /\ after.peer # "gone"
      <4>1. Read(x) = calm
        BY <2>3, <2>6, <3>4
      <4>2. after \in Record
        BY <3>1 DEF Alike
      <4>3. /\ Alike(after, calm) /\ calm.inbox = FALSE /\ calm.status = after.status
            /\ calm.told = after.told /\ calm.connecting = after.connecting
            /\ calm.sslConnecting = after.sslConnecting
            /\ calm.sslHandshake = after.sslHandshake /\ calm.starters = after.starters
            /\ calm.starter = after.starter /\ calm.writes = after.writes
            /\ calm.bound = after.bound /\ calm.raised = after.raised
        BY <4>2 DEF Record, Alike
      <4> HIDE DEF calm
      <4>4. Honest(calm)
        BY <3>1, <4>3 DEF Sound, Honest, Alike
      <4>5. Ready(calm)
        BY <3>1, <4>3 DEF Sound, Ready, Alike
      <4>6. Sound(calm)
        BY <3>1, <4>3, <4>4, <4>5 DEF Sound
      <4> QED BY <2>4, <3>1, <4>1, <4>3, <4>6 DEF Handled, Alike
    <3> QED BY <2>4, <3>2, <3>3, <3>4
  <2> QED BY <2>5, <2>6
<1> QED BY <1>2, <1>3

LEMMA WriteSound ==
    ASSUME NEW x, Polled(x)
    PROVE  Handled(x, Write(x))
<1>1. x \in Record /\ Sound(x)
  BY DEF Polled, Sound, Honest
<1>2. CASE x.status # "open"
  BY <1>1, <1>2 DEF Write, Polled, Handled, Alike
<1>3. CASE x.status = "open"
  <2> DEFINE on == Continued(x)
  <2>1. Settled(x, on)
    BY <1>1, <1>3, ContinuedSound DEF Polled
  <2>2. Write(x) = Caught(on)
    BY <1>3 DEF Write
  <2> HIDE DEF on
  <2>3. CASE on.raised
    <3>1. Hurt(on) /\ Alike(x, on)
      BY <2>1, <2>3 DEF Settled
    <3>2. Sound(Caught(on)) /\ Alike(on, Caught(on)) /\ Caught(on).status = "closed"
      BY <3>1, CaughtSound
    <3>3. x.kind # "datagram"
      BY <3>1 DEF Hurt, Handshaking, Alike
    <3> QED BY <2>2, <3>1, <3>2, <3>3 DEF Handled, Alike
  <2>4. CASE ~on.raised
    BY <1>3, <2>1, <2>2, <2>4 DEF Caught, Settled, Handled
  <2> QED BY <2>3, <2>4
<1> QED BY <1>2, <1>3

LEMMA ErrorSound ==
    ASSUME NEW x, Polled(x)
    PROVE  Handled(x, Error(x))
<1>1. x \in Record /\ Honest(x) /\ Ready(x) /\ ~x.raised /\ Sound(x)
  BY DEF Polled, Sound, Honest
<1>2. CASE x.status # "open"
  BY <1>1, <1>2 DEF Error, Polled, Handled, Alike
<1>3. CASE x.status = "open"
  <2>1. /\ Sound(Leave(x)) /\ Alike(x, Leave(x)) /\ Leave(x).status = "closed"
        /\ x.kind = "datagram" => Leave(x).told = x.told
    BY <1>1, <1>3, LeaveSound
  <2> QED BY <1>3, <2>1 DEF Error, Handled
<1> QED BY <1>2, <1>3

-----------------------------------------------------------------------------
(* The steps.                                                               *)

\* what the loop has to call of a connection
Due(x) ==
    IF x.kind = "datagram" THEN x.told = <<>> /\ x.status # "none"
    ELSE x.status \in {"pending", "closed"}

TurnIsDue == \A n \in 1 .. Len(turn) : Due(calls[turn[n]])

TurnIsOnce == \A m, n \in 1 .. Len(turn) : m # n => turn[m] # turn[n]

ConnectorInv ==
    /\ calls \in [Calls -> Record] /\ turn \in Seq(Calls)
    /\ \A i \in Calls : Sound(calls[i])
    /\ TurnIsDue /\ TurnIsOnce

\* a step of one connection that leaves the calls of the loop as they are
LEMMA Kept ==
    ASSUME ConnectorInv, NEW i \in Calls, NEW r, Sound(r),
           Due(calls[i]) => Due(r),
           calls' = [calls EXCEPT ![i] = r], turn' = turn
    PROVE  ConnectorInv'
<1>1. r \in Record
  BY DEF Sound, Honest
<1>2. calls' \in [Calls -> Record] /\ turn' \in Seq(Calls)
  BY <1>1 DEF ConnectorInv
<1>3. \A j \in Calls : calls'[j] = IF j = i THEN r ELSE calls[j]
  BY DEF ConnectorInv
<1>4. \A j \in Calls : Sound(calls'[j])
  BY <1>3 DEF ConnectorInv
<1>5. \A n \in 1 .. Len(turn) : turn[n] \in Calls
  BY DEF ConnectorInv
<1>6. TurnIsDue'
  BY <1>3, <1>5 DEF ConnectorInv, TurnIsDue
<1>7. TurnIsOnce'
  BY DEF ConnectorInv, TurnIsOnce
<1> QED BY <1>2, <1>4, <1>6, <1>7 DEF ConnectorInv

\* a call of the user, which the loop is given
LEMMA Given ==
    ASSUME ConnectorInv, NEW i \in Calls, NEW r, Sound(r),
           ~Due(calls[i]), Due(r),
           calls' = [calls EXCEPT ![i] = r], turn' = Append(turn, i)
    PROVE  ConnectorInv'
<1>1. r \in Record /\ turn \in Seq(Calls)
  BY DEF Sound, Honest, ConnectorInv
<1>2. /\ turn' \in Seq(Calls) /\ Len(turn') = Len(turn) + 1
      /\ \A n \in 1 .. Len(turn) : turn'[n] = turn[n]
      /\ turn'[Len(turn) + 1] = i
  BY <1>1, AppendProperties
<1>3. calls' \in [Calls -> Record]
  BY <1>1 DEF ConnectorInv
<1>4. \A j \in Calls : calls'[j] = IF j = i THEN r ELSE calls[j]
  BY DEF ConnectorInv
<1>5. \A j \in Calls : Sound(calls'[j])
  BY <1>4 DEF ConnectorInv
<1>6. Len(turn) \in Nat
  BY <1>1, LenProperties
<1>7. \A n \in 1 .. Len(turn) : turn[n] \in Calls /\ turn[n] # i
  BY <1>1, ElementOfSeq DEF ConnectorInv, TurnIsDue
<1>8. TurnIsDue'
  <2> SUFFICES ASSUME NEW n \in 1 .. Len(turn')
               PROVE  Due(calls'[turn'[n]])
    BY DEF TurnIsDue
  <2>1. CASE n = Len(turn) + 1
    BY <1>2, <1>4, <2>1
  <2>2. CASE n \in 1 .. Len(turn)
    <3>1. turn'[n] = turn[n] /\ calls'[turn[n]] = calls[turn[n]]
      BY <1>2, <1>4, <1>7, <2>2
    <3> QED BY <2>2, <3>1 DEF ConnectorInv, TurnIsDue
  <2> QED BY <1>2, <1>6, <2>1, <2>2
<1>9. TurnIsOnce'
  <2> SUFFICES ASSUME NEW m \in 1 .. Len(turn'), NEW n \in 1 .. Len(turn'), m # n
               PROVE  turn'[m] # turn'[n]
    BY DEF TurnIsOnce
  <2>1. m \in 1 .. Len(turn) \/ m = Len(turn) + 1
    BY <1>2, <1>6
  <2>2. n \in 1 .. Len(turn) \/ n = Len(turn) + 1
    BY <1>2, <1>6
  <2> QED BY <1>2, <1>7, <2>1, <2>2 DEF ConnectorInv, TurnIsOnce
<1> QED BY <1>2, <1>3, <1>5, <1>8, <1>9 DEF ConnectorInv

\* what the loop called
LEMMA Called ==
    ASSUME ConnectorInv, turn # <<>>, NEW r, Sound(r),
           calls' = [calls EXCEPT ![Head(turn)] = r], turn' = Tail(turn)
    PROVE  ConnectorInv'
<1> DEFINE i == Head(turn)
<1>1. r \in Record /\ turn \in Seq(Calls)
  BY DEF Sound, Honest, ConnectorInv
<1>2. /\ turn' \in Seq(Calls) /\ Len(turn') = Len(turn) - 1
      /\ \A n \in 1 .. Len(turn') : turn'[n] = turn[n + 1]
      /\ i = turn[1] /\ i \in Calls
  BY <1>1, HeadTailProperties
<1> HIDE DEF i
<1>3. calls' \in [Calls -> Record]
  BY <1>1, <1>2 DEF ConnectorInv, i
<1>4. \A j \in Calls : calls'[j] = IF j = i THEN r ELSE calls[j]
  BY DEF ConnectorInv, i
<1>5. \A j \in Calls : Sound(calls'[j])
  BY <1>4 DEF ConnectorInv
<1>6. Len(turn) \in Nat /\ Len(turn) >= 1
  BY <1>1, LenProperties, EmptySeq
<1>7. \A n \in 1 .. Len(turn') : n + 1 \in 1 .. Len(turn)
  BY <1>2, <1>6
<1>8. \A n \in 1 .. Len(turn') : turn[n + 1] \in Calls /\ turn[n + 1] # i
  <2> SUFFICES ASSUME NEW n \in 1 .. Len(turn')
               PROVE  turn[n + 1] \in Calls /\ turn[n + 1] # i
    OBVIOUS
  <2>1. n + 1 \in 1 .. Len(turn) /\ 1 \in 1 .. Len(turn) /\ n + 1 # 1
    BY <1>6, <1>7
  <2> QED BY <1>1, <1>2, <2>1, ElementOfSeq DEF ConnectorInv, TurnIsOnce
<1>9. TurnIsDue'
  <2> SUFFICES ASSUME NEW n \in 1 .. Len(turn')
               PROVE  Due(calls'[turn'[n]])
    BY DEF TurnIsDue
  <2>1. calls'[turn'[n]] = calls[turn[n + 1]]
    BY <1>2, <1>4, <1>8
  <2> QED BY <1>7, <2>1 DEF ConnectorInv, TurnIsDue
<1>10. TurnIsOnce'
  <2> SUFFICES ASSUME NEW m \in 1 .. Len(turn'), NEW n \in 1 .. Len(turn'), m # n
               PROVE  turn'[m] # turn'[n]
    BY DEF TurnIsOnce
  <2>1. m + 1 # n + 1
    OBVIOUS
  <2> QED BY <1>2, <1>7, <2>1 DEF ConnectorInv, TurnIsOnce
<1> QED BY <1>2, <1>3, <1>5, <1>9, <1>10 DEF ConnectorInv

LEMMA Here ==
    ASSUME ConnectorInv, NEW i \in Calls
    PROVE  /\ calls[i] \in Record /\ Sound(calls[i]) /\ Honest(calls[i])
           /\ Ready(calls[i]) /\ ~calls[i].raised
BY DEF ConnectorInv, Sound

LEMMA HeadIsDue ==
    ASSUME ConnectorInv, turn # <<>>
    PROVE  Head(turn) \in Calls /\ Due(calls[Head(turn)])
<1>1. turn \in Seq(Calls)
  BY DEF ConnectorInv
<1>2. Head(turn) = turn[1] /\ Head(turn) \in Calls
  BY <1>1, HeadTailProperties
<1>3. 1 \in 1 .. Len(turn)
  BY <1>1, LenProperties, EmptySeq
<1> QED BY <1>2, <1>3 DEF ConnectorInv, TurnIsDue

LEMMA ConnectCallStep ==
    ASSUME ConnectorInv, NEW i \in Calls, ConnectCall(i)
    PROVE  ConnectorInv'
<1> DEFINE x == calls[i]
           y == [x EXCEPT !.status = "pending"]
           r == [y EXCEPT !.bound = {"connect", "close"}]
<1>1. /\ x \in Record /\ Sound(x) /\ Honest(x) /\ Ready(x) /\ x.status = "none"
      /\ x.kind # "datagram"
  BY Here DEF ConnectCall
<1>2. calls' = [calls EXCEPT ![i] = r] /\ turn' = Append(turn, i)
  BY DEF ConnectCall, ConnectorInv
<1>3. y \in Record
  BY <1>1 DEF Record
<1>4. r \in Record
  BY <1>3 DEF Record
<1>5. /\ Alike(x, r) /\ r.status = "pending" /\ r.bound = {"connect", "close"}
      /\ r.told = x.told /\ r.connecting = x.connecting
      /\ r.sslConnecting = x.sslConnecting /\ r.sslHandshake = x.sslHandshake
      /\ r.starters = x.starters /\ r.starter = x.starter /\ r.writes = x.writes
      /\ r.inbox = x.inbox /\ r.raised = x.raised
  BY <1>1, <1>4 DEF Record, Alike
<1>6. ~Due(x)
  BY <1>1 DEF Due
<1> HIDE DEF x, r
<1>7. Honest(r)
  BY <1>1, <1>5 DEF Honest, Ready, Alike
<1>8. Ready(r)
  BY <1>1, <1>5 DEF Ready, Alike
<1>9. Sound(r)
  BY <1>1, <1>5, <1>7, <1>8 DEF Sound
<1>10. Due(r)
  BY <1>1, <1>5 DEF Due, Alike
<1> QED BY <1>2, <1>6, <1>9, <1>10, Given DEF x

LEMMA DatagramCallStep ==
    ASSUME ConnectorInv, NEW i \in Calls, DatagramCall(i)
    PROVE  ConnectorInv'
<1> DEFINE x == calls[i]
           y == [x EXCEPT !.status = "open"]
           r == [y EXCEPT !.kernel = "up"]
<1>1. /\ x \in Record /\ Sound(x) /\ Honest(x) /\ Ready(x) /\ x.status = "none"
      /\ x.kind = "datagram"
  BY Here DEF DatagramCall
<1>2. calls' = [calls EXCEPT ![i] = r] /\ turn' = Append(turn, i)
  BY DEF DatagramCall, ConnectorInv
<1>3. y \in Record
  BY <1>1 DEF Record
<1>4. /\ r \in Record /\ r.kind = x.kind /\ r.peer = x.peer
      /\ r.status = "open" /\ r.bound = x.bound /\ r.kernel = "up"
      /\ r.told = x.told /\ r.connecting = x.connecting
      /\ r.sslConnecting = x.sslConnecting /\ r.sslHandshake = x.sslHandshake
      /\ r.starters = x.starters /\ r.starter = x.starter /\ r.writes = x.writes
      /\ r.inbox = x.inbox /\ r.raised = x.raised
  BY <1>1, <1>3 DEF Record
<1>5. ~Due(x)
  BY <1>1 DEF Due
<1> HIDE DEF x, r
<1>6. Honest(r)
  BY <1>1, <1>4 DEF Honest, Ready
<1>7. Ready(r)
  BY <1>1, <1>4 DEF Ready
<1>8. Sound(r)
  BY <1>1, <1>4, <1>6, <1>7 DEF Sound
<1>9. Due(r)
  BY <1>1, <1>4 DEF Due, Ready
<1> QED BY <1>2, <1>5, <1>8, <1>9, Given DEF x

LEMMA ReportStep ==
    ASSUME ConnectorInv, Report
    PROVE  ConnectorInv'
<1> DEFINE x == calls[Head(turn)]
           r == Tell(x, TRUE)
<1>1. /\ x \in Record /\ Sound(x) /\ Honest(x) /\ Ready(x) /\ x.told = <<>>
      /\ x.kind = "datagram" /\ x.status # "none"
  BY Here, HeadIsDue DEF Report, Due
<1>2. turn # <<>> /\ calls' = [calls EXCEPT ![Head(turn)] = r] /\ turn' = Tail(turn)
  BY DEF Report, ConnectorInv
<1>3. HasTold(x, TRUE, r)
  BY <1>1, TellFacts
<1> HIDE DEF x, r
<1>4. r.told = <<TRUE>> /\ <<TRUE>> # <<FALSE>> /\ <<TRUE>> # <<>>
  BY <1>1, <1>3 DEF HasTold
<1>5. x.kernel = "up" /\ x.status \in {"open", "closed"}
  BY <1>1 DEF Honest, Ready, Record
<1>6. Honest(r)
  BY <1>1, <1>3, <1>4, <1>5 DEF Honest, HasTold, Alike
<1>7. Ready(r)
  BY <1>1, <1>3, <1>4, <1>5 DEF Ready, HasTold, Alike
<1>8. Sound(r)
  BY <1>1, <1>3, <1>6, <1>7 DEF Sound, HasTold
<1> QED BY <1>2, <1>8, Called DEF x

LEMMA ConnectTurnStep ==
    ASSUME ConnectorInv, ConnectTurn, "absent" \notin Outcomes
    PROVE  ConnectorInv'
<1> DEFINE x == calls[Head(turn)]
           Opened(outcome) == [x EXCEPT !.status = "open", !.connecting = TRUE,
                                        !.writes = TRUE, !.kernel = outcome]
<1>1. /\ x \in Record /\ Sound(x) /\ Honest(x) /\ Ready(x) /\ ~x.raised
      /\ x.kind # "datagram" /\ x.status \in {"pending", "closed"}
  BY Here, HeadIsDue DEF ConnectTurn, Due
<1>2. turn # <<>> /\ turn' = Tail(turn)
  BY DEF ConnectTurn
<1>3. CASE x.status = "closed"
  <2>1. calls' = [calls EXCEPT ![Head(turn)] = x]
    BY <1>3 DEF ConnectTurn, ConnectorInv
  <2> QED BY <1>1, <1>2, <2>1, Called
<1>4. CASE x.status = "pending"
  <2>1. PICK outcome \in Outcomes :
            calls' = [calls EXCEPT ![Head(turn)] =
                CASE outcome = "refused" -> Leave(Opened(outcome))
                  [] outcome = "up" -> [FinishConnect(Opened(outcome)) EXCEPT !.raised = FALSE]
                  [] OTHER -> Opened(outcome)]
    BY <1>4 DEF ConnectTurn
  <2>2. outcome \in {"trying", "up", "refused"}
    BY ConnectorAssumption
  <2> DEFINE a == [x EXCEPT !.status = "open"]
             b == [a EXCEPT !.connecting = TRUE]
             c == [b EXCEPT !.writes = TRUE]
             o == [c EXCEPT !.kernel = outcome]
  <2>3. a \in Record
    BY <1>1 DEF Record
  <2>4. c \in Record
    BY <2>3 DEF Record
  <2>5. o \in Record
    BY <2>2, <2>4 DEF Record
  <2>6. o = Opened(outcome)
    BY <1>1 DEF Record
  <2>7. /\ o.kind = x.kind /\ o.peer = x.peer /\ o.trusted = x.trusted
        /\ o.hangs = x.hangs /\ o.status = "open" /\ o.connecting = TRUE
        /\ o.writes = TRUE /\ o.kernel = outcome /\ o.told = x.told
        /\ o.bound = x.bound /\ o.sslConnecting = x.sslConnecting
        /\ o.sslHandshake = x.sslHandshake /\ o.starters = x.starters
        /\ o.starter = x.starter /\ o.inbox = x.inbox /\ o.raised = x.raised
    BY <1>1 DEF Record
  <2> HIDE DEF o, x
  <2>8. x.told = <<>> /\ ~x.sslConnecting /\ x.bound = {"connect", "close"}
    BY <1>1, <1>4 DEF Ready, Honest
  <2>9. Honest(o)
    BY <1>1, <2>2, <2>5, <2>7, <2>8 DEF Honest
  <2>10. Ready(o)
    BY <1>1, <1>4, <2>2, <2>7, <2>8 DEF Ready
  <2>11. Sound(o)
    BY <1>1, <2>7, <2>8, <2>9, <2>10 DEF Sound
  <2>12. CASE outcome = "refused"
    <3>1. Sound(Leave(o))
      BY <1>1, <2>7, <2>9, <2>10, LeaveSound
    <3>2. calls' = [calls EXCEPT ![Head(turn)] = Leave(o)]
      BY <2>1, <2>6, <2>12
    <3> QED BY <1>2, <3>1, <3>2, Called
  <2>13. CASE outcome = "trying"
    <3>1. calls' = [calls EXCEPT ![Head(turn)] = o]
      BY <2>1, <2>6, <2>13
    <3> QED BY <1>2, <2>11, <3>1, Called
  <2>14. CASE outcome = "up"
    <3> DEFINE f == FinishConnect(o)
               r == [f EXCEPT !.raised = FALSE]
    <3>1. Settled(o, f)
      BY <2>7, <2>11, <2>14, FinishSound
    <3>2. o.peer = "quiet"
      BY <1>1, <1>4, <2>7 DEF Ready
    <3> HIDE DEF f
    <3>3. ~f.raised /\ Sound(f)
      BY <3>1, <3>2 DEF Settled, Hurt, Alike
    <3>4. r = f
      BY <3>1, <3>3 DEF Settled, Alike, Record
    <3>5. calls' = [calls EXCEPT ![Head(turn)] = r]
      BY <2>1, <2>6, <2>14 DEF f
    <3> QED BY <1>2, <3>3, <3>4, <3>5, Called
  <2> QED BY <2>2, <2>12, <2>13, <2>14
<1> QED BY <1>1, <1>3, <1>4

LEMMA PollTurnStep ==
    ASSUME ConnectorInv, NEW i \in Calls, PollTurn(i)
    PROVE  ConnectorInv'
<1> DEFINE x == calls[i]
           readable == x.kernel = "refused" \/ x.inbox
           writable == x.writes /\ x.kernel \in {"up", "refused", "absent"}
           read == IF readable THEN Read(x) ELSE x
           written == IF writable THEN Write(read) ELSE read
           r == IF x.kernel = "refused" THEN Error(written) ELSE written
<1>1. x \in Record /\ Sound(x) /\ Honest(x) /\ Ready(x) /\ x.status = "open"
  BY Here DEF PollTurn
<1>2. calls' = [calls EXCEPT ![i] = r] /\ turn' = turn /\ (readable \/ writable)
  BY DEF PollTurn
<1>3. x.kernel \in {"up", "refused"}
  BY <1>1, <1>2 DEF Honest, Ready
<1>4. Polled(x)
  BY <1>1, <1>3 DEF Polled
<1>5. Handled(x, read)
  <2>1. Handled(x, x)
    BY <1>1 DEF Handled, Alike
  <2> QED BY <1>4, <2>1, ReadSound
<1> HIDE DEF x, read
<1>6. Polled(read)
  BY <1>3, <1>5 DEF Polled, Handled, Alike
<1>7. Handled(x, written)
  <2>1. CASE writable
    BY <1>5, <1>6, <2>1, WriteSound, HandledBefore
  <2>2. CASE ~writable
    BY <1>5, <2>2
  <2> QED BY <2>1, <2>2
<1> HIDE DEF written
<1>8. Polled(written)
  BY <1>3, <1>7 DEF Polled, Handled, Alike
<1>9. Handled(x, r)
  <2>1. CASE x.kernel = "refused"
    BY <1>7, <1>8, <2>1, ErrorSound, HandledBefore
  <2>2. CASE x.kernel # "refused"
    BY <1>7, <2>2
  <2> QED BY <2>1, <2>2
<1> HIDE DEF r
<1>10. Due(x) => Due(r)
  BY <1>1, <1>9 DEF Due, Handled, Alike
<1>11. Sound(r)
  BY <1>9 DEF Handled
<1> QED BY <1>2, <1>10, <1>11, Kept DEF x

LEMMA UserLeavesStep ==
    ASSUME ConnectorInv, NEW i \in Calls, UserLeaves(i)
    PROVE  ConnectorInv'
<1> DEFINE x == calls[i]
           r == Leave(x)
<1>1. /\ x \in Record /\ Sound(x) /\ Honest(x) /\ Ready(x) /\ ~x.raised
      /\ x.status \in {"pending", "open"}
  BY Here DEF UserLeaves
<1>2. calls' = [calls EXCEPT ![i] = r] /\ turn' = turn
  BY DEF UserLeaves, ConnectorInv
<1> HIDE DEF x
<1>3. /\ Sound(r) /\ Alike(x, r) /\ r.status = "closed"
      /\ x.kind = "datagram" => r.told = x.told
  BY <1>1, LeaveSound
<1> HIDE DEF r
<1>4. Due(x) => Due(r)
  BY <1>3 DEF Due, Alike
<1> QED BY <1>2, <1>3, <1>4, Kept DEF x

LEMMA KernelSettlesStep ==
    ASSUME ConnectorInv, NEW i \in Calls, KernelSettles(i)
    PROVE  ConnectorInv'
<1> DEFINE x == calls[i]
           R(k) == [x EXCEPT !.kernel = k]
<1>1. /\ x \in Record /\ Sound(x) /\ Honest(x) /\ Ready(x) /\ x.kernel = "trying"
      /\ x.kind # "datagram" /\ x.peer = "quiet" /\ ~x.sslConnecting
  BY Here DEF KernelSettles, Honest, Ready
<1>2. PICK k \in {"up", "refused"} : calls' = [calls EXCEPT ![i] = R(k)]
  BY DEF KernelSettles, ConnectorInv
<1>3. turn' = turn
  BY DEF KernelSettles
<1> DEFINE r == R(k)
<1>4. /\ r \in Record /\ r.kind = x.kind /\ r.peer = x.peer
      /\ r.status = x.status /\ r.bound = x.bound /\ r.kernel = k
      /\ r.told = x.told /\ r.connecting = x.connecting
      /\ r.sslConnecting = x.sslConnecting /\ r.sslHandshake = x.sslHandshake
      /\ r.starters = x.starters /\ r.starter = x.starter /\ r.writes = x.writes
      /\ r.inbox = x.inbox /\ r.raised = x.raised
  BY <1>1 DEF Record
<1> HIDE DEF x, r
<1>5. Honest(r)
  BY <1>1, <1>4 DEF Honest
<1>6. Ready(r)
  BY <1>1, <1>4 DEF Ready
<1>7. Sound(r)
  BY <1>1, <1>4, <1>5, <1>6 DEF Sound
<1>8. Due(x) => Due(r)
  BY <1>4 DEF Due
<1>9. calls' = [calls EXCEPT ![i] = r]
  BY <1>2 DEF r
<1> QED BY <1>3, <1>7, <1>8, <1>9, Kept DEF x

\* the peer answered, or went
LEMMA PeerMoves ==
    ASSUME ConnectorInv, NEW i \in Calls, NEW peer \in {"answered", "gone"},
           calls[i].kernel = "up",
           calls' = [calls EXCEPT ![i].peer = peer, ![i].inbox = TRUE],
           turn' = turn
    PROVE  ConnectorInv'
<1> DEFINE x == calls[i]
           y == [x EXCEPT !.peer = peer]
           r == [y EXCEPT !.inbox = TRUE]
<1>1. /\ x \in Record /\ Sound(x) /\ Honest(x) /\ Ready(x) /\ x.kernel = "up"
  BY Here
<1>2. calls' = [calls EXCEPT ![i] = r]
  BY DEF ConnectorInv
<1>3. y \in Record
  BY <1>1 DEF Record
<1>4. /\ r \in Record /\ r.kind = x.kind /\ r.peer = peer /\ r.trusted = x.trusted
      /\ r.status = x.status /\ r.bound = x.bound /\ r.kernel = x.kernel
      /\ r.told = x.told /\ r.connecting = x.connecting
      /\ r.sslConnecting = x.sslConnecting /\ r.sslHandshake = x.sslHandshake
      /\ r.starters = x.starters /\ r.starter = x.starter /\ r.writes = x.writes
      /\ r.inbox = TRUE /\ r.raised = x.raised
  BY <1>1, <1>3 DEF Record
<1> HIDE DEF x, r
<1>5. Honest(r)
  BY <1>1, <1>4 DEF Honest
<1>6. Ready(r)
  BY <1>1, <1>4 DEF Ready
<1>7. Sound(r)
  BY <1>1, <1>4, <1>5, <1>6 DEF Sound
<1>8. Due(x) => Due(r)
  BY <1>4 DEF Due
<1> QED BY <1>2, <1>7, <1>8, Kept DEF x

LEMMA ConnectorInitInv == ConnectorInit => ConnectorInv
<1> SUFFICES ASSUME ConnectorInit
             PROVE  ConnectorInv
  OBVIOUS
<1>1. turn = <<>> /\ turn \in Seq(Calls) /\ Len(turn) = 0
  BY DEF ConnectorInit
<1>2. ASSUME NEW i \in Calls
      PROVE  \E kind \in Sorts, trusted, hangs \in BOOLEAN :
                 calls[i] = New(kind, trusted, hangs)
  <2>1. PICK s \in Starts : calls[i] = New(s.kind, s.trusted, s.hangs)
    BY <1>2 DEF ConnectorInit
  <2>2. s.kind \in Sorts /\ s.trusted \in BOOLEAN /\ s.hangs \in BOOLEAN
    BY DEF Starts
  <2> QED BY <2>1, <2>2
<1>3. ASSUME NEW kind \in Sorts, NEW trusted \in BOOLEAN, NEW hangs \in BOOLEAN
      PROVE  New(kind, trusted, hangs) \in Record
  <2>1. <<>> \in Seq(BOOLEAN) /\ {} \in SUBSET {"connect", "close"} /\ 0 \in 0 .. 2
    OBVIOUS
  <2> QED BY <1>3, <2>1 DEF New, Record
<1>4. calls \in [Calls -> Record]
  <2>1. \A i \in Calls : calls[i] \in Record
    BY <1>2, <1>3
  <2> QED BY <2>1 DEF ConnectorInit
<1>5. \A i \in Calls : Sound(calls[i])
  <2> SUFFICES ASSUME NEW i \in Calls
               PROVE  Sound(calls[i])
    OBVIOUS
  <2> DEFINE x == calls[i]
  <2>1. /\ x.status = "none" /\ ~x.connecting /\ ~x.sslConnecting
        /\ x.starters = 0 /\ ~x.starter /\ ~x.writes /\ x.kernel = "idle"
        /\ x.peer = "quiet" /\ ~x.inbox /\ x.bound = {} /\ x.told = <<>> /\ ~x.raised
    <3>1. PICK kind \in Sorts, trusted \in BOOLEAN, hangs \in BOOLEAN :
              x = New(kind, trusted, hangs)
      BY <1>2
    <3> QED BY <3>1 DEF New
  <2>2. x \in Record
    BY <1>4
  <2> HIDE DEF x
  <2>3. Honest(x) /\ Ready(x)
    BY <2>1, <2>2 DEF Honest, Ready
  <2> QED BY <2>1, <2>3 DEF Sound, x
<1> QED BY <1>1, <1>4, <1>5 DEF ConnectorInv, TurnIsDue, TurnIsOnce

LEMMA ConnectorStep ==
    ASSUME "absent" \notin Outcomes
    PROVE  ConnectorInv /\ [ConnectorNext]_connectorVars => ConnectorInv'
<1> SUFFICES ASSUME ConnectorInv, [ConnectorNext]_connectorVars
             PROVE  ConnectorInv'
  OBVIOUS
<1>1. CASE Report
  BY <1>1, ReportStep
<1>2. CASE ConnectTurn
  BY <1>2, ConnectTurnStep
<1>3. CASE \E i \in Calls : ConnectCall(i) \/ DatagramCall(i) \/ PollTurn(i) \/ UserLeaves(i)
  BY <1>3, ConnectCallStep, DatagramCallStep, PollTurnStep, UserLeavesStep
<1>4. CASE \E i \in Calls : KernelSettles(i)
  BY <1>4, KernelSettlesStep
<1>5. CASE \E i \in Calls : PeerAnswers(i) \/ PeerGoes(i)
  BY <1>5, PeerMoves DEF PeerAnswers, PeerGoes
<1>6. CASE UNCHANGED connectorVars
  BY <1>6 DEF connectorVars, ConnectorInv, TurnIsDue, TurnIsOnce
<1> QED BY <1>1, <1>2, <1>3, <1>4, <1>5, <1>6 DEF ConnectorNext

LEMMA ConnectorInvSafe == ConnectorInv => ConnectorSafety
<1> SUFFICES ASSUME ConnectorInv
             PROVE  ConnectorSafety
  OBVIOUS
<1>1. ConnectorType
  BY DEF ConnectorInv, ConnectorType, Record
<1>2. ToldOnce
  <2> SUFFICES ASSUME NEW i \in Calls
               PROVE  LET x == calls[i] IN
                        /\ Len(x.told) <= 1
                        /\ x.told = <<TRUE>> =>
                              /\ x.kernel = "up" /\ ~x.connecting
                              /\ x.kind = "tls" => x.sslHandshake /\ x.trusted
                        /\ x.told = <<FALSE>> => x.status = "closed"
                        /\ x.kind # "datagram" =>
                              /\ x.status = "closed" => x.told # <<>>
                              /\ x.status = "open" /\ x.told = <<>> => x.connecting
    BY DEF ToldOnce
  <2>1. Honest(calls[i])
    BY Here
  <2>3. Len(calls[i].told) <= 1
    <3> DEFINE t == calls[i].told
    <3>1. t \in {<<>>, <<TRUE>>, <<FALSE>>}
      BY <2>1 DEF Honest
    <3> HIDE DEF t
    <3>2. t = <<>> => Len(t) = 0
      OBVIOUS
    <3>3. t = <<TRUE>> => Len(t) = 1
      OBVIOUS
    <3>4. t = <<FALSE>> => Len(t) = 1
      OBVIOUS
    <3>5. Len(t) = 0 \/ Len(t) = 1
      BY <3>1, <3>2, <3>3, <3>4, Zenon
    <3>6. \A n : n = 0 \/ n = 1 => n <= 1
      OBVIOUS
    <3> QED BY <3>5, <3>6, Zenon DEF t
  <2>4. calls[i].told = <<TRUE>> =>
            /\ calls[i].kernel = "up" /\ ~calls[i].connecting
            /\ calls[i].kind = "tls" => calls[i].sslHandshake /\ calls[i].trusted
    BY <2>1 DEF Honest
  <2>5. calls[i].told = <<FALSE>> => calls[i].status = "closed"
    BY <2>1 DEF Honest
  <2>6. calls[i].kind # "datagram" =>
            /\ calls[i].status = "closed" => calls[i].told # <<>>
            /\ calls[i].status = "open" /\ calls[i].told = <<>> => calls[i].connecting
    BY <2>1 DEF Honest
  <2> QED BY <2>3, <2>4, <2>5, <2>6
<1>3. SleepsInHandshake
  BY DEF ConnectorInv, Sound, SleepsInHandshake
<1> QED BY <1>1, <1>2, <1>3 DEF ConnectorSafety

\* Whatever the kernel answers of a socket but the error that is taken for "not
\* yet", and whoever closes a connection when, the caller of connect() or of
\* datagram() is told once and the truth, and a handshake that waits for its
\* peer does not keep the poll awake (_connect(), on_connect() and on_close() of
\* base/client.py and base/common.py).
THEOREM ConnectorSafe ==
    ASSUME "absent" \notin Outcomes
    PROVE  ConnectorSpec => []ConnectorSafety
<1>1. ConnectorInv /\ [ConnectorNext]_connectorVars => ConnectorInv'
  BY ConnectorStep
<1> QED BY <1>1, ConnectorInitInv, ConnectorInvSafe, PTL DEF ConnectorSpec

-----------------------------------------------------------------------------
(* With Connection.                                                         *)

LEMMA CarryStep ==
    ASSUME [Next]_carryVars
    PROVE  [ConnectionNext]_connectionVars /\ [ConnectorNext]_connectorVars
<1>1. CASE UNCHANGED carryVars
  BY <1>1 DEF carryVars
<1>2. CASE Next
  BY <1>2 DEF Next
<1> QED BY <1>1, <1>2

\* A connection that is made, used, throttled and closed loses nothing that it
\* accepted and calls every callback it owes, and who asked for one is told
\* once, and the truth: ConnectionSafety, for any number of messages of any
\* size, of calls and of users (common.py, client.py).
THEOREM ConnectionsSafe ==
    ASSUME "edge" \notin Disables, "absent" \notin Outcomes
    PROVE  Spec => []ConnectionSafety
<1>1. Init => ConnectionInit /\ ConnectorInit
  BY DEF Init
<1>2. [Next]_carryVars => [ConnectionNext]_connectionVars /\ [ConnectorNext]_connectorVars
  BY CarryStep
<1>3. Spec => ConnectionSpec /\ ConnectorSpec
  BY <1>1, <1>2, PTL DEF Spec, ConnectionSpec, ConnectorSpec
<1>4. ConnectionSpec => []QueueSafety
  BY QueueSafe
<1>5. ConnectionSpec => []CallbackSafety
  BY CallbacksAreTrue
<1>6. ConnectorSpec => []ConnectorSafety
  BY ConnectorSafe
<1> QED BY <1>3, <1>4, <1>5, <1>6, PTL DEF ConnectionSafety

-----------------------------------------------------------------------------
(* The functions of base/compat.py.                                        *)


\* The opening goes through its steps once: what waits in the queue, or for
\* the poll, says how far it is.
Opening ==
    /\ Does("start") => socket = "none" /\ child = "none" /\ ~Does("ready")
    /\ Does("ready") => /\ medium # "stream" /\ socket # "connecting"
                        /\ medium = "service" => socket = "none"
    /\ Does("start") \/ Does("ready") \/ socket = "connecting" => made = 0
    /\ socket = "connecting" => medium = "stream"
    /\ medium = "stream" /\ child = "running" => socket = "connecting"

\* A connection that was not made has no transport and nothing to lose; one
\* that was is lost once.
Making ==
    /\ made = 0 => /\ transport = "none" /\ gone = 0 /\ ~Does("lost")
                   /\ socket # "flushing"
                   /\ medium = "stream" => socket # "open"
    /\ made <= 1 /\ gone <= 1
    /\ medium = "service" => made = 0
    /\ made = 1 => socket \in {"open", "flushing", "closed"}
    /\ made = 1 /\ socket # "closed" => gone = 0 /\ ~Does("lost")
    /\ Does("lost") => gone = 0 /\ socket = "closed"

\* A protocol that closes will be finished, and only a stream that the native
\* loop opens stays closed.
CompatCloses ==
    /\ state = "closing" => Does("finish")
    /\ state = "closed" => transport = "none" /\ ~looped
    /\ way = "native" /\ medium = "stream" /\ left => Shut
    /\ socket = "open" /\ made = 1 => state = "open" /\ transport = "live"
    /\ socket = "closed" /\ made = 1 => Does("lost") \/ (gone = 1 /\ Shut)

\* Who waits is told by the end of the coroutine, and that by its child's.
Telling ==
    /\ way = "native" => /\ child = "none" /\ future = "none"
                         /\ ~Does("child") /\ ~Does("done")
                         /\ medium # "service" => told = made
                         /\ medium = "service" => (told = 0 <=> socket = "none")
    /\ socket = "idle" => medium = "service" /\ way = "native" /\ ~Does("ready")
    /\ way # "native" => future # "none"
    /\ Does("child") => child \in {"done", "failed", "cancelled"}
    /\ future = "running" => told = 0 /\ ~Does("done")
    /\ Does("done") => told = 0
    /\ told <= 1
    /\ way # "native" /\ told = 1 => future = "done"
    /\ future = "done" => child = "done"
    /\ child = "done" => made = 1 \/ (medium = "service" /\ socket = "open")
    /\ child = "cancelled" /\ medium = "stream" /\ ~AtOnce =>
           socket \in {"connecting", "closed"}

Inductive == CompatTypeOK /\ Opening /\ Making /\ CompatCloses /\ Telling

LEMMA JobNames ==
    /\ "start" \in Jobs /\ "ready" \in Jobs /\ "child" \in Jobs /\ "cancel" \in Jobs
    /\ "done" \in Jobs /\ "lost" \in Jobs /\ "finish" \in Jobs
  BY DEF Jobs

LEMMA InitInductive == CompatInit => Inductive
<1> SUFFICES ASSUME CompatInit PROVE Inductive
  OBVIOUS
<1>1. /\ way \in {"native", "task", "await"}
      /\ medium \in {"stream", "datagram", "service"}
      /\ way = "native" => future = "none"
      /\ way # "native" => future = "running"
  BY DEF CompatInit, ConnectStreamNative, ConnectStreamCompat, BuildDatagramNative,
         BuildDatagramCompat, ServeStreamNative, ServeStreamCompat, Awaits, Built
<1>2. looped \in BOOLEAN /\ left \in BOOLEAN
  BY DEF CompatInit, ConnectStreamNative, ConnectStreamCompat, BuildDatagramNative,
         BuildDatagramCompat, ServeStreamNative, ServeStreamCompat, Awaits, Built
<1>3. jobs = {"start"} /\ jobs \subseteq Jobs
  BY JobNames DEF CompatInit
<1>4. /\ state = "pending" /\ transport = "none" /\ socket = "none"
      /\ child = "none" /\ told = 0 /\ made = 0 /\ gone = 0 /\ left = FALSE
  BY DEF CompatInit
<1>5. CompatTypeOK
  BY <1>1, <1>2, <1>3, <1>4 DEF CompatTypeOK, Futures
<1>6. Opening /\ Making /\ CompatCloses /\ Telling
  BY <1>1, <1>3, <1>4 DEF Opening, Making, CompatCloses, Telling, Does, Shut
<1> QED BY <1>5, <1>6 DEF Inductive

LEMMA ClosesType ==
    ASSUME CompatTypeOK, NEW others \in SUBSET Jobs, Closes(others)
    PROVE  /\ state' \in {"pending", "open", "closing", "closed"}
           /\ looped' \in BOOLEAN
           /\ transport' \in {"none", "live", "dead"}
           /\ socket' \in {"none", "connecting", "open", "flushing", "closed",
                           "idle", "unbound"}
           /\ jobs' \subseteq Jobs
<1> USE JobNames DEF CompatTypeOK, Closes
<1>1. CASE Shut
  BY <1>1
<1>2. CASE ~Shut /\ looped
  BY <1>2
<1>3. CASE ~Shut /\ ~looped
  BY <1>3 DEF Finishes
<1> QED BY <1>1, <1>2, <1>3

LEMMA TypeStep == CompatTypeOK /\ [CompatNext]_compatVars => CompatTypeOK'
<1> SUFFICES ASSUME CompatTypeOK, [CompatNext]_compatVars PROVE CompatTypeOK'
  OBVIOUS
<1> USE DEF CompatTypeOK, Does, Shut
<1>1. ASSUME UserCloses PROVE CompatTypeOK'
  BY <1>1, ClosesType DEF UserCloses
<1>2. ASSUME TransportClose PROVE CompatTypeOK'
  BY <1>2, JobNames DEF TransportClose, Futures
<1>3. ASSUME SocketEnds PROVE CompatTypeOK'
  BY <1>3, JobNames DEF SocketEnds, Futures
<1>4. ASSUME CallLost PROVE CompatTypeOK'
  <2>1. jobs \ {"lost"} \in SUBSET Jobs
    OBVIOUS
  <2> QED BY <1>4, <2>1, ClosesType DEF CallLost
<1>5. ASSUME Finish PROVE CompatTypeOK'
  <2>1. CASE state = "closing"
    BY <1>5, <2>1 DEF Finish, Finishes
  <2>2. CASE state # "closing"
    BY <1>5, <2>2 DEF Finish
  <2> QED BY <2>1, <2>2
<1>6. ASSUME Start PROVE CompatTypeOK'
  BY <1>6, JobNames DEF Start, Begin, Futures
<1>7. ASSUME ConnectEnds PROVE CompatTypeOK'
  BY <1>7, JobNames DEF ConnectEnds, Attach, Futures
<1>8. ASSUME ConnectFails PROVE CompatTypeOK'
  BY <1>8, JobNames DEF ConnectFails, Futures
<1>9. ASSUME DatagramReady PROVE CompatTypeOK'
  BY <1>9, JobNames DEF DatagramReady, Attach, Futures
<1>10. ASSUME NEW binds \in BOOLEAN, ServiceReady(binds) PROVE CompatTypeOK'
  BY <1>10, JobNames DEF ServiceReady, Futures
<1>11. ASSUME ChildDone PROVE CompatTypeOK'
  BY <1>11, JobNames DEF ChildDone, Futures
<1>12. ASSUME UserCancels PROVE CompatTypeOK'
  BY <1>12, JobNames DEF UserCancels, Futures
<1>13. ASSUME Cancelled PROVE CompatTypeOK'
  BY <1>13, JobNames DEF Cancelled, Futures
<1>14. ASSUME Done PROVE CompatTypeOK'
  <2>1. jobs \ {"done"} \in SUBSET Jobs
    OBVIOUS
  <2> QED BY <1>14, <2>1, ClosesType DEF Done
<1>15. CASE UNCHANGED compatVars
  BY <1>15 DEF compatVars
<1>16. ASSUME ServerMade PROVE CompatTypeOK'
  BY <1>16, JobNames DEF ServerMade, Futures
<1>17. ASSUME NEW binds \in BOOLEAN, StartServing(binds) PROVE CompatTypeOK'
  BY <1>17, JobNames DEF StartServing, Futures
<1> QED BY <1>1, <1>2, <1>3, <1>4, <1>5, <1>6, <1>7, <1>8, <1>9, <1>10, <1>11,
        <1>12, <1>13, <1>14, <1>15, <1>16, <1>17
         DEF CompatNext, Settle, Run

LEMMA StepInductive == Inductive /\ [CompatNext]_compatVars => Inductive'
<1> SUFFICES ASSUME Inductive, [CompatNext]_compatVars PROVE Inductive'
  OBVIOUS
<1> USE DEF Inductive, CompatTypeOK, Opening, Making, CompatCloses, Telling, Does, Shut,
            Jobs, Futures
<1>0. CompatTypeOK'
  BY TypeStep
<1>1. ASSUME UserCloses PROVE Inductive'
  <2>2. Opening'
    BY <1>1 DEF UserCloses, Closes, Finishes
  <2>3. Making'
    BY <1>1 DEF UserCloses, Closes, Finishes
  <2>4. CompatCloses'
    BY <1>1 DEF UserCloses, Closes, Finishes
  <2>5. Telling'
    BY <1>1 DEF UserCloses, Closes, Finishes
  <2> QED BY <1>0, <2>2, <2>3, <2>4, <2>5
<1>2. ASSUME TransportClose PROVE Inductive'
  BY <1>0, <1>2 DEF TransportClose
<1>3. ASSUME SocketEnds PROVE Inductive'
  BY <1>0, <1>3 DEF SocketEnds
<1>4. ASSUME CallLost PROVE Inductive'
  <2>2. Opening'
    BY <1>4 DEF CallLost, Closes, Finishes
  <2>3. Making'
    BY <1>4 DEF CallLost, Closes, Finishes
  <2>4. CompatCloses'
    BY <1>4 DEF CallLost, Closes, Finishes
  <2>5. Telling'
    BY <1>4 DEF CallLost, Closes, Finishes
  <2> QED BY <1>0, <2>2, <2>3, <2>4, <2>5
<1>5. ASSUME Finish PROVE Inductive'
  BY <1>0, <1>5 DEF Finish, Finishes
<1>6. ASSUME Start PROVE Inductive'
  <2>2. Opening'
    BY <1>6 DEF Start, Begin
  <2>3. Making'
    BY <1>6 DEF Start, Begin
  <2>4. CompatCloses'
    BY <1>6 DEF Start, Begin
  <2>5. Telling'
    BY <1>6 DEF Start, Begin
  <2> QED BY <1>0, <2>2, <2>3, <2>4, <2>5
<1>7. ASSUME ConnectEnds PROVE Inductive'
  <2>2. Opening'
    BY <1>7 DEF ConnectEnds, Attach
  <2>3. Making'
    BY <1>7 DEF ConnectEnds, Attach
  <2>4. CompatCloses'
    BY <1>7 DEF ConnectEnds, Attach
  <2>5. Telling'
    BY <1>7 DEF ConnectEnds, Attach
  <2> QED BY <1>0, <2>2, <2>3, <2>4, <2>5
<1>8. ASSUME ConnectFails PROVE Inductive'
  <2>2. Opening'
    BY <1>8 DEF ConnectFails
  <2>3. Making'
    BY <1>8 DEF ConnectFails
  <2>4. CompatCloses'
    BY <1>8 DEF ConnectFails
  <2>5. Telling'
    BY <1>8 DEF ConnectFails
  <2> QED BY <1>0, <2>2, <2>3, <2>4, <2>5
<1>9. ASSUME DatagramReady PROVE Inductive'
  <2>2. Opening'
    BY <1>9 DEF DatagramReady, Attach
  <2>3. Making'
    BY <1>9 DEF DatagramReady, Attach
  <2>4. CompatCloses'
    BY <1>9 DEF DatagramReady, Attach
  <2>5. Telling'
    BY <1>9 DEF DatagramReady, Attach
  <2> QED BY <1>0, <2>2, <2>3, <2>4, <2>5
<1>10. ASSUME NEW binds \in BOOLEAN, ServiceReady(binds) PROVE Inductive'
  <2>1. CASE binds
    <3>1. Opening' /\ Making'
      BY <1>0, <1>10, <2>1 DEF ServiceReady
    <3>2. CompatCloses' /\ Telling'
      BY <1>0, <1>10, <2>1 DEF ServiceReady
    <3> QED BY <1>0, <3>1, <3>2
  <2>2. CASE ~binds
    <3>1. jobs' = jobs \ {"ready"} /\ socket' = "unbound" /\ child' = child
      BY <1>10, <2>2 DEF ServiceReady
    <3>2. Opening' /\ Making'
      BY <1>0, <1>10, <3>1 DEF ServiceReady
    <3>3. CompatCloses' /\ Telling'
      BY <1>0, <1>10, <3>1 DEF ServiceReady
    <3> QED BY <1>0, <3>2, <3>3
  <2> QED BY <2>1, <2>2
<1>11. ASSUME ChildDone PROVE Inductive'
  <2>2. Opening'
    BY <1>11 DEF ChildDone
  <2>3. Making'
    BY <1>11 DEF ChildDone
  <2>4. CompatCloses'
    BY <1>11 DEF ChildDone
  <2>5. Telling'
    BY <1>11 DEF ChildDone
  <2> QED BY <1>0, <2>2, <2>3, <2>4, <2>5
<1>12. ASSUME UserCancels PROVE Inductive'
  <2>2. Opening'
    BY <1>12 DEF UserCancels
  <2>3. Making'
    BY <1>12 DEF UserCancels
  <2>4. CompatCloses'
    BY <1>12 DEF UserCancels
  <2>5. Telling'
    BY <1>12 DEF UserCancels
  <2> QED BY <1>0, <2>2, <2>3, <2>4, <2>5
<1>13. ASSUME Cancelled PROVE Inductive'
  <2>2. Opening'
    BY <1>13 DEF Cancelled
  <2>3. Making'
    BY <1>13 DEF Cancelled
  <2>4. CompatCloses'
    BY <1>13 DEF Cancelled
  <2>5. Telling'
    BY <1>13 DEF Cancelled
  <2> QED BY <1>0, <2>2, <2>3, <2>4, <2>5
<1>14. ASSUME Done PROVE Inductive'
  <2>2. Opening'
    BY <1>14 DEF Done, Closes, Finishes
  <2>3. Making'
    BY <1>14 DEF Done, Closes, Finishes
  <2>4. CompatCloses'
    BY <1>14 DEF Done, Closes, Finishes
  <2>5. Telling'
    BY <1>14 DEF Done, Closes, Finishes
  <2> QED BY <1>0, <2>2, <2>3, <2>4, <2>5
<1>15. CASE UNCHANGED compatVars
  BY <1>0, <1>15 DEF compatVars
<1>16. ASSUME ServerMade PROVE Inductive'
  <2>1. Opening' /\ Making'
    BY <1>0, <1>16 DEF ServerMade
  <2>2. CompatCloses'
    BY <1>0, <1>16 DEF ServerMade
  <2>3. Telling'
    BY <1>0, <1>16 DEF ServerMade
  <2> QED BY <1>0, <2>1, <2>2, <2>3
<1>17. ASSUME NEW binds \in BOOLEAN, StartServing(binds) PROVE Inductive'
  <2>1. Opening' /\ Making'
    BY <1>0, <1>17 DEF StartServing
  <2>2. CompatCloses'
    BY <1>0, <1>17 DEF StartServing
  <2>3. Telling'
    BY <1>0, <1>17 DEF StartServing
  <2> QED BY <1>0, <2>1, <2>2, <2>3
<1> QED BY <1>1, <1>2, <1>3, <1>4, <1>5, <1>6, <1>7, <1>8, <1>9, <1>10, <1>11,
        <1>12, <1>13, <1>14, <1>15, <1>16, <1>17
         DEF CompatNext, Settle, Run

\* Every state that CompatSpec reaches is in the inductive invariant.
LEMMA InductiveHolds == CompatSpec => []Inductive
  BY InitInductive, StepInductive, PTL DEF CompatSpec

\* The theorem of the run: the connection of a protocol is made once and lost
\* once after that, who asks is told once, and what is open has a protocol that
\* is open and can close it (base/compat.py, base/protocol.py).
THEOREM CompatSafe == CompatSpec => []CompatSafety
<1>1. ASSUME Inductive PROVE CompatSafety
  <2> USE <1>1 DEF Inductive, CompatTypeOK, Opening, Making, CompatCloses, Telling, Does,
                   Shut
  <2>1. Once
    <3>1. gone + (IF Does("lost") THEN 1 ELSE 0) <= made
      <4>1. CASE Does("lost")
        BY <4>1
      <4>2. CASE ~Does("lost")
        BY <4>2
      <4> QED BY <4>1, <4>2
    <3>2. told = 1 => \/ made = 1
                      \/ medium = "service" /\ socket = "open"
                      \/ medium = "service" /\ way = "native" /\ socket # "none"
      OBVIOUS
    <3> QED BY <3>1, <3>2 DEF Once
  <2>2. NothingLeft
    <3>1. left /\ way = "native" /\ medium = "stream" =>
              socket # "open" /\ (jobs = {} => state = "closed")
      OBVIOUS
    <3> QED BY <3>1 DEF NothingLeft
  <2> QED BY <2>1, <2>2 DEF CompatSafety
<1> QED BY <1>1, InductiveHolds, PTL

\* A set of numbers has a least one.
LEMMA LeastNumber ==
    ASSUME NEW S, S \subseteq Nat, S # {}
    PROVE  \E m \in S : \A n \in S : m <= n
<1>1. PICK R : R = OpToRel(<, Nat)
  OBVIOUS
<1>2. IsWellFoundedOn(R, Nat)
  BY <1>1, NatLessThanWellFounded
<1>3. PICK m \in S : \A n \in S : ~(<<n, m>> \in R)
  BY <1>2, WFMin
<1>4. \A n \in S : n \in Nat /\ m \in Nat /\ (n < m => <<n, m>> \in R)
  BY <1>1 DEF OpToRel
<1>5. ASSUME NEW n \in S PROVE m <= n
  <2>1. n \in Nat /\ m \in Nat
    OBVIOUS
  <2>2. ~(n < m)
    BY <1>3, <1>4
  <2> QED BY <2>1, <2>2
<1> QED BY <1>5

\* What holds of 0, and of a number if it holds of the one before, holds up to n:
\* induction, for a set.
LEMMA UpToAll ==
    ASSUME NEW n \in Nat, NEW S, 0 \in S, \A i \in 1 .. n : i - 1 \in S => i \in S
    PROVE  \A i \in 0 .. n : i \in S
<1> DEFINE Bad == {i \in 0 .. n : i \notin S}
<1> SUFFICES ASSUME Bad # {} PROVE FALSE
  OBVIOUS
<1>1. Bad \subseteq Nat
  OBVIOUS
<1>2. PICK m \in Bad : \A i \in Bad : m <= i
  BY <1>1, LeastNumber
<1>3. m # 0 /\ m \in 1 .. n /\ m - 1 \in 0 .. n
  OBVIOUS
<1>4. m - 1 \notin Bad
  BY <1>1, <1>2, <1>3
<1> QED BY <1>3, <1>4

\* A function by recursion on the numbers up to n is there.
Recursive(A, S, n, b, F) ==
    /\ A \in [0 .. n -> S]
    /\ A[0] = b /\ \A i \in 1 .. n : A[i] = F[<<A[i - 1], i>>]
LEMMA RecursionIs ==
    ASSUME NEW S, NEW n \in Nat, NEW b \in S, NEW F \in [S \X (1 .. n) -> S]
    PROVE  \E A : Recursive(A, S, n, b, F)
<1> DEFINE Begun(m, A) == A[0] = b /\ \A i \in 1 .. m : A[i] = F[<<A[i - 1], i>>]
           Good == {m \in 0 .. n : \E A \in [0 .. n -> S] : Begun(m, A)}
<1>1. 0 \in Good
  <2>1. PICK A \in [0 .. n -> S] : A = [i \in 0 .. n |-> b]
    OBVIOUS
  <2>2. Begun(0, A)
    BY <2>1
  <2>3. \E B \in [0 .. n -> S] : Begun(0, B)
    BY <2>2
  <2>4. 0 \in 0 .. n
    OBVIOUS
  <2> HIDE DEF Begun
  <2> QED BY <2>3, <2>4
<1>2. ASSUME NEW m \in 1 .. n, m - 1 \in Good PROVE m \in Good
  <2>1. PICK A \in [0 .. n -> S] : Begun(m - 1, A)
    BY <1>2
  <2>2. PICK x \in S : x = F[<<A[m - 1], m>>]
    <3>1. A[m - 1] \in S
      OBVIOUS
    <3> QED BY <3>1
  <2>3. PICK B \in [0 .. n -> S] : B = [A EXCEPT ![m] = x]
    OBVIOUS
  <2>4. B[m] = x /\ \A i \in 0 .. n : i # m => B[i] = A[i]
    BY <2>3
  <2>5. B[0] = b
    BY <2>1, <2>4
  <2>6. ASSUME NEW i \in 1 .. m PROVE B[i] = F[<<B[i - 1], i>>]
    <3>1. i - 1 \in 0 .. n /\ i - 1 # m /\ i \in 0 .. n
      OBVIOUS
    <3>2. CASE i = m
      BY <3>1, <3>2, <2>2, <2>4
    <3>3. CASE i # m
      <4>1. i \in 1 .. m - 1
        BY <3>3
      <4> QED BY <4>1, <3>1, <3>3, <2>1, <2>4
    <3> QED BY <3>2, <3>3
  <2> QED BY <2>5, <2>6
<1> HIDE DEF Good
<1>3. n \in Good
  BY <1>1, <1>2, UpToAll
<1> QED BY <1>3 DEF Good, Recursive

(***************************************************************************)
(* What is sent over HTTP/2.                                               *)
(***************************************************************************)

\* Of windows, frames that are delayed, and so on, with streams st: there is room
\* for a frame; who has delayed frames is unavailable, and none of them is larger
\* than a frame of its stream may be; credit is not lost; what was sent and is
\* delayed of a stream are its frames so far, in their order; and the last one of
\* an answer is delayed, or its callback is to come.
Room(window, s, size) == \A l \in {0, s} : window[l] # 0 /\ window[l] >= size
Delays(frames, s) == \E i \in DOMAIN frames : frames[i].stream = s
Listed(frames, unavailable, st) ==
    /\ \A s \in unavailable : st[s].st # "idle"
    /\ \A i \in DOMAIN frames :
          /\ frames[i].stream \in unavailable
          /\ st[frames[i].stream].st = "open" =>
                frames[i].size <= st[frames[i].stream].windowM
Credited(window, owed, st) ==
    /\ \A l \in Links : window[l] >= 0
    /\ window[0] + owed[0] = Window
    /\ \A s \in Streams : st[s].st = "open" =>
          /\ st[s].windowM \in 1 .. FrameMax
          /\ st[s].windowM <= window[s] + owed[s]
Numbers(sent, frames, s, k) ==
    LET own == {i \in DOMAIN frames : frames[i].stream = s}
    IN  /\ Len(sent) <= k /\ sent = [i \in 1 .. Len(sent) |-> i]
        /\ {frames[i].nr : i \in own} = Len(sent) + 1 .. k
        /\ \A i, j \in own : i < j => frames[i].nr < frames[j].nr
Ordered(sent, frames, st) ==
    \A s \in Streams :
        IF st[s].st = "open" THEN Numbers(sent[s], frames, s, st[s].parts)
        ELSE sent[s] = <<>>
Ending(callbacks, frames, s) ==
    \/ \E i \in DOMAIN callbacks : callbacks[i] = s
    \/ \E i \in DOMAIN frames : frames[i].stream = s /\ frames[i].final
Answering(callbacks, frames, st) ==
    \A s \in Streams :
        st[s].st = "open" /\ st[s].answered => Ending(callbacks, frames, s)

FlowBase(f, st) ==
    /\ f \in Flow /\ st \in [Streams -> Stream] /\ ~f.failed
    /\ Listed(f.frames, f.unavailable, st) /\ Credited(f.window, f.owed, st)
    /\ Ordered(f.sent, f.frames, st) /\ Answering(f.callbacks, f.frames, st)

\* The first delayed frame of a stream does not fit, and an unavailable stream
\* has delayed frames or no window.
Starved(frames, window, st) ==
    \A i \in DOMAIN frames :
        (/\ st[frames[i].stream].st = "open"
         /\ \A j \in 1 .. i - 1 : frames[j].stream # frames[i].stream)
            => ~Room(window, frames[i].stream, frames[i].size)
Blocked(frames, window, unavailable, st) ==
    \A s \in unavailable :
        st[s].st = "open" => Delays(frames, s) \/ window[0] = 0 \/ window[s] = 0
FlowGood(f, st) ==
    /\ FlowBase(f, st) /\ Starved(f.frames, f.window, st)
    /\ Blocked(f.frames, f.window, f.unavailable, st)

LEMMA NotLinks == 0 \in Links /\ 0 \notin Streams /\ Streams \subseteq Links
  BY StreamsAssumption DEF Links

LEMMA FlowIs ==
    ASSUME NEW f \in Flow
    PROVE  /\ f.window \in [Links -> Int] /\ f.owed \in [Links -> Nat]
           /\ f.frames \in Seq(Frame) /\ f.unavailable \subseteq Streams
           /\ f.sent \in [Streams -> Seq(Nat)]
           /\ f.callbacks \in Seq(Streams \cup {RST, GOAWAY}) /\ f.failed \in BOOLEAN
           /\ \A i \in DOMAIN f.frames : f.frames[i] \in Frame
           /\ DOMAIN f.frames = 1 .. Len(f.frames) /\ Len(f.frames) \in Nat
  BY DEF Flow

LEMMA FrameIs ==
    ASSUME NEW d \in Frame
    PROVE  d.stream \in Streams /\ d.size \in Nat /\ d.final \in BOOLEAN /\ d.nr \in Nat
  BY DEF Frame

\* What the windows of the connection and of a stream are incremented by.
LEMMA IncrementedIs ==
    ASSUME NEW W \in [Links -> Int], NEW n \in Int, NEW s \in Streams
    PROVE  /\ Incremented(W, s, n) \in [Links -> Int]
           /\ \A l \in Links :
                 Incremented(W, s, n)[l] = IF l \in {0, s} THEN W[l] + n ELSE W[l]
<1>1. 0 \in Links /\ s \in Links /\ s # 0
  BY NotLinks
<1> QED BY <1>1 DEF Incremented

LEMMA OwedIs ==
    ASSUME NEW W \in [Links -> Nat], NEW n \in Nat, NEW s \in Streams
    PROVE  /\ Incremented(W, s, n) \in [Links -> Nat]
           /\ \A l \in Links :
                 Incremented(W, s, n)[l] = IF l \in {0, s} THEN W[l] + n ELSE W[l]
<1>1. 0 \in Links /\ s \in Links /\ s # 0
  BY NotLinks
<1> QED BY <1>1 DEF Incremented

LEMMA SentAppended ==
    ASSUME NEW Q \in [Streams -> Seq(Nat)], NEW n \in Nat, NEW s \in Streams
    PROVE  LET R == [Q EXCEPT ![s] = Append(@, n)]
           IN  /\ R \in [Streams -> Seq(Nat)]
               /\ \A t \in Streams : R[t] = IF t = s THEN Append(Q[t], n) ELSE Q[t]
<1>1. Append(Q[s], n) \in Seq(Nat)
  OBVIOUS
<1> QED BY <1>1

\* What sending a frame does to a flow.
LEMMA SendFrameIs ==
    ASSUME NEW f \in Flow, NEW d \in Frame
    PROVE  /\ SendFrame(f, d) \in Flow
           /\ SendFrame(f, d).frames = f.frames
           /\ SendFrame(f, d).unavailable = f.unavailable
           /\ SendFrame(f, d).failed = f.failed
           /\ \A l \in Links :
                 /\ SendFrame(f, d).window[l] =
                       IF l \in {0, d.stream} THEN f.window[l] - d.size ELSE f.window[l]
                 /\ SendFrame(f, d).owed[l] =
                       IF l \in {0, d.stream} THEN f.owed[l] + d.size ELSE f.owed[l]
           /\ \A s \in Streams : SendFrame(f, d).sent[s] =
                 IF s = d.stream THEN Append(f.sent[s], d.nr) ELSE f.sent[s]
           /\ SendFrame(f, d).callbacks =
                 IF d.final THEN Append(f.callbacks, d.stream) ELSE f.callbacks
<1>1. /\ f.window \in [Links -> Int] /\ f.owed \in [Links -> Nat]
      /\ f.sent \in [Streams -> Seq(Nat)]
      /\ f.callbacks \in Seq(Streams \cup {RST, GOAWAY})
  BY FlowIs
<1>2. /\ d.stream \in Streams /\ d.size \in Nat /\ d.nr \in Nat
  BY FrameIs
<1> DEFINE w == Incremented(f.window, d.stream, -d.size)
           o == Incremented(f.owed, d.stream, d.size)
           q == [f.sent EXCEPT ![d.stream] = Append(@, d.nr)]
           c == IF d.final THEN Append(f.callbacks, d.stream) ELSE f.callbacks
           g == [window |-> w, owed |-> o, frames |-> f.frames,
                 unavailable |-> f.unavailable, sent |-> q, callbacks |-> c,
                 failed |-> f.failed]
<1>3. /\ w \in [Links -> Int]
      /\ \A l \in Links : w[l] = IF l \in {0, d.stream} THEN f.window[l] - d.size
                                 ELSE f.window[l]
  <2>1. -d.size \in Int
    BY <1>2
  <2>2. /\ w \in [Links -> Int]
        /\ \A l \in Links :
              w[l] = IF l \in {0, d.stream} THEN f.window[l] + (-d.size) ELSE f.window[l]
    BY ONLY <1>1, <1>2, <2>1, IncrementedIs
  <2>3. \A l \in Links : f.window[l] \in Int /\ f.window[l] + (-d.size) = f.window[l] - d.size
    BY <1>1, <1>2
  <2> HIDE DEF w
  <2> QED BY <2>2, <2>3
<1>4. /\ o \in [Links -> Nat]
      /\ \A l \in Links : o[l] = IF l \in {0, d.stream} THEN f.owed[l] + d.size
                                 ELSE f.owed[l]
  <2>1. PICK W \in [Links -> Nat], n \in Nat, s \in Streams :
            W = f.owed /\ n = d.size /\ s = d.stream
    BY ONLY <1>1, <1>2
  <2>2. /\ Incremented(W, s, n) \in [Links -> Nat]
        /\ \A l \in Links :
              Incremented(W, s, n)[l] = IF l \in {0, s} THEN W[l] + n ELSE W[l]
    BY OwedIs
  <2> QED BY ONLY <2>1, <2>2
<1>5. /\ q \in [Streams -> Seq(Nat)]
      /\ \A t \in Streams : q[t] = IF t = d.stream THEN Append(f.sent[t], d.nr)
                                   ELSE f.sent[t]
  BY ONLY <1>1, <1>2, SentAppended
<1>6. c \in Seq(Streams \cup {RST, GOAWAY})
  BY <1>1, <1>2
<1>7. SendFrame(f, d) = g
  <2>1. f = [window |-> f.window, owed |-> f.owed, frames |-> f.frames,
             unavailable |-> f.unavailable, sent |-> f.sent,
             callbacks |-> f.callbacks, failed |-> f.failed]
    BY DEF Flow
  <2>2. SendFrame(f, d) = [f EXCEPT !.window = w, !.owed = o, !.sent = q, !.callbacks = c]
    BY DEF SendFrame
  <2> HIDE DEF w, o, q, c
  <2> QED BY ONLY <2>1, <2>2
<1>8. f.frames \in Seq(Frame) /\ f.unavailable \in SUBSET Streams /\ f.failed \in BOOLEAN
  BY FlowIs
<1>9. c = IF d.final THEN Append(f.callbacks, d.stream) ELSE f.callbacks
  OBVIOUS
<1> HIDE DEF w, o, q, c
<1>10. g \in Flow
  BY <1>3, <1>4, <1>5, <1>6, <1>8 DEF Flow
<1>11. /\ g.frames = f.frames /\ g.unavailable = f.unavailable /\ g.failed = f.failed
       /\ g.window = w /\ g.owed = o /\ g.sent = q /\ g.callbacks = c
  OBVIOUS
<1> HIDE DEF g
<1> QED BY <1>3, <1>4, <1>5, <1>7, <1>9, <1>10, <1>11

LEMMA AvailableIs ==
    ASSUME NEW f, NEW s, NEW n, NEW strict \in BOOLEAN
    PROVE  Available(f, s, n, strict) <=>
               Room(f.window, s, n) /\ (strict => ~Delays(f.frames, s))
  BY DEF Available, Room, Delayed, Delays

\* Windows that are taken of.
TakenOf(W, V, s, n) ==
    \A l \in Links : V[l] = IF l \in {0, s} THEN W[l] - n ELSE W[l]
LEMMA CreditSent ==
    ASSUME NEW st \in [Streams -> Stream], NEW s \in Streams, NEW n \in Nat,
           NEW W \in [Links -> Int], NEW O \in [Links -> Nat],
           NEW V \in [Links -> Int], NEW P \in [Links -> Nat],
           Credited(W, O, st), Room(W, s, n),
           TakenOf(W, V, s, n), TakenOf(P, O, s, n)
    PROVE  Credited(V, P, st)
<1>1. 0 \in Links /\ s \in Links /\ \A x \in Streams : x \in Links
  BY NotLinks
<1>2. \A l \in Links : V[l] >= 0 /\ V[l] + P[l] = W[l] + O[l]
  BY <1>1 DEF Credited, Room, TakenOf
<1>3. Window \in Nat
  BY SizesAssumption
<1>4. V[0] + P[0] = Window
  BY <1>1, <1>2 DEF Credited
<1>5. \A x \in Streams : V[x] + P[x] = W[x] + O[x]
  BY <1>1, <1>2
<1> QED BY <1>2, <1>4, <1>5 DEF Credited

\* What does not fit does not when there is less.
LEMMA StillStarved ==
    ASSUME NEW Q \in Seq(Frame), NEW st, NEW s \in Streams, NEW n \in Nat,
           NEW W \in [Links -> Int], NEW V \in [Links -> Int],
           Starved(Q, W, st), ~Delays(Q, s), Room(W, s, n),
           TakenOf(W, V, s, n)
    PROVE  Starved(Q, V, st)
<1> SUFFICES ASSUME NEW i \in DOMAIN Q, ~Room(W, Q[i].stream, Q[i].size)
             PROVE  ~Room(V, Q[i].stream, Q[i].size)
  BY DEF Starved
<1>1. PICK x \in Streams, m \in Nat : x = Q[i].stream /\ m = Q[i].size
  BY FrameIs
<1>2. x # s /\ x # 0 /\ x \in Links /\ 0 \in Links
  BY <1>1, NotLinks DEF Delays
<1>3. V[x] = W[x] /\ V[0] = W[0] - n /\ W[0] # 0
  BY <1>2 DEF Room, TakenOf
<1>4. W[x] = 0 \/ W[x] < m \/ W[0] < m
  BY <1>1, <1>2, <1>3 DEF Room
<1> QED BY <1>1, <1>2, <1>3, <1>4 DEF Room

LEMMA AppendedIs ==
    ASSUME NEW Q \in Seq(Frame), NEW d \in Frame
    PROVE  /\ Append(Q, d) \in Seq(Frame) /\ Len(Append(Q, d)) = Len(Q) + 1
           /\ DOMAIN Append(Q, d) = 1 .. Len(Q) + 1
           /\ DOMAIN Q = 1 .. Len(Q) /\ Len(Q) \in Nat
           /\ \A i \in 1 .. Len(Q) : Append(Q, d)[i] = Q[i]
           /\ Append(Q, d)[Len(Q) + 1] = d
  OBVIOUS

LEMMA NumbersSent ==
    ASSUME NEW z \in Seq(Nat), NEW Q \in Seq(Frame), NEW s, NEW k \in Nat,
           Numbers(z, Q, s, k), ~Delays(Q, s)
    PROVE  Numbers(Append(z, k + 1), Q, s, k + 1)
<1>1. {i \in DOMAIN Q : Q[i].stream = s} = {}
  BY DEF Delays
<1>2. {Q[i].nr : i \in {}} = {}
  OBVIOUS
<1>3. Len(z) + 1 .. k = {}
  BY <1>1, <1>2 DEF Numbers
<1>4. Len(z) \in Nat /\ Len(z) = k
  BY <1>3 DEF Numbers
<1>5. /\ Len(Append(z, k + 1)) = k + 1
      /\ \A i \in 1 .. k + 1 : Append(z, k + 1)[i] = IF i = k + 1 THEN k + 1 ELSE z[i]
      /\ Append(z, k + 1) \in Seq(Nat)
  BY <1>4
<1>6. z = [i \in 1 .. k |-> i]
  BY <1>4 DEF Numbers
<1>7. \A i \in 1 .. k : z[i] = i
  BY <1>6
<1>8. Append(z, k + 1) = [i \in 1 .. k + 1 |-> i]
  BY <1>5, <1>7
<1>9. {Q[i].nr : i \in {i \in DOMAIN Q : Q[i].stream = s}} = k + 2 .. k + 1
  BY <1>1, <1>2
<1> QED BY <1>1, <1>5, <1>8, <1>9 DEF Numbers

\* a frame behind the others
LEMMA NumbersAppended ==
    ASSUME NEW z \in Seq(Nat), NEW Q \in Seq(Frame), NEW s, NEW k \in Nat,
           NEW d \in Frame, Numbers(z, Q, s, k), d.stream = s => d.nr = k + 1
    PROVE  Numbers(z, Append(Q, d), s, IF d.stream = s THEN k + 1 ELSE k)
<1> DEFINE own == {i \in DOMAIN Q : Q[i].stream = s}
           R == Append(Q, d)
           n == Len(Q) + 1
           more == {i \in DOMAIN R : R[i].stream = s}
<1>1. /\ DOMAIN R = 1 .. n /\ DOMAIN Q = 1 .. n - 1 /\ n \in Nat
      /\ \A i \in 1 .. n - 1 : R[i] = Q[i]
      /\ R[n] = d
  BY AppendedIs
<1>2. /\ Len(z) <= k /\ z = [i \in 1 .. Len(z) |-> i]
      /\ {Q[i].nr : i \in own} = Len(z) + 1 .. k
      /\ \A i, j \in own : i < j => Q[i].nr < Q[j].nr
  BY DEF Numbers
<1>3. more = IF d.stream = s THEN own \cup {n} ELSE own
  BY <1>1
<1>4. \A i \in own : R[i].nr = Q[i].nr /\ i \in 1 .. n - 1 /\ Q[i].nr \in Len(z) + 1 .. k
  BY <1>1, <1>2
<1>5. CASE d.stream = s
  <2>1. {R[i].nr : i \in more} = (Len(z) + 1 .. k) \cup {k + 1}
    <3>1. {R[i].nr : i \in more} = {R[i].nr : i \in own} \cup {R[n].nr}
      BY <1>3, <1>5
    <3>2. {R[i].nr : i \in own} = {Q[i].nr : i \in own}
      BY <1>4
    <3> QED BY <3>1, <3>2, <1>1, <1>2, <1>5
  <2>2. (Len(z) + 1 .. k) \cup {k + 1} = Len(z) + 1 .. k + 1
    BY <1>2
  <2>3. \A i, j \in more : i < j => R[i].nr < R[j].nr
    <3> SUFFICES ASSUME NEW i \in more, NEW j \in more, i < j PROVE R[i].nr < R[j].nr
      OBVIOUS
    <3>1. i \in own
      BY <1>1, <1>3, <1>5
    <3>2. CASE j = n
      BY <3>1, <3>2, <1>1, <1>4, <1>5
    <3>3. CASE j \in own
      BY <3>1, <3>3, <1>2, <1>4
    <3> QED BY <3>2, <3>3, <1>3, <1>5
  <2> HIDE DEF own, R, n, more
  <2>4. Len(z) <= k + 1
    BY <1>2
  <2> QED BY <1>2, <1>5, <2>1, <2>2, <2>3, <2>4 DEF Numbers, more, R
<1>6. CASE d.stream # s
  <2>1. more = own
    BY <1>3, <1>6
  <2>2. {R[i].nr : i \in more} = {Q[i].nr : i \in own}
    BY <2>1, <1>4
  <2>3. \A i, j \in more : i < j => R[i].nr < R[j].nr
    BY <2>1, <1>2, <1>4
  <2> HIDE DEF own, R, n, more
  <2> QED BY <1>2, <1>6, <2>2, <2>3 DEF Numbers, more, R
<1> QED BY <1>5, <1>6

\* A sequence of frames without one of them.
Without(Q, m) == [i \in 1 .. Len(Q) - 1 |-> Q[IF i < m THEN i ELSE i + 1]]
LEMMA WithoutIs ==
    ASSUME NEW Q \in Seq(Frame), NEW m \in 1 .. Len(Q)
    PROVE  /\ Without(Q, m) \in Seq(Frame) /\ DOMAIN Without(Q, m) = 1 .. Len(Q) - 1
           /\ Len(Without(Q, m)) = Len(Q) - 1 /\ Len(Q) - 1 \in Nat
           /\ \A i \in 1 .. Len(Q) - 1 :
                 Without(Q, m)[i] = Q[IF i < m THEN i ELSE i + 1]
           /\ \A j \in 1 .. Len(Q) : j # m =>
                 \E i \in 1 .. Len(Q) - 1 : j = IF i < m THEN i ELSE i + 1
<1>1. Len(Q) - 1 \in Nat /\ \A i \in 1 .. Len(Q) - 1 : Q[IF i < m THEN i ELSE i + 1] \in Frame
  OBVIOUS
<1>2. Without(Q, m) \in [1 .. Len(Q) - 1 -> Frame]
  BY <1>1 DEF Without
<1>3. Without(Q, m) \in Seq(Frame) /\ Len(Without(Q, m)) = Len(Q) - 1
  BY <1>1, <1>2
<1>4. ASSUME NEW j \in 1 .. Len(Q), j # m
      PROVE  \E i \in 1 .. Len(Q) - 1 : j = IF i < m THEN i ELSE i + 1
  <2>1. CASE j < m
    <3>1. j \in 1 .. Len(Q) - 1
      BY <2>1
    <3> QED BY <3>1, <2>1
  <2>2. CASE j > m
    <3>1. j - 1 \in 1 .. Len(Q) - 1 /\ ~(j - 1 < m) /\ (j - 1) + 1 = j
      BY <2>2
    <3> QED BY <3>1
  <2> QED BY <2>1, <2>2, <1>4
<1> QED BY <1>1, <1>2, <1>3, <1>4 DEF Without

\* The frames of a stream in Q are those in Without(Q, m), and m.
LEMMA NumbersElse ==
    ASSUME NEW z \in Seq(Nat), NEW Q \in Seq(Frame), NEW m \in 1 .. Len(Q),
           NEW s, Q[m].stream # s, NEW k \in Nat, Numbers(z, Q, s, k)
    PROVE  Numbers(z, Without(Q, m), s, k)
<1> DEFINE own == {i \in DOMAIN Q : Q[i].stream = s}
           R == Without(Q, m)
           less == {i \in DOMAIN R : R[i].stream = s}
           p(i) == IF i < m THEN i ELSE i + 1
<1>1. /\ DOMAIN R = 1 .. Len(Q) - 1 /\ Len(Q) \in Nat /\ DOMAIN Q = 1 .. Len(Q)
      /\ \A i \in 1 .. Len(Q) - 1 : R[i] = Q[p(i)]
      /\ \A j \in 1 .. Len(Q) : j # m => \E i \in 1 .. Len(Q) - 1 : j = p(i)
  <2>1. Len(Q) \in Nat /\ DOMAIN Q = 1 .. Len(Q)
    OBVIOUS
  <2>2. DOMAIN R = 1 .. Len(Q) - 1
    BY WithoutIs
  <2>3. \A i \in 1 .. Len(Q) - 1 : R[i] = Q[p(i)]
    BY WithoutIs
  <2>4. \A j \in 1 .. Len(Q) : j # m => \E i \in 1 .. Len(Q) - 1 : j = p(i)
    BY WithoutIs
  <2> QED BY ONLY <2>1, <2>2, <2>3, <2>4
<1>2. /\ Len(z) <= k /\ z = [i \in 1 .. Len(z) |-> i]
      /\ {Q[i].nr : i \in own} = Len(z) + 1 .. k
      /\ \A i, j \in own : i < j => Q[i].nr < Q[j].nr
  BY DEF Numbers
<1>3. \A i \in less : p(i) \in own /\ R[i] = Q[p(i)]
  BY <1>1
<1>4. \A j \in own : \E i \in less : j = p(i)
  <2> SUFFICES ASSUME NEW j \in own PROVE \E i \in less : j = p(i)
    OBVIOUS
  <2>1. j # m /\ j \in 1 .. Len(Q)
    BY <1>1
  <2>2. PICK i \in 1 .. Len(Q) - 1 : j = p(i)
    BY <1>1, <2>1
  <2> QED BY <1>1, <2>2
<1>5. \A i, j \in less : i < j => p(i) < p(j)
  BY <1>1
<1> HIDE DEF own, R, less, p
<1>6. {R[i].nr : i \in less} = {Q[i].nr : i \in own}
  BY <1>3, <1>4
<1>7. \A i, j \in less : i < j => R[i].nr < R[j].nr
  BY <1>2, <1>3, <1>5
<1> QED BY <1>2, <1>6, <1>7 DEF Numbers, less, R

LEMMA NumbersNext ==
    ASSUME NEW z \in Seq(Nat), NEW Q \in Seq(Frame), NEW m \in 1 .. Len(Q),
           NEW s, Q[m].stream = s, NEW k \in Nat, Numbers(z, Q, s, k),
           \A j \in 1 .. m - 1 : Q[j].stream # s
    PROVE  Numbers(Append(z, Q[m].nr), Without(Q, m), s, k)
<1> DEFINE own == {i \in DOMAIN Q : Q[i].stream = s}
           R == Without(Q, m)
           less == {i \in DOMAIN R : R[i].stream = s}
           p(i) == IF i < m THEN i ELSE i + 1
           n == Len(z) + 1
<1>1. /\ DOMAIN R = 1 .. Len(Q) - 1 /\ Len(Q) \in Nat /\ DOMAIN Q = 1 .. Len(Q)
      /\ \A i \in 1 .. Len(Q) - 1 : R[i] = Q[p(i)]
      /\ \A j \in 1 .. Len(Q) : j # m => \E i \in 1 .. Len(Q) - 1 : j = p(i)
  <2>1. Len(Q) \in Nat /\ DOMAIN Q = 1 .. Len(Q)
    OBVIOUS
  <2>2. DOMAIN R = 1 .. Len(Q) - 1
    BY WithoutIs
  <2>3. \A i \in 1 .. Len(Q) - 1 : R[i] = Q[p(i)]
    BY WithoutIs
  <2>4. \A j \in 1 .. Len(Q) : j # m => \E i \in 1 .. Len(Q) - 1 : j = p(i)
    BY WithoutIs
  <2> QED BY ONLY <2>1, <2>2, <2>3, <2>4
<1>2. /\ Len(z) <= k /\ z = [i \in 1 .. Len(z) |-> i]
      /\ {Q[i].nr : i \in own} = n .. k
      /\ \A i, j \in own : i < j => Q[i].nr < Q[j].nr
      /\ n \in Nat /\ Len(z) \in Nat
  BY DEF Numbers
<1>3. m \in own /\ \A i \in own : i # m => m < i
  BY <1>1
<1>4. Q[m].nr = n
  <2>1. Q[m].nr \in n .. k
    BY <1>2, <1>3
  <2>2. n \in n .. k
    BY <1>2, <2>1
  <2>3. PICK i \in own : Q[i].nr = n
    BY <1>2, <2>2
  <2>4. CASE i # m
    <3>1. Q[m].nr < Q[i].nr
      BY <1>2, <1>3, <2>4
    <3> QED BY <1>2, <2>1, <2>3, <3>1
  <2> QED BY <2>3, <2>4
<1>5. \A i \in less : p(i) \in own \ {m} /\ R[i] = Q[p(i)]
  BY <1>1
<1>6. \A j \in own \ {m} : \E i \in less : j = p(i)
  <2> SUFFICES ASSUME NEW j \in own \ {m} PROVE \E i \in less : j = p(i)
    OBVIOUS
  <2>1. j # m /\ j \in 1 .. Len(Q)
    BY <1>1
  <2>2. PICK i \in 1 .. Len(Q) - 1 : j = p(i)
    BY <1>1, <2>1
  <2> QED BY <1>1, <2>2
<1>7. \A i, j \in less : i < j => p(i) < p(j)
  BY <1>1
<1>8. \A i \in own \ {m} : Q[i].nr \in n + 1 .. k
  <2> SUFFICES ASSUME NEW i \in own \ {m} PROVE Q[i].nr \in n + 1 .. k
    OBVIOUS
  <2>1. Q[i].nr \in n .. k /\ n < Q[i].nr
    BY <1>2, <1>3, <1>4
  <2> QED BY <1>2, <2>1
<1>9. \A v \in n + 1 .. k : \E i \in own \ {m} : Q[i].nr = v
  <2> SUFFICES ASSUME NEW v \in n + 1 .. k PROVE \E i \in own \ {m} : Q[i].nr = v
    OBVIOUS
  <2>1. v \in n .. k /\ v # n
    BY <1>2
  <2>2. PICK i \in own : Q[i].nr = v
    BY <1>2, <2>1
  <2> QED BY <1>4, <2>1, <2>2
<1>10. n <= k
  BY <1>2, <1>3, <1>4
<1>11. /\ Append(z, n) \in Seq(Nat) /\ Len(Append(z, n)) = n
       /\ Append(z, n) = [i \in 1 .. n |-> i]
  <2>1. \A i \in 1 .. Len(z) : z[i] = i
    BY <1>2
  <2>2. /\ Append(z, n) \in Seq(Nat) /\ Len(Append(z, n)) = n
        /\ \A i \in 1 .. n : Append(z, n)[i] = IF i = n THEN n ELSE z[i]
    BY <1>2
  <2> QED BY <2>1, <2>2, <1>2
<1> HIDE DEF own, R, less, p, n
<1>12. {R[i].nr : i \in less} = n + 1 .. k
  <2>1. \A i \in less : R[i].nr \in n + 1 .. k
    BY <1>5, <1>8
  <2>2. \A v \in n + 1 .. k : \E i \in less : R[i].nr = v
    <3> SUFFICES ASSUME NEW v \in n + 1 .. k PROVE \E i \in less : R[i].nr = v
      OBVIOUS
    <3>1. PICK j \in own \ {m} : Q[j].nr = v
      BY <1>9
    <3>2. PICK i \in less : j = p(i)
      BY <1>6
    <3> QED BY <3>1, <3>2, <1>5
  <2> QED BY <2>1, <2>2
<1>13. \A i, j \in less : i < j => R[i].nr < R[j].nr
  BY <1>2, <1>5, <1>7
<1> QED BY <1>4, <1>10, <1>11, <1>12, <1>13 DEF Numbers, less, R

\* Streams that differ in their requests and in the number of their frames only.
AlikeStreams(st, su) ==
    /\ st \in [Streams -> Stream] /\ su \in [Streams -> Stream]
    /\ \A s \in Streams : /\ su[s].st = st[s].st /\ su[s].windowM = st[s].windowM
                          /\ su[s].answered = st[s].answered
LEMMA AlikeKeeps ==
    ASSUME NEW st, NEW su, AlikeStreams(st, su), NEW f \in Flow
    PROVE  /\ Listed(f.frames, f.unavailable, st) =>
                 Listed(f.frames, f.unavailable, su)
           /\ Credited(f.window, f.owed, st) => Credited(f.window, f.owed, su)
           /\ Answering(f.callbacks, f.frames, st) =>
                 Answering(f.callbacks, f.frames, su)
           /\ Starved(f.frames, f.window, st) => Starved(f.frames, f.window, su)
           /\ Blocked(f.frames, f.window, f.unavailable, st) =>
                 Blocked(f.frames, f.window, f.unavailable, su)
<1>1. /\ f.unavailable \subseteq Streams
      /\ \A i \in DOMAIN f.frames : f.frames[i].stream \in Streams
  BY FlowIs, FrameIs
<1>2. Listed(f.frames, f.unavailable, st) => Listed(f.frames, f.unavailable, su)
  BY <1>1 DEF AlikeStreams, Listed
<1>3. Credited(f.window, f.owed, st) => Credited(f.window, f.owed, su)
  BY DEF AlikeStreams, Credited
<1>4. Answering(f.callbacks, f.frames, st) => Answering(f.callbacks, f.frames, su)
  BY DEF AlikeStreams, Answering
<1>5. Starved(f.frames, f.window, st) => Starved(f.frames, f.window, su)
  BY <1>1 DEF AlikeStreams, Starved
<1>6. Blocked(f.frames, f.window, f.unavailable, st) =>
          Blocked(f.frames, f.window, f.unavailable, su)
  BY <1>1 DEF AlikeStreams, Blocked
<1> QED BY <1>2, <1>3, <1>4, <1>5, <1>6

\* one more frame of a stream is made
OneMore(st, s) == [st EXCEPT ![s].parts = @ + 1]
LEMMA OneMoreIs ==
    ASSUME NEW st \in [Streams -> Stream], NEW s \in Streams
    PROVE  /\ AlikeStreams(st, OneMore(st, s))
           /\ \A t \in Streams : OneMore(st, s)[t].parts =
                 IF t = s THEN st[t].parts + 1 ELSE st[t].parts
           /\ \A t \in Streams : st[t].parts \in Nat
<1>1. \A t \in Streams : st[t] \in Stream
  OBVIOUS
<1>2. \A t \in Streams : OneMore(st, s)[t] =
          IF t = s THEN [st[s] EXCEPT !.parts = @ + 1] ELSE st[t]
  BY DEF OneMore
<1>3. [st[s] EXCEPT !.parts = @ + 1] \in Stream
  BY <1>1 DEF Stream
<1>4. OneMore(st, s) \in [Streams -> Stream]
  <2>1. PICK x \in Stream : x = [st[s] EXCEPT !.parts = @ + 1]
    BY <1>3
  <2>2. OneMore(st, s) = [st EXCEPT ![s] = x]
    BY <2>1 DEF OneMore
  <2> QED BY <2>2
<1>5. /\ [st[s] EXCEPT !.parts = @ + 1].st = st[s].st
      /\ [st[s] EXCEPT !.parts = @ + 1].windowM = st[s].windowM
      /\ [st[s] EXCEPT !.parts = @ + 1].answered = st[s].answered
      /\ [st[s] EXCEPT !.parts = @ + 1].parts = st[s].parts + 1
  BY <1>1 DEF Stream
<1>6. \A t \in Streams : st[t].parts \in Nat
  BY <1>1 DEF Stream
<1> QED BY <1>2, <1>4, <1>5, <1>6 DEF AlikeStreams

\* A flow with other frames and other unavailable streams.
Queued(f, Q, U) == [f EXCEPT !.frames = Q, !.unavailable = U]
LEMMA QueuedIs ==
    ASSUME NEW f \in Flow, NEW Q \in Seq(Frame), NEW U \in SUBSET Streams
    PROVE  /\ Queued(f, Q, U) \in Flow
           /\ Queued(f, Q, U).frames = Q /\ Queued(f, Q, U).unavailable = U
           /\ Queued(f, Q, U).window = f.window /\ Queued(f, Q, U).owed = f.owed
           /\ Queued(f, Q, U).sent = f.sent
           /\ Queued(f, Q, U).callbacks = f.callbacks
           /\ Queued(f, Q, U).failed = f.failed
  BY DEF Queued, Flow

\* Whoever cannot send is made unavailable.
LEMMA TryUnavailableGood ==
    ASSUME NEW f, NEW st, FlowGood(f, st), NEW s \in Streams, st[s].st = "open"
    PROVE  /\ FlowGood(TryUnavailable(f, s), st)
           /\ TryUnavailable(f, s).callbacks = f.callbacks
           /\ TryUnavailable(f, s).frames = f.frames
<1>1. CASE Available(f, s, 1, TRUE)
  BY <1>1 DEF TryUnavailable
<1>2. CASE ~Available(f, s, 1, TRUE)
  <2>1. f \in Flow
    BY DEF FlowGood, FlowBase
  <2>2. PICK U \in SUBSET Streams : U = f.unavailable \cup {s}
    BY <2>1, FlowIs
  <2> DEFINE g == Queued(f, f.frames, U)
  <2>3. TryUnavailable(f, s) = g
    BY <1>2, <2>1, <2>2 DEF TryUnavailable, Flow, Queued
  <2>4. /\ g \in Flow /\ g.frames = f.frames /\ g.unavailable = U
        /\ g.window = f.window /\ g.owed = f.owed /\ g.sent = f.sent
        /\ g.callbacks = f.callbacks /\ g.failed = f.failed
    <3>1. f.frames \in Seq(Frame)
      BY <2>1, FlowIs
    <3> QED BY <2>1, <3>1, QueuedIs
  <2> HIDE DEF g
  <2>5. ~Room(f.window, s, 1) \/ Delays(f.frames, s)
    BY <1>2, AvailableIs
  <2>6. \A l \in Links : f.window[l] \in Int /\ f.window[l] >= 0
    BY <2>1, FlowIs DEF FlowGood, FlowBase, Credited
  <2>7. ~Room(f.window, s, 1) => f.window[0] = 0 \/ f.window[s] = 0
    BY <2>6, NotLinks DEF Room
  <2>8. Blocked(g.frames, g.window, g.unavailable, st)
    BY <2>2, <2>4, <2>5, <2>7 DEF Blocked, FlowGood
  <2>9. Listed(g.frames, g.unavailable, st)
    BY <2>2, <2>4 DEF Listed, FlowGood, FlowBase
  <2> QED BY <2>3, <2>4, <2>8, <2>9 DEF FlowGood, FlowBase
<1> QED BY <1>1, <1>2

\* A callback that is added, or none.
WithCallback(q, d) == IF d.final THEN Append(q, d.stream) ELSE q
LEMMA CallbackIs ==
    ASSUME NEW q \in Seq(Streams \cup {RST, GOAWAY}), NEW d \in Frame, NEW x,
           NEW Q
    PROVE  /\ Ending(q, Q, x) => Ending(WithCallback(q, d), Q, x)
           /\ d.final => Ending(WithCallback(q, d), Q, d.stream)
<1>1. d.stream \in Streams \cup {RST, GOAWAY}
  BY FrameIs
<1>2. CASE d.final
  <2>1. /\ DOMAIN Append(q, d.stream) = 1 .. Len(q) + 1 /\ DOMAIN q = 1 .. Len(q)
        /\ \A i \in 1 .. Len(q) : Append(q, d.stream)[i] = q[i]
        /\ Append(q, d.stream)[Len(q) + 1] = d.stream /\ Len(q) \in Nat
    BY <1>1
  <2>2. Len(q) + 1 \in DOMAIN Append(q, d.stream)
    BY <2>1
  <2>3. \A i \in DOMAIN q : i \in DOMAIN Append(q, d.stream)
    BY <2>1
  <2> QED BY <1>2, <2>1, <2>2, <2>3 DEF WithCallback, Ending
<1>3. CASE ~d.final
  BY <1>3 DEF WithCallback
<1> QED BY <1>2, <1>3

\* A frame that goes at once.
LEMMA SentGood ==
    ASSUME NEW f, NEW st, FlowGood(f, st), NEW d \in Frame, st[d.stream].st = "open",
           d.nr = st[d.stream].parts + 1, Available(f, d.stream, d.size, TRUE)
    PROVE  /\ FlowGood(SendFrame(f, d), OneMore(st, d.stream))
           /\ d.final => Ending(SendFrame(f, d).callbacks, SendFrame(f, d).frames, d.stream)
<1>1. f \in Flow /\ st \in [Streams -> Stream]
  BY DEF FlowGood, FlowBase
<1>2. PICK s \in Streams, n \in Nat : s = d.stream /\ n = d.size
  BY FrameIs
<1> DEFINE g == SendFrame(f, d)
           su == OneMore(st, s)
<1>3. /\ g \in Flow /\ g.frames = f.frames /\ g.unavailable = f.unavailable
      /\ g.failed = f.failed
      /\ \A l \in Links :
            /\ g.window[l] = IF l \in {0, s} THEN f.window[l] - n ELSE f.window[l]
            /\ g.owed[l] = IF l \in {0, s} THEN f.owed[l] + n ELSE f.owed[l]
      /\ \A x \in Streams : g.sent[x] =
            IF x = s THEN Append(f.sent[x], d.nr) ELSE f.sent[x]
      /\ g.callbacks = WithCallback(f.callbacks, d)
  BY <1>1, <1>2, SendFrameIs DEF WithCallback
<1>4. /\ AlikeStreams(st, su)
      /\ \A t \in Streams : su[t].parts = IF t = s THEN st[t].parts + 1 ELSE st[t].parts
      /\ \A t \in Streams : st[t].parts \in Nat
  BY <1>1, OneMoreIs
<1> HIDE DEF g, su
<1>5. Room(f.window, s, n) /\ ~Delays(f.frames, s)
  BY <1>2, AvailableIs
<1>6. /\ f.window \in [Links -> Int] /\ f.owed \in [Links -> Nat]
      /\ g.window \in [Links -> Int] /\ g.owed \in [Links -> Nat]
      /\ f.frames \in Seq(Frame)
      /\ f.sent \in [Streams -> Seq(Nat)]
      /\ f.callbacks \in Seq(Streams \cup {RST, GOAWAY})
      /\ f.unavailable \subseteq Streams
  BY <1>1, <1>3, FlowIs
<1>7. Credited(g.window, g.owed, st)
  <2>1. Credited(f.window, f.owed, st)
    BY DEF FlowGood, FlowBase
  <2>2. PICK W \in [Links -> Int], O \in [Links -> Nat], V \in [Links -> Int],
             P \in [Links -> Nat] :
            W = f.window /\ O = f.owed /\ V = g.window /\ P = g.owed
    BY <1>6
  <2>3. TakenOf(W, V, s, n) /\ TakenOf(P, O, s, n)
    BY <1>3, <2>2 DEF TakenOf
  <2>4. Credited(W, O, st) /\ Room(W, s, n)
    BY <2>1, <2>2, <1>5
  <2>5. Credited(V, P, st)
    BY <1>1, <2>3, <2>4, CreditSent
  <2> QED BY <2>2, <2>5
<1>8. Starved(g.frames, g.window, st)
  <2>1. PICK W \in [Links -> Int], V \in [Links -> Int], Q \in Seq(Frame) :
            W = f.window /\ V = g.window /\ Q = f.frames
    BY <1>6
  <2>2. /\ TakenOf(W, V, s, n)
        /\ Starved(Q, W, st) /\ ~Delays(Q, s) /\ Room(W, s, n)
    BY <1>3, <1>5, <2>1 DEF FlowGood, TakenOf
  <2>3. Starved(Q, V, st)
    BY <2>2, StillStarved
  <2> QED BY <1>3, <2>1, <2>3
<1>9. Blocked(g.frames, g.window, g.unavailable, st)
  <2> SUFFICES ASSUME NEW x \in g.unavailable, st[x].st = "open"
               PROVE  Delays(g.frames, x) \/ g.window[0] = 0 \/ g.window[x] = 0
    BY DEF Blocked
  <2>1. Delays(f.frames, x) \/ f.window[0] = 0 \/ f.window[x] = 0
    BY <1>3 DEF Blocked, FlowGood
  <2>2. f.window[0] # 0 /\ f.window[s] # 0
    BY <1>5 DEF Room
  <2>3. x \in Streams /\ x # 0 /\ x \in Links
    BY <1>3, <1>6, NotLinks
  <2> QED BY <1>3, <1>5, <2>1, <2>2, <2>3
<1>10. Listed(g.frames, g.unavailable, st)
  BY <1>3 DEF FlowGood, FlowBase
<1>11. Answering(g.callbacks, g.frames, st)
  BY <1>3, <1>6, CallbackIs DEF FlowGood, FlowBase, Answering
<1>12. d.final => Ending(g.callbacks, g.frames, s)
  <2>1. PICK q \in Seq(Streams \cup {RST, GOAWAY}) : q = f.callbacks
    BY <1>6
  <2>2. d.final => Ending(WithCallback(q, d), g.frames, d.stream)
    BY CallbackIs
  <2> QED BY <1>2, <1>3, <2>1, <2>2
<1>13. Ordered(g.sent, g.frames, su)
  <2> SUFFICES ASSUME NEW x \in Streams
               PROVE  IF su[x].st = "open" THEN Numbers(g.sent[x], g.frames, x, su[x].parts)
                      ELSE g.sent[x] = <<>>
    BY DEF Ordered
  <2>1. IF st[x].st = "open" THEN Numbers(f.sent[x], f.frames, x, st[x].parts)
        ELSE f.sent[x] = <<>>
    BY DEF FlowGood, FlowBase, Ordered
  <2>2. su[x].st = st[x].st
    BY <1>4 DEF AlikeStreams
  <2>3. CASE x # s
    BY <1>3, <1>4, <2>1, <2>2, <2>3
  <2>4. CASE x = s
    <3>1. PICK k \in Nat : k = st[s].parts
      BY <1>4
    <3>2. PICK z \in Seq(Nat), Q \in Seq(Frame) : z = f.sent[s] /\ Q = f.frames
      BY <1>6
    <3>3. Numbers(z, Q, s, k) /\ ~Delays(Q, s)
      BY <1>2, <1>5, <2>1, <2>4, <3>1, <3>2
    <3>4. Numbers(Append(z, k + 1), Q, s, k + 1)
      BY <3>3, NumbersSent
    <3>5. g.sent[s] = Append(z, k + 1) /\ g.frames = Q /\ su[s].parts = k + 1
      BY <1>2, <1>3, <1>4, <3>1, <3>2
    <3> QED BY <1>2, <2>2, <2>4, <3>4, <3>5
  <2> QED BY <2>3, <2>4
<1>14. /\ Listed(g.frames, g.unavailable, su) /\ Credited(g.window, g.owed, su)
       /\ Answering(g.callbacks, g.frames, su) /\ Starved(g.frames, g.window, su)
       /\ Blocked(g.frames, g.window, g.unavailable, su)
  BY <1>3, <1>4, <1>7, <1>8, <1>9, <1>10, <1>11, AlikeKeeps
<1>15. FlowGood(g, su)
  <2>1. su \in [Streams -> Stream] /\ ~g.failed
    BY <1>3, <1>4 DEF AlikeStreams, FlowGood, FlowBase
  <2> QED BY <1>3, <1>13, <1>14, <2>1 DEF FlowGood, FlowBase
<1> QED BY <1>2, <1>12, <1>15 DEF g, su

\* A frame that has to wait.
LEMMA DelayedGood ==
    ASSUME NEW f, NEW st, FlowGood(f, st), NEW d \in Frame, st[d.stream].st = "open",
           d.size <= st[d.stream].windowM,
           d.nr = st[d.stream].parts + 1, ~Available(f, d.stream, d.size, TRUE),
           NEW g, g = [f EXCEPT !.frames = Append(@, d)]
    PROVE  /\ FlowGood(TryUnavailable(g, d.stream), OneMore(st, d.stream))
           /\ d.final => Ending(TryUnavailable(g, d.stream).callbacks,
                                TryUnavailable(g, d.stream).frames, d.stream)
<1>1. f \in Flow /\ st \in [Streams -> Stream]
  BY DEF FlowGood, FlowBase
<1>2. PICK s \in Streams, n \in Nat : s = d.stream /\ n = d.size
  BY FrameIs
<1>3. PICK Q \in Seq(Frame) : Q = f.frames
  BY <1>1, FlowIs
<1>4. PICK R \in Seq(Frame) : R = Append(Q, d)
  BY AppendedIs
<1>5. /\ DOMAIN R = 1 .. Len(Q) + 1 /\ DOMAIN Q = 1 .. Len(Q) /\ Len(Q) \in Nat
      /\ \A i \in 1 .. Len(Q) : R[i] = Q[i]
      /\ R[Len(Q) + 1] = d
  BY <1>4, AppendedIs
<1>6. PICK U \in SUBSET Streams : U = f.unavailable \cup {s}
  BY <1>1, FlowIs
<1> DEFINE h == Queued(f, R, U)
           su == OneMore(st, s)
<1>7. /\ h \in Flow /\ h.frames = R /\ h.unavailable = U
      /\ h.window = f.window /\ h.owed = f.owed /\ h.sent = f.sent
      /\ h.callbacks = f.callbacks /\ h.failed = f.failed
  BY <1>1, QueuedIs
<1>8. TryUnavailable(g, s) = h
  <2>1. g.frames = R /\ g.window = f.window /\ g.unavailable = f.unavailable
    BY <1>1, <1>3, <1>4 DEF Flow
  <2>2. Delays(g.frames, s)
    <3>1. Len(Q) + 1 \in DOMAIN R
      BY <1>5
    <3> QED BY <1>2, <1>5, <2>1, <3>1 DEF Delays
  <2>3. ~Available(g, s, 1, TRUE)
    BY <2>2, AvailableIs
  <2>4. TryUnavailable(g, s) = [g EXCEPT !.unavailable = U]
    BY <2>1, <2>3, <1>6 DEF TryUnavailable
  <2> QED BY <2>4, <1>1, <1>3, <1>4 DEF Flow, Queued
<1>9. /\ AlikeStreams(st, su)
      /\ \A t \in Streams : su[t].parts = IF t = s THEN st[t].parts + 1 ELSE st[t].parts
      /\ \A t \in Streams : st[t].parts \in Nat
  BY <1>1, OneMoreIs
<1> HIDE DEF h, su
<1>10. Listed(h.frames, h.unavailable, st)
  <2>1. Listed(Q, f.unavailable, st)
    BY <1>3 DEF FlowGood, FlowBase
  <2>2. \A x \in U : st[x].st # "idle"
    BY <1>2, <1>6, <2>1 DEF Listed
  <2>3. \A i \in DOMAIN R : R[i] = d \/ (i \in DOMAIN Q /\ R[i] = Q[i])
    BY <1>5
  <2>4. d.stream \in U /\ f.unavailable \subseteq U
    BY <1>2, <1>6
  <2> QED BY <1>7, <2>1, <2>2, <2>3, <2>4 DEF Listed
<1>11. Starved(h.frames, h.window, st)
  <2> SUFFICES ASSUME NEW i \in DOMAIN R, st[R[i].stream].st = "open",
                      \A j \in 1 .. i - 1 : R[j].stream # R[i].stream
               PROVE  ~Room(f.window, R[i].stream, R[i].size)
    BY <1>7 DEF Starved
  <2>1. CASE i = Len(Q) + 1
    <3>1. ~Delays(Q, s)
      BY <1>2, <1>5, <2>1 DEF Delays
    <3>2. ~Room(f.window, s, n)
      BY <1>2, <1>3, <3>1, AvailableIs
    <3> QED BY <1>2, <1>5, <2>1, <3>2
  <2>2. CASE i \in 1 .. Len(Q)
    <3>1. R[i] = Q[i] /\ i \in DOMAIN Q /\ \A j \in 1 .. i - 1 : R[j] = Q[j]
      BY <1>5, <2>2
    <3>2. Starved(Q, f.window, st)
      BY <1>3 DEF FlowGood
    <3> QED BY <3>1, <3>2 DEF Starved
  <2> QED BY <1>5, <2>1, <2>2
<1>12. \A x : Delays(Q, x) \/ x = s => Delays(R, x)
  <2>1. Len(Q) + 1 \in DOMAIN R
    BY <1>5
  <2>2. \A i \in DOMAIN Q : i \in DOMAIN R /\ R[i] = Q[i]
    BY <1>5
  <2> QED BY <1>2, <1>5, <2>1, <2>2 DEF Delays
<1>13. Blocked(h.frames, h.window, h.unavailable, st)
  BY <1>3, <1>6, <1>7, <1>12 DEF Blocked, FlowGood
<1>14. Credited(h.window, h.owed, st)
  BY <1>7 DEF FlowGood, FlowBase
<1>15. \A x : Ending(f.callbacks, Q, x) \/ (d.final /\ x = s) => Ending(h.callbacks, R, x)
  <2>1. Len(Q) + 1 \in DOMAIN R
    BY <1>5
  <2>2. \A i \in DOMAIN Q : i \in DOMAIN R /\ R[i] = Q[i]
    BY <1>5
  <2> QED BY <1>2, <1>5, <1>7, <2>1, <2>2 DEF Ending
<1>16. Answering(h.callbacks, h.frames, st)
  BY <1>3, <1>7, <1>15 DEF FlowGood, FlowBase, Answering
<1>17. Ordered(h.sent, h.frames, su)
  <2> SUFFICES ASSUME NEW x \in Streams
               PROVE  IF su[x].st = "open" THEN Numbers(f.sent[x], R, x, su[x].parts)
                      ELSE f.sent[x] = <<>>
    BY <1>7 DEF Ordered
  <2>1. IF st[x].st = "open" THEN Numbers(f.sent[x], Q, x, st[x].parts)
        ELSE f.sent[x] = <<>>
    BY <1>3 DEF FlowGood, FlowBase, Ordered
  <2>2. su[x].st = st[x].st
    BY <1>9 DEF AlikeStreams
  <2>3. PICK k \in Nat, z \in Seq(Nat) : k = st[x].parts /\ z = f.sent[x]
    BY <1>1, <1>9, FlowIs
  <2>4. d.stream = x => d.nr = k + 1
    BY <2>3
  <2>5. Numbers(z, Q, x, k) => Numbers(z, Append(Q, d), x, IF d.stream = x THEN k + 1 ELSE k)
    BY <2>4, NumbersAppended
  <2>6. su[x].parts = IF d.stream = x THEN k + 1 ELSE k
    BY <1>2, <1>9, <2>3
  <2> QED BY <1>4, <2>1, <2>2, <2>3, <2>5, <2>6
<1>18. /\ Listed(h.frames, h.unavailable, su) /\ Credited(h.window, h.owed, su)
       /\ Answering(h.callbacks, h.frames, su) /\ Starved(h.frames, h.window, su)
       /\ Blocked(h.frames, h.window, h.unavailable, su)
  BY <1>7, <1>9, <1>10, <1>11, <1>13, <1>14, <1>16, AlikeKeeps
<1>19. FlowGood(h, su)
  <2>1. su \in [Streams -> Stream] /\ ~h.failed
    BY <1>7, <1>9 DEF AlikeStreams, FlowGood, FlowBase
  <2> QED BY <1>7, <1>17, <1>18, <2>1 DEF FlowGood, FlowBase
<1> QED BY <1>2, <1>7, <1>8, <1>15, <1>19 DEF su

\* send_data(): a frame goes, or waits behind those of its stream.
LEMMA SendDataGood ==
    ASSUME NEW f, NEW st, FlowGood(f, st), NEW d \in Frame, st[d.stream].st = "open",
           d.size <= st[d.stream].windowM, d.nr = st[d.stream].parts + 1
    PROVE  /\ FlowGood(SendData(f, d), OneMore(st, d.stream))
           /\ d.final => Ending(SendData(f, d).callbacks, SendData(f, d).frames, d.stream)
<1>1. PICK s \in Streams : s = d.stream
  BY FrameIs
<1>2. CASE Available(f, s, d.size, TRUE)
  <2>1. /\ FlowGood(SendFrame(f, d), OneMore(st, s))
        /\ d.final => Ending(SendFrame(f, d).callbacks, SendFrame(f, d).frames, s)
    BY <1>1, <1>2, SentGood
  <2>2. SendData(f, d) = TryUnavailable(SendFrame(f, d), s)
    BY <1>1, <1>2 DEF SendData
  <2>3. OneMore(st, s)[s].st = "open"
    BY <1>1, OneMoreIs DEF AlikeStreams, FlowGood, FlowBase
  <2>4. PICK g, su : g = SendFrame(f, d) /\ su = OneMore(st, s)
    OBVIOUS
  <2>5. /\ FlowGood(TryUnavailable(g, s), su)
        /\ TryUnavailable(g, s).callbacks = g.callbacks
        /\ TryUnavailable(g, s).frames = g.frames
    BY <2>1, <2>3, <2>4, TryUnavailableGood
  <2> QED BY ONLY <1>1, <2>1, <2>2, <2>4, <2>5
<1>3. CASE ~Available(f, s, d.size, TRUE)
  <2>1. PICK g : g = [f EXCEPT !.frames = Append(@, d)]
    OBVIOUS
  <2>2. SendData(f, d) = TryUnavailable(g, s)
    BY <1>1, <1>3, <2>1 DEF SendData
  <2>3. /\ FlowGood(TryUnavailable(g, d.stream), OneMore(st, d.stream))
        /\ d.final => Ending(TryUnavailable(g, d.stream).callbacks,
                             TryUnavailable(g, d.stream).frames, d.stream)
    BY <1>1, <1>3, <2>1, DelayedGood
  <2> QED BY <1>1, <2>2, <2>3
<1> QED BY <1>2, <1>3

LEMMA LeastIs ==
    ASSUME NEW a \in Int, NEW b \in Int, NEW c \in Int
    PROVE  /\ Min({a, b, c}) \in {a, b, c}
           /\ Min({a, b, c}) <= a /\ Min({a, b, c}) <= b /\ Min({a, b, c}) <= c
<1>1. \E x \in {a, b, c} : \A y \in {a, b, c} : x <= y
  <2>1. CASE a <= b /\ a <= c
    BY <2>1
  <2>2. CASE b <= a /\ b <= c
    BY <2>2
  <2>3. CASE c <= a /\ c <= b
    BY <2>3
  <2> QED BY <2>1, <2>2, <2>3
<1>2. Min({a, b, c}) = CHOOSE x \in {a, b, c} : \A y \in {a, b, c} : x <= y
  BY DEF Min
<1>3. \A y \in {a, b, c} : Min({a, b, c}) <= y
  BY <1>1, <1>2
<1>4. Min({a, b, c}) \in {a, b, c}
  BY <1>1, <1>2
<1> QED BY <1>3, <1>4

\* fragment(): what a part is cut into.
LEMMA ChunksAre ==
    ASSUME NEW n \in Nat, NEW m \in Nat \ {0}
    PROVE  Chunks(n, m) \in Seq(Nat) /\ \A i \in DOMAIN Chunks(n, m) : Chunks(n, m)[i] <= m
<1>1. (n + m - 1) \div m \in Nat
  <2>1. n + m - 1 \in Nat /\ m \in Nat /\ m > 0
    OBVIOUS
  <2> QED BY <2>1
<1>2. PICK k \in Nat : k = (n + m - 1) \div m
  BY <1>1
<1>3. n % m \in 0 .. m - 1
  OBVIOUS
<1>4. Chunks(n, m) = [i \in 1 .. k |-> IF i * m <= n THEN m ELSE n % m]
  BY <1>2 DEF Chunks
<1>5. PICK r \in 0 .. m - 1 : r = n % m
  BY <1>3
<1>6. \A i \in 1 .. k : (IF i * m <= n THEN m ELSE r) \in Nat /\ (IF i * m <= n THEN m ELSE r) <= m
  <2>1. m \in Nat /\ r \in Nat /\ r <= m
    OBVIOUS
  <2> QED BY <2>1
<1>7. Chunks(n, m) \in [1 .. k -> Nat]
  BY <1>4, <1>5, <1>6
<1>8. \A i \in 1 .. k : Chunks(n, m)[i] <= m
  BY <1>4, <1>5, <1>6
<1> QED BY <1>7, <1>8

LEMMA FragmentsAre ==
    ASSUME NEW f, f \in Flow, NEW s \in Streams, NEW n \in Nat,
           stream[s].windowM \in Nat \ {0}, \A l \in Links : f.window[l] >= 0
    PROVE  /\ Fragments(f, s, n) \in Seq(Nat) /\ Len(Fragments(f, s, n)) >= 1
           /\ \A i \in DOMAIN Fragments(f, s, n) :
                 Fragments(f, s, n)[i] <= stream[s].windowM
<1> DEFINE m == stream[s].windowM
           a == Min({f.window[0], f.window[s], m})
<1>1. m \in Nat \ {0} /\ m = stream[s].windowM
  OBVIOUS
<1>2. f.window[0] \in Nat /\ f.window[s] \in Nat
  BY NotLinks, FlowIs
<1>3. a \in Nat /\ a <= m
  <2>1. PICK b \in Nat, c \in Nat, k \in Nat :
            b = f.window[0] /\ c = f.window[s] /\ k = m
    BY <1>1, <1>2
  <2> b \in Int /\ c \in Int /\ k \in Int
    OBVIOUS
  <2>2. Min({b, c, k}) \in {b, c, k} /\ Min({b, c, k}) <= k
    BY LeastIs, Zenon
  <2>3. Min({b, c, k}) \in Nat
    BY <2>2
  <2> QED BY <2>1, <2>2, <2>3
<1>4. PICK sizes : sizes = Fragments(f, s, n)
  OBVIOUS
<1>5. \/ sizes = <<n>> /\ n <= m
      \/ sizes = <<a>> \o Chunks(n - a, m) /\ ~(n <= a)
  <2>1. sizes = IF n <= a \/ (n <= m /\ n <= f.window[s]) THEN <<n>>
                ELSE <<a>> \o Chunks(n - a, m)
    BY <1>4, Zenon DEF Fragments
  <2> HIDE DEF m, a
  <2> QED BY <2>1, <1>1, <1>3
<1> HIDE DEF m, a
<1>6. CASE sizes = <<n>> /\ n <= m
  BY <1>1, <1>4, <1>6
<1>7. CASE sizes = <<a>> \o Chunks(n - a, m) /\ ~(n <= a)
  <2>1. n - a \in Nat
    BY <1>3, <1>7
  <2>2. PICK C \in Seq(Nat) : C = Chunks(n - a, m) /\ \A i \in DOMAIN C : C[i] <= m
    BY <1>1, <2>1, ChunksAre
  <2>3. <<a>> \o C \in Seq(Nat) /\ Len(<<a>> \o C) = Len(C) + 1
    BY <1>3
  <2>4. \A i \in 1 .. Len(C) + 1 : (<<a>> \o C)[i] = IF i = 1 THEN a ELSE C[i - 1]
    BY <1>3
  <2>5. \A i \in 1 .. Len(C) + 1 : (<<a>> \o C)[i] <= m
    <3> SUFFICES ASSUME NEW i \in 1 .. Len(C) + 1 PROVE (<<a>> \o C)[i] <= m
      OBVIOUS
    <3>1. CASE i = 1
      BY <1>3, <2>4, <3>1
    <3>2. CASE i # 1
      <4>1. i - 1 \in DOMAIN C
        BY <3>2
      <4> QED BY <2>2, <2>4, <3>2, <4>1
    <3> QED BY <3>1, <3>2
  <2> QED BY <1>1, <1>4, <1>7, <2>2, <2>3, <2>5
<1> QED BY <1>5, <1>6, <1>7

LEMMA SendDataFlow ==
    ASSUME NEW f \in Flow, NEW d \in Frame
    PROVE  SendData(f, d) \in Flow
<1>1. d.stream \in Streams
  BY FrameIs
<1>2. \A g \in Flow : TryUnavailable(g, d.stream) \in Flow
  <2> SUFFICES ASSUME NEW g \in Flow PROVE TryUnavailable(g, d.stream) \in Flow
    OBVIOUS
  <2>1. g.unavailable \cup {d.stream} \in SUBSET Streams
    BY <1>1, FlowIs
  <2>2. [g EXCEPT !.unavailable = @ \cup {d.stream}] \in Flow
    BY <2>1 DEF Flow
  <2> QED BY <2>2 DEF TryUnavailable
<1>3. SendFrame(f, d) \in Flow
  BY SendFrameIs
<1>4. [f EXCEPT !.frames = Append(@, d)] \in Flow
  <2>1. Append(f.frames, d) \in Seq(Frame)
    BY FlowIs, AppendedIs
  <2> QED BY <2>1 DEF Flow
<1> QED BY <1>2, <1>3, <1>4 DEF SendData

\* The streams when n frames of a part of s were made.
Made(s, n) == [stream EXCEPT ![s].parts = @ + n]
LEMMA MadeIs ==
    ASSUME stream \in [Streams -> Stream], NEW s \in Streams, NEW n \in Nat
    PROVE  /\ Made(s, n) \in [Streams -> Stream]
           /\ \A t \in Streams : t # s => Made(s, n)[t] = stream[t]
           /\ Made(s, n)[s] = [stream[s] EXCEPT !.parts = @ + n]
           /\ Made(s, n)[s].parts = stream[s].parts + n
           /\ Made(s, n)[s].windowM = stream[s].windowM
           /\ Made(s, n)[s].st = stream[s].st
           /\ stream[s].parts \in Nat
<1>1. PICK x \in Stream : x = stream[s]
  OBVIOUS
<1>2. /\ [x EXCEPT !.parts = @ + n] \in Stream
      /\ [x EXCEPT !.parts = @ + n].parts = x.parts + n
      /\ [x EXCEPT !.parts = @ + n].windowM = x.windowM
      /\ [x EXCEPT !.parts = @ + n].st = x.st /\ x.parts \in Nat
  BY DEF Stream
<1>3. PICK y \in Stream : y = [x EXCEPT !.parts = @ + n]
  BY <1>2
<1>4. Made(s, n) = [stream EXCEPT ![s] = y]
  BY <1>1, <1>3 DEF Made
<1>5. /\ Made(s, n) \in [Streams -> Stream] /\ Made(s, n)[s] = y
      /\ \A t \in Streams : t # s => Made(s, n)[t] = stream[t]
  BY <1>4
<1> QED BY <1>1, <1>2, <1>3, <1>5

LEMMA MadeNext ==
    ASSUME stream \in [Streams -> Stream], NEW s \in Streams, NEW n \in Nat
    PROVE  /\ OneMore(Made(s, n), s) = Made(s, n + 1) /\ Made(s, 0) = stream
<1>1. PICK x \in Stream, a \in Stream : x = stream[s] /\ a = [x EXCEPT !.parts = @ + n]
  <2>1. stream[s] \in Stream /\ Made(s, n)[s] \in Stream
    BY MadeIs
  <2> QED BY <2>1, MadeIs
<1>2. [a EXCEPT !.parts = @ + 1] = [x EXCEPT !.parts = @ + (n + 1)]
  <2>1. PICK p \in Nat : p = x.parts
    BY DEF Stream
  <2>2. a = [x EXCEPT !.parts = p + n]
    BY <1>1, <2>1
  <2>3. a.parts = p + n
    BY <2>2 DEF Stream
  <2>4. [a EXCEPT !.parts = @ + 1] = [a EXCEPT !.parts = p + n + 1]
    BY <2>3
  <2>5. \A y : [a EXCEPT !.parts = y] = [x EXCEPT !.parts = y]
    BY <2>2 DEF Stream
  <2>6. [x EXCEPT !.parts = @ + (n + 1)] = [x EXCEPT !.parts = p + n + 1]
    BY <2>1
  <2> QED BY <2>4, <2>5, <2>6
<1>3. x = [x EXCEPT !.parts = @ + 0]
  BY DEF Stream
<1>4. PICK b : b = [x EXCEPT !.parts = @ + (n + 1)]
  OBVIOUS
<1>5. Made(s, n) = [stream EXCEPT ![s] = a] /\ Made(s, n + 1) = [stream EXCEPT ![s] = b]
  BY <1>1, <1>4 DEF Made
<1>6. OneMore(Made(s, n), s) = [stream EXCEPT ![s] = b]
  <2>1. Made(s, n)[s] = a /\ Made(s, n) \in [Streams -> Stream]
    BY <1>1, MadeIs
  <2>2. OneMore(Made(s, n), s) = [Made(s, n) EXCEPT ![s] = b]
    BY <1>2, <1>4, <2>1 DEF OneMore
  <2> QED BY <1>5, <2>2
<1>7. Made(s, 0) = stream
  BY <1>1, <1>3 DEF Made
<1> QED BY <1>5, <1>6, <1>7

\* send_part(): one by one, its frames are sent or wait.
LEMMA SendPartGood ==
    ASSUME NEW f, FlowGood(f, stream), NEW s \in Streams, stream[s].st = "open",
           NEW size \in Nat, NEW final \in BOOLEAN
    PROVE  /\ FlowGood(SendPart(f, s, size, final),
                       Made(s, Len(Fragments(f, s, size))))
           /\ Len(Fragments(f, s, size)) \in Nat
           /\ final => Ending(SendPart(f, s, size, final).callbacks,
                              SendPart(f, s, size, final).frames, s)
<1>1. f \in Flow /\ stream \in [Streams -> Stream]
  BY DEF FlowGood, FlowBase
<1>2. PICK sizes : sizes = Fragments(f, s, size)
  OBVIOUS
<1>3. stream[s].windowM \in Nat \ {0} /\ \A l \in Links : f.window[l] >= 0
  BY DEF FlowGood, FlowBase, Credited
<1>4. /\ sizes \in Seq(Nat) /\ Len(sizes) >= 1
      /\ \A i \in DOMAIN sizes : sizes[i] <= stream[s].windowM
  BY <1>1, <1>2, <1>3, FragmentsAre
<1>5. PICK n \in Nat : n = Len(sizes) /\ n >= 1 /\ DOMAIN sizes = 1 .. n
  BY <1>4
<1> DEFINE Sends(i) == [stream |-> s, size |-> sizes[i], nr |-> stream[s].parts + i,
                       final |-> final /\ i = n]
           P(U) == U = [i \in 0 .. n |-> IF i = 0 THEN f ELSE SendData(U[i - 1], Sends(i))]
           U == CHOOSE U : P(U)
           F == [x \in Flow \X (1 .. n) |-> SendData(x[1], Sends(x[2]))]
<1>6. stream[s].parts \in Nat
  BY <1>1, MadeIs
<1>7. \A i \in 1 .. n : Sends(i) \in Frame
  <2> SUFFICES ASSUME NEW i \in 1 .. n PROVE Sends(i) \in Frame
    OBVIOUS
  <2>1. sizes[i] \in Nat /\ stream[s].parts + i \in Nat
    BY <1>4, <1>5, <1>6
  <2>2. (final /\ i = n) \in BOOLEAN
    OBVIOUS
  <2> QED BY <2>1, <2>2 DEF Frame
<1>8. \A i : /\ Sends(i).stream = s /\ Sends(i).size = sizes[i]
             /\ Sends(i).nr = stream[s].parts + i
             /\ Sends(i).final = (final /\ i = n)
  OBVIOUS
<1>9. SendPart(f, s, size, final) = U[n]
  BY <1>2, <1>5 DEF SendPart
<1> HIDE DEF Sends
<1>10. F \in [Flow \X (1 .. n) -> Flow]
  BY <1>7, SendDataFlow
<1>11. PICK A \in [0 .. n -> Flow] :
           A[0] = f /\ \A i \in 1 .. n : A[i] = F[<<A[i - 1], i>>]
  <2> HIDE DEF F
  <2>1. PICK G \in [Flow \X (1 .. n) -> Flow] : G = F
    BY <1>10
  <2>2. \E A \in [0 .. n -> Flow] :
            A[0] = f /\ \A i \in 1 .. n : A[i] = G[<<A[i - 1], i>>]
    <3>1. \E A : Recursive(A, Flow, n, f, G)
      <4>1. f \in Flow
        BY <1>1
      <4> QED BY <4>1, RecursionIs
    <3> QED BY <3>1 DEF Recursive
  <2> QED BY <2>1, <2>2
<1>12. P(A)
  <2>1. \A i \in 1 .. n : i - 1 \in 0 .. n
    OBVIOUS
  <2>2. \A i \in 1 .. n : A[i] = SendData(A[i - 1], Sends(i))
    BY <1>11, <2>1
  <2>3. \A i \in 0 .. n : A[i] = IF i = 0 THEN f ELSE SendData(A[i - 1], Sends(i))
    BY <1>11, <2>2
  <2> QED BY <2>3
<1>13. P(U)
  <2> HIDE DEF P
  <2> QED BY <1>12
<1>14. U[0] = f /\ \A i \in 1 .. n : U[i] = SendData(U[i - 1], Sends(i))
  <2> HIDE DEF U
  <2> QED BY <1>13
<1> HIDE DEF U, P, F
<1> DEFINE S == {i \in 0 .. n : /\ FlowGood(U[i], Made(s, i))
                                /\ i = n /\ final => Ending(U[i].callbacks, U[i].frames, s)}
<1>15. 0 \in S
  BY <1>1, <1>5, <1>14, MadeNext
<1>16. ASSUME NEW i \in 1 .. n, i - 1 \in S PROVE i \in S
  <2>1. PICK k \in Nat : k = i - 1
    OBVIOUS
  <2>2. FlowGood(U[k], Made(s, k))
    BY <1>16, <2>1
  <2>3. PICK g, st, d : g = U[k] /\ st = Made(s, k) /\ d = Sends(i)
    OBVIOUS
  <2>4. d \in Frame /\ d.stream = s /\ d.size = sizes[i]
    BY <1>7, <1>8, <2>3
  <2>5. /\ st[s].parts = stream[s].parts + k /\ st[s].windowM = stream[s].windowM
        /\ st[s].st = "open"
    BY <1>1, <2>3, MadeIs
  <2>6. d.nr = stream[s].parts + i /\ d.final = (final /\ i = n)
    BY <1>8, <2>3
  <2>7. d.nr = st[s].parts + 1 /\ d.size <= st[s].windowM
    BY <1>4, <1>5, <1>6, <2>1, <2>4, <2>5, <2>6
  <2>8. /\ FlowGood(SendData(g, d), OneMore(st, s))
        /\ d.final => Ending(SendData(g, d).callbacks, SendData(g, d).frames, s)
    BY <2>2, <2>3, <2>4, <2>5, <2>7, SendDataGood
  <2>9. OneMore(st, s) = Made(s, i)
    BY <1>1, <2>1, <2>3, MadeNext
  <2>10. U[i] = SendData(g, d)
    BY <1>14, <2>1, <2>3
  <2> QED BY <2>6, <2>8, <2>9, <2>10
<1>17. \A i \in 0 .. n : i \in S
  <2> HIDE DEF S
  <2> QED BY <1>15, <1>16, UpToAll
<1>18. n \in S
  BY <1>17
<1> QED BY <1>2, <1>5, <1>9, <1>18

\* FlowBase, of a flow whose frames are Q.
BaseOf(f, Q, st) ==
    /\ Listed(Q, f.unavailable, st) /\ Credited(f.window, f.owed, st)
    /\ Ordered(f.sent, Q, st) /\ Answering(f.callbacks, Q, st)

\* In the loop of flush_frames(), the frames K that it kept and those of F after
\* the first i.
Ahead(K, F, i) ==
    [k \in 1 .. Len(K) + Len(F) - i |->
        IF k <= Len(K) THEN K[k] ELSE F[k - Len(K) + i]]
LEMMA AheadIs ==
    ASSUME NEW K \in Seq(Frame), NEW F \in Seq(Frame), NEW i \in 0 .. Len(F)
    PROVE  /\ Ahead(K, F, i) \in Seq(Frame)
           /\ Len(Ahead(K, F, i)) = Len(K) + Len(F) - i
           /\ DOMAIN Ahead(K, F, i) = 1 .. Len(K) + Len(F) - i
           /\ Len(K) \in Nat /\ Len(F) \in Nat
           /\ \A k \in 1 .. Len(K) + Len(F) - i :
                 Ahead(K, F, i)[k] = IF k <= Len(K) THEN K[k] ELSE F[k - Len(K) + i]
<1>1. Len(K) \in Nat /\ Len(F) \in Nat /\ DOMAIN K = 1 .. Len(K) /\ DOMAIN F = 1 .. Len(F)
  OBVIOUS
<1>2. PICK n \in Nat : n = Len(K) + Len(F) - i
  <2>1. i \in Nat /\ i <= Len(F)
    OBVIOUS
  <2>2. PICK a \in Nat, b \in Nat : a = Len(K) /\ b = Len(F)
    BY <1>1
  <2>3. a + b - i \in Nat
    BY <2>1, <2>2
  <2> QED BY <2>2, <2>3
<1>3. ASSUME NEW k \in 1 .. n
      PROVE  (IF k <= Len(K) THEN K[k] ELSE F[k - Len(K) + i]) \in Frame
  <2>1. CASE k <= Len(K)
    BY <2>1, <1>1
  <2>2. CASE ~(k <= Len(K))
    <3>1. k - Len(K) + i \in 1 .. Len(F)
      BY <1>1, <1>2, <2>2
    <3> QED BY <2>2, <3>1
  <2> QED BY <2>1, <2>2
<1>4. Ahead(K, F, i) \in [1 .. n -> Frame]
  BY <1>2, <1>3 DEF Ahead
<1>5. Ahead(K, F, i) \in Seq(Frame) /\ Len(Ahead(K, F, i)) = n
  BY <1>4
<1>6. \A k \in 1 .. n :
          Ahead(K, F, i)[k] = IF k <= Len(K) THEN K[k] ELSE F[k - Len(K) + i]
  BY <1>2 DEF Ahead
<1> QED BY <1>1, <1>2, <1>4, <1>5, <1>6

\* one is kept, or not
LEMMA AheadNext ==
    ASSUME NEW K \in Seq(Frame), NEW F \in Seq(Frame), NEW i \in 1 .. Len(F)
    PROVE  /\ Ahead(Append(K, F[i]), F, i) = Ahead(K, F, i - 1)
           /\ Ahead(K, F, i) = Without(Ahead(K, F, i - 1), Len(K) + 1)
           /\ Len(K) + 1 \in 1 .. Len(Ahead(K, F, i - 1))
           /\ Ahead(K, F, i - 1)[Len(K) + 1] = F[i]
           /\ \A k \in 1 .. Len(K) : Ahead(K, F, i - 1)[k] = K[k]
<1>1. Len(K) \in Nat /\ Len(F) \in Nat /\ i - 1 \in 0 .. Len(F) /\ i \in 0 .. Len(F)
  OBVIOUS
<1>2. PICK n \in Nat, m \in Nat : n = Len(F) - i /\ m = Len(K)
  BY <1>1
<1>3. PICK d \in Frame : d = F[i]
  OBVIOUS
<1>4. PICK R \in Seq(Frame) : R = Append(K, d)
  BY AppendedIs
<1>5. Len(R) = m + 1 /\ R[m + 1] = d /\ \A k \in 1 .. m : R[k] = K[k]
  BY <1>2, <1>4, AppendedIs
<1>6. PICK A \in Seq(Frame) : A = Ahead(K, F, i - 1)
  BY <1>1, AheadIs
<1>7. /\ Len(A) = m + n + 1 /\ DOMAIN A = 1 .. m + n + 1
      /\ \A k \in 1 .. m + n + 1 : A[k] = IF k <= m THEN K[k] ELSE F[k - m + (i - 1)]
  <2>1. m + n + 1 = Len(K) + Len(F) - (i - 1)
    BY <1>1, <1>2
  <2>2. /\ Len(A) = Len(K) + Len(F) - (i - 1)
        /\ DOMAIN A = 1 .. Len(K) + Len(F) - (i - 1)
        /\ \A k \in 1 .. Len(K) + Len(F) - (i - 1) :
               A[k] = IF k <= Len(K) THEN K[k] ELSE F[k - Len(K) + (i - 1)]
    <3>1. PICK j \in 0 .. Len(F) : j = i - 1
      BY <1>1
    <3>2. /\ Len(Ahead(K, F, j)) = Len(K) + Len(F) - j
          /\ DOMAIN Ahead(K, F, j) = 1 .. Len(K) + Len(F) - j
          /\ \A k \in 1 .. Len(K) + Len(F) - j :
                 Ahead(K, F, j)[k] = IF k <= Len(K) THEN K[k] ELSE F[k - Len(K) + j]
      BY AheadIs
    <3> QED BY ONLY <1>6, <3>1, <3>2
  <2> QED BY <1>2, <2>1, <2>2
<1>8. A[m + 1] = d
  <2>1. m + 1 \in 1 .. m + n + 1 /\ m + 1 - m + (i - 1) = i /\ ~(m + 1 <= m)
    BY <1>1, <1>2
  <2>2. A[m + 1] = IF m + 1 <= m THEN K[m + 1] ELSE F[m + 1 - m + (i - 1)]
    BY ONLY <1>7, <2>1
  <2>3. A[m + 1] = F[m + 1 - m + (i - 1)]
    BY <2>1, <2>2
  <2>4. F[m + 1 - m + (i - 1)] = F[i]
    BY <2>1
  <2> QED BY <1>3, <2>3, <2>4
<1>9. PICK B : B = Ahead(R, F, i)
  OBVIOUS
<1>10. B = A
  <2>1. /\ B \in Seq(Frame) /\ DOMAIN B = 1 .. Len(R) + Len(F) - i
        /\ \A k \in 1 .. Len(R) + Len(F) - i :
               B[k] = IF k <= Len(R) THEN R[k] ELSE F[k - Len(R) + i]
    BY <1>1, <1>9, AheadIs
  <2>2. Len(R) + Len(F) - i = m + n + 1
    BY <1>1, <1>2, <1>5
  <2>3. /\ DOMAIN B = 1 .. m + n + 1
        /\ \A k \in 1 .. m + n + 1 : B[k] = IF k <= m + 1 THEN R[k] ELSE F[k - (m + 1) + i]
    BY <1>5, <2>1, <2>2
  <2>4. ASSUME NEW k \in 1 .. m + n + 1 PROVE B[k] = A[k]
    <3>1. CASE k <= m
      <4>1. k \in 1 .. m /\ k <= m + 1
        BY <3>1
      <4> QED BY <1>5, <1>7, <2>3, <3>1, <4>1
    <3>2. CASE k = m + 1
      BY <1>5, <1>8, <2>3, <3>2
    <3>3. CASE k > m + 1
      <4>1. k - (m + 1) + i = k - m + (i - 1) /\ ~(k <= m) /\ ~(k <= m + 1)
        BY <3>3
      <4> QED BY <1>7, <2>3, <4>1
    <3> QED BY <3>1, <3>2, <3>3
  <2> QED BY <1>7, <2>1, <2>3, <2>4
<1>11. PICK C : C = Ahead(K, F, i)
  OBVIOUS
<1>12. C = Without(A, m + 1)
  <2>1. /\ C \in Seq(Frame) /\ DOMAIN C = 1 .. Len(K) + Len(F) - i
        /\ \A k \in 1 .. Len(K) + Len(F) - i :
               C[k] = IF k <= Len(K) THEN K[k] ELSE F[k - Len(K) + i]
    BY <1>1, <1>11, AheadIs
  <2>2. /\ DOMAIN C = 1 .. m + n
        /\ \A k \in 1 .. m + n : C[k] = IF k <= m THEN K[k] ELSE F[k - m + i]
    <3>1. Len(K) + Len(F) - i = m + n
      BY <1>1, <1>2
    <3> QED BY <1>2, <2>1, <3>1
  <2>3. PICK D : D = Without(A, m + 1)
    OBVIOUS
  <2>4. m + 1 \in 1 .. Len(A)
    BY <1>7
  <2>5. /\ D \in Seq(Frame) /\ DOMAIN D = 1 .. Len(A) - 1
        /\ \A k \in 1 .. Len(A) - 1 : D[k] = A[IF k < m + 1 THEN k ELSE k + 1]
    BY <2>3, <2>4, WithoutIs
  <2>6. /\ DOMAIN D = 1 .. m + n
        /\ \A k \in 1 .. m + n : D[k] = A[IF k < m + 1 THEN k ELSE k + 1]
    <3>1. Len(A) - 1 = m + n
      BY <1>7
    <3> QED BY <2>5, <3>1
  <2>7. ASSUME NEW k \in 1 .. m + n PROVE C[k] = D[k]
    <3>1. CASE k <= m
      <4>1. k < m + 1 /\ k \in 1 .. m + n + 1
        BY <3>1
      <4> QED BY <1>7, <2>2, <2>6, <3>1, <4>1
    <3>2. CASE k > m
      <4>1. ~(k < m + 1) /\ k + 1 \in 1 .. m + n + 1 /\ ~(k + 1 <= m) /\ ~(k <= m)
            /\ k + 1 - m + (i - 1) = k - m + i
        BY <1>1, <3>2
      <4>2. D[k] = A[k + 1]
        BY <2>6, <4>1
      <4> QED BY <1>7, <2>2, <4>1, <4>2
    <3> QED BY <3>1, <3>2
  <2> QED BY <2>1, <2>2, <2>3, <2>5, <2>6, <2>7
<1>13. m + 1 \in 1 .. Len(A) /\ \A k \in 1 .. m : A[k] = K[k]
  <2>1. \A k \in 1 .. m : k \in 1 .. m + n + 1 /\ k <= m
    OBVIOUS
  <2> QED BY <1>7, <2>1
<1> QED BY <1>2, <1>3, <1>4, <1>6, <1>8, <1>9, <1>10, <1>11, <1>12, <1>13

LEMMA AheadEnds ==
    ASSUME NEW K \in Seq(Frame), NEW F \in Seq(Frame)
    PROVE  Ahead(<<>>, F, 0) = F /\ Ahead(K, F, Len(F)) = K
<1>1. Ahead(<<>>, F, 0) = F
  <2>1. Len(<<>>) = 0 /\ Len(F) \in Nat /\ F = [k \in 1 .. Len(F) |-> F[k]]
    OBVIOUS
  <2>2. \A k \in 1 .. Len(F) : ~(k <= 0) /\ k - 0 + 0 = k
    OBVIOUS
  <2>3. 0 + Len(F) - 0 = Len(F)
    BY <2>1
  <2>4. Ahead(<<>>, F, 0) = [k \in 1 .. Len(F) |-> F[k - 0 + 0]]
    BY <2>1, <2>2, <2>3 DEF Ahead
  <2> QED BY <2>1, <2>2, <2>4
<1>2. Ahead(K, F, Len(F)) = K
  <2>1. Len(K) \in Nat /\ Len(F) \in Nat /\ K = [k \in 1 .. Len(K) |-> K[k]]
    OBVIOUS
  <2>2. Len(K) + Len(F) - Len(F) = Len(K)
    BY <2>1
  <2>3. Ahead(K, F, Len(F)) = [k \in 1 .. Len(K) |-> K[k]]
    BY <2>1, <2>2 DEF Ahead
  <2> QED BY <2>1, <2>3
<1> QED BY <1>1, <1>2

LEMMA WithoutHas ==
    ASSUME NEW Q \in Seq(Frame), NEW m \in 1 .. Len(Q)
    PROVE  /\ \A i \in DOMAIN Without(Q, m) : \E j \in DOMAIN Q : Without(Q, m)[i] = Q[j]
           /\ \A j \in DOMAIN Q : j # m =>
                 \E i \in DOMAIN Without(Q, m) : Without(Q, m)[i] = Q[j]
<1>1. PICK n \in Nat : n = Len(Q) /\ DOMAIN Q = 1 .. n /\ m \in 1 .. n
  OBVIOUS
<1>2. /\ DOMAIN Without(Q, m) = 1 .. n - 1
      /\ \A i \in 1 .. n - 1 : Without(Q, m)[i] = Q[IF i < m THEN i ELSE i + 1]
      /\ \A j \in 1 .. n : j # m =>
            \E i \in 1 .. n - 1 : j = IF i < m THEN i ELSE i + 1
  BY <1>1, WithoutIs
<1>3. \A i \in 1 .. n - 1 : (IF i < m THEN i ELSE i + 1) \in 1 .. n
  BY <1>1
<1>4. ASSUME NEW j \in 1 .. n, j # m
      PROVE  \E i \in 1 .. n - 1 : Without(Q, m)[i] = Q[j]
  <2>1. PICK i \in 1 .. n - 1 : j = IF i < m THEN i ELSE i + 1
    BY <1>2, <1>4
  <2> QED BY <1>2, <2>1
<1> QED BY <1>1, <1>2, <1>3, <1>4

\* A frame of a stream that is not open is dropped.
LEMMA DroppedGood ==
    ASSUME NEW f \in Flow, NEW st \in [Streams -> Stream], NEW Q \in Seq(Frame),
           BaseOf(f, Q, st), NEW m \in 1 .. Len(Q), st[Q[m].stream].st # "open"
    PROVE  BaseOf(f, Without(Q, m), st)
<1>1. PICK R \in Seq(Frame) : R = Without(Q, m)
  BY WithoutIs
<1>2. /\ \A i \in DOMAIN R : \E j \in DOMAIN Q : R[i] = Q[j]
      /\ \A j \in DOMAIN Q : j # m => \E i \in DOMAIN R : R[i] = Q[j]
  BY <1>1, WithoutHas
<1>5. Listed(R, f.unavailable, st)
  BY <1>2 DEF BaseOf, Listed
<1>6. Answering(f.callbacks, R, st)
  <2> SUFFICES ASSUME NEW x \in Streams, st[x].st = "open", st[x].answered
               PROVE  Ending(f.callbacks, R, x)
    BY DEF Answering
  <2>1. Ending(f.callbacks, Q, x)
    BY DEF BaseOf, Answering
  <2> QED BY <1>2, <2>1 DEF Ending
<1>7. Ordered(f.sent, R, st)
  <2> SUFFICES ASSUME NEW x \in Streams, st[x].st = "open"
               PROVE  Numbers(f.sent[x], R, x, st[x].parts)
    BY DEF BaseOf, Ordered
  <2>1. f.sent[x] \in Seq(Nat) /\ st[x].parts \in Nat /\ Q[m].stream # x
    BY FlowIs DEF Stream
  <2>2. Numbers(f.sent[x], Q, x, st[x].parts)
    BY DEF BaseOf, Ordered
  <2> QED BY <1>1, <2>1, <2>2, NumbersElse
<1> QED BY <1>1, <1>5, <1>6, <1>7 DEF BaseOf

\* The first frame of a stream is sent.
LEMMA FlushedGood ==
    ASSUME NEW f \in Flow, NEW st \in [Streams -> Stream], NEW Q \in Seq(Frame),
           BaseOf(f, Q, st), NEW m \in 1 .. Len(Q), st[Q[m].stream].st = "open",
           \A j \in 1 .. m - 1 : Q[j].stream # Q[m].stream,
           Room(f.window, Q[m].stream, Q[m].size)
    PROVE  BaseOf(SendFrame(f, Q[m]), Without(Q, m), st)
<1>1. PICK R \in Seq(Frame) : R = Without(Q, m)
  BY WithoutIs
<1>2. /\ \A i \in DOMAIN R : \E j \in DOMAIN Q : R[i] = Q[j]
      /\ \A j \in DOMAIN Q : j # m => \E i \in DOMAIN R : R[i] = Q[j]
  BY <1>1, WithoutHas
<1>5. PICK d \in Frame : d = Q[m]
  OBVIOUS
<1>6. PICK s \in Streams, n \in Nat : s = d.stream /\ n = d.size
  BY FrameIs
<1>7. PICK g \in Flow : g = SendFrame(f, d)
  BY SendFrameIs
<1>8. /\ g.unavailable = f.unavailable
      /\ \A l \in Links :
            /\ g.window[l] = IF l \in {0, s} THEN f.window[l] - n ELSE f.window[l]
            /\ g.owed[l] = IF l \in {0, s} THEN f.owed[l] + n ELSE f.owed[l]
      /\ \A x \in Streams : g.sent[x] =
            IF x = s THEN Append(f.sent[x], d.nr) ELSE f.sent[x]
      /\ g.callbacks = WithCallback(f.callbacks, d)
  <2>1. /\ SendFrame(f, d).unavailable = f.unavailable
        /\ \A l \in Links :
              /\ SendFrame(f, d).window[l] =
                    IF l \in {0, d.stream} THEN f.window[l] - d.size ELSE f.window[l]
              /\ SendFrame(f, d).owed[l] =
                    IF l \in {0, d.stream} THEN f.owed[l] + d.size ELSE f.owed[l]
        /\ \A x \in Streams : SendFrame(f, d).sent[x] =
              IF x = d.stream THEN Append(f.sent[x], d.nr) ELSE f.sent[x]
        /\ SendFrame(f, d).callbacks = WithCallback(f.callbacks, d)
    BY SendFrameIs DEF WithCallback
  <2> QED BY ONLY <1>6, <1>7, <2>1
<1>9. Listed(R, g.unavailable, st)
  BY <1>2, <1>8 DEF BaseOf, Listed
<1>10. Credited(g.window, g.owed, st)
  <2>1. PICK W \in [Links -> Int], O \in [Links -> Nat], V \in [Links -> Int],
             P \in [Links -> Nat] :
            W = f.window /\ O = f.owed /\ V = g.window /\ P = g.owed
    BY FlowIs
  <2>2. TakenOf(W, V, s, n) /\ TakenOf(P, O, s, n)
    <3>1. \A l \in Links : O[l] = IF l \in {0, s} THEN P[l] - n ELSE P[l]
      BY <1>8, <2>1
    <3> QED BY <1>8, <2>1, <3>1 DEF TakenOf
  <2>3. Credited(W, O, st) /\ Room(W, s, n)
    BY <1>5, <1>6, <2>1 DEF BaseOf
  <2>4. Credited(V, P, st)
    BY <2>2, <2>3, CreditSent
  <2> QED BY <2>1, <2>4
<1>11. Answering(g.callbacks, R, st)
  <2> SUFFICES ASSUME NEW x \in Streams, st[x].st = "open", st[x].answered
               PROVE  Ending(WithCallback(f.callbacks, d), R, x)
    BY <1>8 DEF Answering
  <2>1. Ending(f.callbacks, Q, x)
    BY DEF BaseOf, Answering
  <2>2. PICK q \in Seq(Streams \cup {RST, GOAWAY}) : q = f.callbacks
    BY FlowIs
  <2>3. CASE d.final /\ d.stream = x
    BY <2>2, <2>3, CallbackIs
  <2>4. CASE ~(d.final /\ d.stream = x)
    <3>1. Ending(q, R, x)
      BY <1>2, <1>5, <2>1, <2>2, <2>4 DEF Ending
    <3> QED BY <2>2, <3>1, CallbackIs
  <2> QED BY <2>3, <2>4
<1>12. Ordered(g.sent, R, st)
  <2> SUFFICES ASSUME NEW x \in Streams
               PROVE  IF st[x].st = "open" THEN Numbers(g.sent[x], R, x, st[x].parts)
                      ELSE g.sent[x] = <<>>
    BY DEF Ordered
  <2>1. IF st[x].st = "open" THEN Numbers(f.sent[x], Q, x, st[x].parts)
        ELSE f.sent[x] = <<>>
    BY DEF BaseOf, Ordered
  <2>2. PICK z \in Seq(Nat), k \in Nat : z = f.sent[x] /\ k = st[x].parts
    <3>1. st[x] \in Stream
      OBVIOUS
    <3> QED BY <3>1, FlowIs DEF Stream
  <2>3. CASE x # s
    <3>1. Numbers(z, Q, x, k) => Numbers(z, R, x, k)
      BY <1>1, <1>5, <1>6, <2>3, NumbersElse
    <3> QED BY <1>8, <2>1, <2>2, <2>3, <3>1
  <2>4. CASE x = s
    <3>1. Numbers(z, Q, x, k)
      BY <1>5, <1>6, <2>1, <2>2, <2>4
    <3>2. Q[m].stream = x /\ \A j \in 1 .. m - 1 : Q[j].stream # x
      BY <1>5, <1>6, <2>4
    <3>3. Numbers(Append(z, Q[m].nr), R, x, k)
      BY <1>1, <3>1, <3>2, NumbersNext
    <3> QED BY <1>5, <1>6, <1>8, <2>2, <2>4, <3>3
  <2> QED BY <2>3, <2>4
<1> QED BY <1>1, <1>5, <1>7, <1>9, <1>10, <1>11, <1>12 DEF BaseOf

\* What the loop of flush_frames() has made of the frames F after i of them: those
\* that it kept do not fit, and with those that are to come they are sound.
Accum == [f : Flow, starved : SUBSET Streams]
Loop(a, i, F, U) ==
    /\ a \in Accum /\ ~a.f.failed /\ a.f.unavailable = U
    /\ BaseOf(a.f, Ahead(a.f.frames, F, i), stream)
    /\ Starved(a.f.frames, a.f.window, stream)
    /\ \A s \in Streams : s \in a.starved <=> Delays(a.f.frames, s)
    /\ \A s \in a.starved : stream[s].st = "open"

LEMMA AccumIs ==
    ASSUME NEW a \in Accum, NEW g \in Flow, NEW T \in SUBSET Streams
    PROVE  /\ a.f \in Flow /\ a.starved \in SUBSET Streams
           /\ a = [f |-> a.f, starved |-> a.starved]
           /\ [a EXCEPT !.f = g] = [f |-> g, starved |-> a.starved]
           /\ [a EXCEPT !.f = g] \in Accum
           /\ [f |-> g, starved |-> T] \in Accum
  BY DEF Accum

\* What Flush() makes, in its four cases.
WithFrame(f, d) == [f EXCEPT !.frames = Append(@, d)]
Failed(f) == [f EXCEPT !.failed = TRUE]
LEMMA FlushIs ==
    ASSUME NEW a \in Accum, NEW d \in Frame
    PROVE  /\ d.stream \notin a.f.unavailable =>
                 Flush(a, d) = [f |-> Failed(a.f), starved |-> a.starved]
           /\ d.stream \in a.f.unavailable /\ d.stream \in a.starved =>
                 Flush(a, d) = [f |-> WithFrame(a.f, d), starved |-> a.starved]
           /\ (/\ d.stream \in a.f.unavailable /\ d.stream \notin a.starved
               /\ stream[d.stream].st # "open") => Flush(a, d) = a
           /\ (/\ d.stream \in a.f.unavailable /\ d.stream \notin a.starved
               /\ stream[d.stream].st = "open"
               /\ Available(a.f, d.stream, d.size, FALSE)) =>
                 Flush(a, d) = [f |-> SendFrame(a.f, d), starved |-> a.starved]
           /\ (/\ d.stream \in a.f.unavailable /\ d.stream \notin a.starved
               /\ stream[d.stream].st = "open"
               /\ ~Available(a.f, d.stream, d.size, FALSE)) =>
                 Flush(a, d) = [f |-> WithFrame(a.f, d),
                                starved |-> a.starved \cup {d.stream}]
<1>1. a = [f |-> a.f, starved |-> a.starved]
  BY DEF Accum
<1>2. CASE d.stream \notin a.f.unavailable
  <2>1. Flush(a, d) = [a EXCEPT !.f.failed = TRUE]
    BY <1>2 DEF Flush
  <2>2. Flush(a, d) = [a EXCEPT !.f = Failed(a.f)]
    BY <2>1 DEF Failed
  <2> QED BY <1>2, <2>2 DEF Accum
<1>3. CASE d.stream \in a.f.unavailable /\ d.stream \in a.starved
  <2>1. Flush(a, d) = [a EXCEPT !.f.frames = Append(@, d)]
    BY <1>3 DEF Flush
  <2>2. Flush(a, d) = [a EXCEPT !.f = WithFrame(a.f, d)]
    BY <2>1 DEF WithFrame
  <2> QED BY <1>3, <2>2 DEF Accum
<1>4. CASE /\ d.stream \in a.f.unavailable /\ d.stream \notin a.starved
           /\ stream[d.stream].st # "open"
  <2>1. Flush(a, d) = a
    BY <1>4 DEF Flush, IsOpen
  <2> QED BY <1>4, <2>1
<1>5. CASE /\ d.stream \in a.f.unavailable /\ d.stream \notin a.starved
           /\ stream[d.stream].st = "open"
           /\ Available(a.f, d.stream, d.size, FALSE)
  <2>1. Flush(a, d) = [a EXCEPT !.f = SendFrame(a.f, d)]
    BY <1>5 DEF Flush, IsOpen
  <2> QED BY <1>5, <2>1 DEF Accum
<1>6. CASE /\ d.stream \in a.f.unavailable /\ d.stream \notin a.starved
           /\ stream[d.stream].st = "open"
           /\ ~Available(a.f, d.stream, d.size, FALSE)
  <2>1. Flush(a, d) = [f |-> WithFrame(a.f, d), starved |-> a.starved \cup {d.stream}]
    BY <1>6 DEF Flush, IsOpen, WithFrame
  <2> QED BY <1>6, <2>1
<1> QED BY <1>2, <1>3, <1>4, <1>5, <1>6

LEMMA KeptIs ==
    ASSUME NEW f \in Flow, NEW d \in Frame
    PROVE  /\ WithFrame(f, d) \in Flow /\ WithFrame(f, d).frames = Append(f.frames, d)
           /\ WithFrame(f, d).window = f.window /\ WithFrame(f, d).owed = f.owed
           /\ WithFrame(f, d).sent = f.sent /\ WithFrame(f, d).callbacks = f.callbacks
           /\ WithFrame(f, d).failed = f.failed
           /\ WithFrame(f, d).unavailable = f.unavailable
           /\ Failed(f) \in Flow
<1>1. PICK R \in Seq(Frame) : R = Append(f.frames, d)
  BY FlowIs, AppendedIs
<1>2. WithFrame(f, d) = [f EXCEPT !.frames = R]
  BY <1>1 DEF WithFrame
<1>3. Failed(f) \in Flow
  BY DEF Failed, Flow
<1> QED BY <1>1, <1>2, <1>3 DEF Flow

LEMMA FlushAccum ==
    ASSUME NEW a \in Accum, NEW d \in Frame
    PROVE  Flush(a, d) \in Accum
<1>1. d.stream \in Streams /\ a.f \in Flow /\ a.starved \in SUBSET Streams
  BY FrameIs DEF Accum
<1>2. /\ Failed(a.f) \in Flow /\ WithFrame(a.f, d) \in Flow
      /\ SendFrame(a.f, d) \in Flow /\ a.starved \cup {d.stream} \in SUBSET Streams
  BY <1>1, KeptIs, SendFrameIs
<1>3. \A g \in Flow, T \in SUBSET Streams : [f |-> g, starved |-> T] \in Accum
  BY DEF Accum
<1>4. PICK x : x = Flush(a, d)
  OBVIOUS
<1>5. \/ x = [f |-> Failed(a.f), starved |-> a.starved]
      \/ x = [f |-> WithFrame(a.f, d), starved |-> a.starved]
      \/ x = a
      \/ x = [f |-> SendFrame(a.f, d), starved |-> a.starved]
      \/ x = [f |-> WithFrame(a.f, d), starved |-> a.starved \cup {d.stream}]
  BY <1>4, FlushIs
<1>6. x \in Accum
  BY <1>1, <1>2, <1>3, <1>5
<1> QED BY <1>4, <1>6

\* Frames that are kept are those of streams with one that does not fit.
LEMMA KeptGood ==
    ASSUME NEW a, NEW F \in Seq(Frame), NEW U, NEW i \in 1 .. Len(F),
           Loop(a, i - 1, F, U), stream \in [Streams -> Stream],
           NEW b, b \in Accum, b.f = WithFrame(a.f, F[i]),
           b.starved = a.starved \cup {F[i].stream},
           stream[F[i].stream].st = "open",
           F[i].stream \in a.starved \/ ~Room(a.f.window, F[i].stream, F[i].size)
    PROVE  Loop(b, i, F, U)
<1>1. a.f \in Flow /\ a \in Accum
  BY DEF Loop, Accum
<1>2. PICK d \in Frame : d = F[i]
  OBVIOUS
<1>3. PICK s \in Streams : s = d.stream
  BY FrameIs
<1>4. PICK K \in Seq(Frame) : K = a.f.frames
  BY <1>1, FlowIs
<1>5. PICK R \in Seq(Frame) : R = Append(K, d)
  BY AppendedIs
<1>6. /\ DOMAIN R = 1 .. Len(K) + 1 /\ DOMAIN K = 1 .. Len(K) /\ Len(K) \in Nat
      /\ \A k \in 1 .. Len(K) : R[k] = K[k]
      /\ R[Len(K) + 1] = d
  BY <1>5, AppendedIs
<1>7. /\ b.f \in Flow /\ b.f.frames = R
      /\ b.f.window = a.f.window /\ b.f.owed = a.f.owed
      /\ b.f.sent = a.f.sent /\ b.f.callbacks = a.f.callbacks
      /\ b.f.failed = a.f.failed
      /\ b.f.unavailable = a.f.unavailable
  <2>1. PICK x \in Flow : x = a.f
    BY <1>1
  <2>2. /\ WithFrame(x, d) \in Flow /\ WithFrame(x, d).frames = Append(x.frames, d)
        /\ WithFrame(x, d).window = x.window /\ WithFrame(x, d).owed = x.owed
        /\ WithFrame(x, d).sent = x.sent /\ WithFrame(x, d).callbacks = x.callbacks
        /\ WithFrame(x, d).failed = x.failed
        /\ WithFrame(x, d).unavailable = x.unavailable
    BY KeptIs
  <2>3. b.f = WithFrame(x, d)
    BY <1>2, <2>1
  <2> QED BY ONLY <1>4, <1>5, <2>1, <2>2, <2>3
<1>8. BaseOf(b.f, Ahead(b.f.frames, F, i), stream)
  <2>1. Ahead(R, F, i) = Ahead(K, F, i - 1)
    BY <1>2, <1>5, AheadNext
  <2> QED BY <1>4, <1>7, <2>1 DEF Loop, BaseOf
<1>9. \A x : Delays(R, x) <=> Delays(K, x) \/ x = s
  <2>1. Len(K) + 1 \in DOMAIN R
    BY <1>6
  <2>2. \A k \in DOMAIN K : k \in DOMAIN R /\ R[k] = K[k]
    BY <1>6
  <2>3. \A k \in DOMAIN R : k = Len(K) + 1 \/ k \in DOMAIN K
    BY <1>6
  <2> QED BY <1>3, <1>6, <2>1, <2>2, <2>3 DEF Delays
<1>10. \A x \in Streams : x \in b.starved <=> Delays(b.f.frames, x)
  BY <1>2, <1>3, <1>4, <1>7, <1>9 DEF Loop
<1>11. \A x \in b.starved : stream[x].st = "open"
  BY <1>2, <1>3 DEF Loop
<1>12. Starved(R, a.f.window, stream)
  <2> SUFFICES ASSUME NEW k \in DOMAIN R, stream[R[k].stream].st = "open",
                      \A j \in 1 .. k - 1 : R[j].stream # R[k].stream
               PROVE  ~Room(a.f.window, R[k].stream, R[k].size)
    BY DEF Starved
  <2>1. CASE k = Len(K) + 1
    <3>1. ~Delays(K, s)
      BY <1>3, <1>6, <2>1 DEF Delays
    <3>2. s \notin a.starved
      BY <1>4, <3>1 DEF Loop
    <3> QED BY <1>2, <1>3, <1>6, <2>1, <3>2
  <2>2. CASE k \in 1 .. Len(K)
    <3>1. R[k] = K[k] /\ k \in DOMAIN K /\ \A j \in 1 .. k - 1 : R[j] = K[j]
      BY <1>6, <2>2
    <3>2. Starved(K, a.f.window, stream)
      BY <1>4 DEF Loop
    <3> QED BY <3>1, <3>2 DEF Starved
  <2> QED BY <1>6, <2>1, <2>2
<1> QED BY <1>7, <1>8, <1>10, <1>11, <1>12 DEF Loop

LEMMA FlushGood ==
    ASSUME NEW a, NEW F \in Seq(Frame), NEW U, NEW i \in 1 .. Len(F),
           Loop(a, i - 1, F, U), stream \in [Streams -> Stream]
    PROVE  Loop(Flush(a, F[i]), i, F, U)
<1>1. a \in Accum /\ a.f \in Flow /\ a.starved \in SUBSET Streams
  BY DEF Loop, Accum
<1>2. PICK d \in Frame : d = F[i]
  OBVIOUS
<1>3. PICK s \in Streams : s = d.stream
  BY FrameIs
<1>4. PICK K \in Seq(Frame) : K = a.f.frames
  BY <1>1, FlowIs
<1>5. PICK V \in Seq(Frame) : V = Ahead(K, F, i - 1)
  <2>1. i - 1 \in 0 .. Len(F)
    OBVIOUS
  <2> QED BY <2>1, AheadIs
<1>6. /\ Len(K) + 1 \in 1 .. Len(V) /\ V[Len(K) + 1] = d
      /\ \A k \in 1 .. Len(K) : V[k] = K[k]
      /\ Ahead(K, F, i) = Without(V, Len(K) + 1)
  BY <1>2, <1>5, AheadNext
<1>7. BaseOf(a.f, V, stream)
  BY <1>4, <1>5 DEF Loop
<1>8. PICK b \in Accum : b = Flush(a, d)
  BY <1>1, FlushAccum
<1>9. d.stream \in a.f.unavailable
  <2>1. Len(K) + 1 \in DOMAIN V
    BY <1>6
  <2> QED BY <1>6, <1>7, <2>1 DEF BaseOf, Listed
<1>10. CASE s \in a.starved
  <2>1. b.f = WithFrame(a.f, d) /\ b.starved = a.starved
    <3>1. Flush(a, d) = [f |-> WithFrame(a.f, d), starved |-> a.starved]
      BY <1>1, <1>3, <1>9, <1>10, FlushIs
    <3>2. b = [f |-> WithFrame(a.f, d), starved |-> a.starved]
      BY <1>8, <3>1
    <3> QED BY <3>2
  <2>2. a.starved = a.starved \cup {s} /\ stream[s].st = "open"
    BY <1>10 DEF Loop
  <2> QED BY <1>2, <1>3, <1>8, <1>10, <2>1, <2>2, KeptGood
<1>11. CASE s \notin a.starved /\ stream[s].st # "open"
  <2>1. b = a
    BY <1>1, <1>3, <1>8, <1>9, <1>11, FlushIs
  <2>2. BaseOf(a.f, Without(V, Len(K) + 1), stream)
    BY <1>1, <1>3, <1>6, <1>7, <1>11, DroppedGood
  <2> QED BY <1>2, <1>4, <1>6, <1>8, <2>1, <2>2 DEF Loop
<1>12. CASE /\ s \notin a.starved /\ stream[s].st = "open"
            /\ Available(a.f, s, d.size, FALSE)
  <2>1. b.f = SendFrame(a.f, d) /\ b.starved = a.starved
    <3>1. Flush(a, d) = [f |-> SendFrame(a.f, d), starved |-> a.starved]
      BY <1>1, <1>3, <1>9, <1>12, FlushIs
    <3>2. b = [f |-> SendFrame(a.f, d), starved |-> a.starved]
      BY <1>8, <3>1
    <3> QED BY <3>2
  <2>2. PICK n \in Nat : n = d.size
    BY FrameIs
  <2>3. Room(a.f.window, s, n)
    BY <1>12, <2>2, AvailableIs
  <2>4. ~Delays(K, s)
    BY <1>4, <1>12 DEF Loop
  <2>5. \A j \in 1 .. (Len(K) + 1) - 1 : V[j].stream # s
    <3>1. \A j \in 1 .. (Len(K) + 1) - 1 : j \in DOMAIN K /\ j \in 1 .. Len(K)
      OBVIOUS
    <3> QED BY <1>6, <2>4, <3>1 DEF Delays
  <2>6. BaseOf(SendFrame(a.f, d), Without(V, Len(K) + 1), stream)
    BY <1>1, <1>3, <1>6, <1>7, <1>12, <2>2, <2>3, <2>5, FlushedGood
  <2>7. /\ b.f.frames = K /\ b.f.unavailable = a.f.unavailable /\ b.f.failed = a.f.failed
        /\ \A l \in Links :
              b.f.window[l] = IF l \in {0, s} THEN a.f.window[l] - n ELSE a.f.window[l]
    BY <1>1, <1>3, <1>4, <2>1, <2>2, SendFrameIs
  <2>8. Starved(K, b.f.window, stream)
    <3>1. PICK W \in [Links -> Int], Z \in [Links -> Int] : W = a.f.window /\ Z = b.f.window
      BY <1>1, <1>8, FlowIs DEF Accum
    <3>2. Starved(K, W, stream) /\ TakenOf(W, Z, s, n) /\ Room(W, s, n)
      BY <1>4, <2>3, <2>7, <3>1 DEF Loop, TakenOf
    <3> QED BY <2>4, <3>1, <3>2, StillStarved
  <2> QED BY <1>2, <1>4, <1>6, <1>8, <2>1, <2>6, <2>7, <2>8 DEF Loop
<1>13. CASE /\ s \notin a.starved /\ stream[s].st = "open"
            /\ ~Available(a.f, s, d.size, FALSE)
  <2>1. b.f = WithFrame(a.f, d) /\ b.starved = a.starved \cup {s}
    <3>1. Flush(a, d) = [f |-> WithFrame(a.f, d), starved |-> a.starved \cup {s}]
      BY <1>1, <1>3, <1>9, <1>13, FlushIs
    <3>2. b = [f |-> WithFrame(a.f, d), starved |-> a.starved \cup {s}]
      BY <1>8, <3>1
    <3> QED BY <3>2
  <2>2. ~Room(a.f.window, s, d.size)
    BY <1>13, AvailableIs
  <2> QED BY <1>2, <1>3, <1>8, <1>13, <2>1, <2>2, KeptGood
<1> QED BY <1>10, <1>11, <1>12, <1>13

\* flush_frames(), from a flow whose windows have grown.
LEMMA FlushFramesGood ==
    ASSUME NEW f \in Flow, stream \in [Streams -> Stream], ~f.failed,
           BaseOf(f, f.frames, stream)
    PROVE  /\ FlushFrames(f) \in Flow /\ ~FlushFrames(f).failed
           /\ FlushFrames(f).unavailable = f.unavailable
           /\ BaseOf(FlushFrames(f), FlushFrames(f).frames, stream)
           /\ Starved(FlushFrames(f).frames, FlushFrames(f).window, stream)
           /\ \A s \in Streams : Delays(FlushFrames(f).frames, s) => stream[s].st = "open"
<1>1. PICK F \in Seq(Frame) : F = f.frames
  BY FlowIs
<1>2. PICK n \in Nat : n = Len(F)
  OBVIOUS
<1> DEFINE g == [f EXCEPT !.frames = <<>>]
           a == [f |-> g, starved |-> {}]
           P(U) == U = [i \in 0 .. n |-> IF i = 0 THEN a ELSE Flush(U[i - 1], F[i])]
           U == CHOOSE U : P(U)
           G == [x \in Accum \X (1 .. n) |-> Flush(x[1], F[x[2]])]
<1>3. FlushFrames(f) = U[n].f
  BY <1>1, <1>2 DEF FlushFrames
<1>4. g \in Flow /\ g.frames = <<>> /\ g.unavailable = f.unavailable
      /\ g.window = f.window /\ g.owed = f.owed /\ g.sent = f.sent
      /\ g.callbacks = f.callbacks /\ g.failed = f.failed
  <2>1. PICK e \in Seq(Frame) : e = <<>>
    BY EmptySeq
  <2>2. g = [f EXCEPT !.frames = e]
    BY <2>1
  <2> QED BY <2>1, <2>2 DEF Flow
<1> HIDE DEF g
<1>5. a \in Accum /\ a.f = g /\ a.starved = {}
  BY <1>4 DEF Accum
<1> HIDE DEF a
<1>6. G \in [Accum \X (1 .. n) -> Accum]
  <2>1. \A x \in Accum, i \in 1 .. n : Flush(x, F[i]) \in Accum
    BY <1>2, FlushAccum
  <2> QED BY <2>1
<1>7. PICK A \in [0 .. n -> Accum] :
          A[0] = a /\ \A i \in 1 .. n : A[i] = G[<<A[i - 1], i>>]
  <2> HIDE DEF G
  <2>1. PICK H \in [Accum \X (1 .. n) -> Accum] : H = G
    BY <1>6
  <2>2. \E A : Recursive(A, Accum, n, a, H)
    BY <1>5, RecursionIs
  <2> QED BY <2>1, <2>2 DEF Recursive
<1>8. P(A)
  <2>1. \A i \in 1 .. n : i - 1 \in 0 .. n
    OBVIOUS
  <2>2. \A i \in 1 .. n : A[i] = Flush(A[i - 1], F[i])
    BY <1>7, <2>1
  <2>3. \A i \in 0 .. n : A[i] = IF i = 0 THEN a ELSE Flush(A[i - 1], F[i])
    BY <1>7, <2>2
  <2> QED BY <2>3
<1>9. P(U)
  <2> HIDE DEF P
  <2> QED BY <1>8
<1>10. U[0] = a /\ \A i \in 1 .. n : U[i] = Flush(U[i - 1], F[i])
  <2> HIDE DEF U
  <2> QED BY <1>9
<1> HIDE DEF U, P, G
<1> DEFINE S == {i \in 0 .. n : Loop(U[i], i, F, f.unavailable)}
<1>11. 0 \in S
  <2>1. Ahead(<<>>, F, 0) = F
    BY AheadEnds
  <2>2. BaseOf(g, F, stream)
    BY <1>1, <1>4 DEF BaseOf
  <2>3. Starved(g.frames, g.window, stream) /\ \A s \in Streams : ~Delays(g.frames, s)
    BY <1>4 DEF Starved, Delays
  <2> QED BY <1>4, <1>5, <1>10, <2>1, <2>2, <2>3 DEF Loop
<1>12. ASSUME NEW i \in 1 .. n, i - 1 \in S PROVE i \in S
  <2>1. Loop(U[i - 1], i - 1, F, f.unavailable)
    BY <1>12
  <2>2. Loop(Flush(U[i - 1], F[i]), i, F, f.unavailable)
    BY <1>2, <2>1, FlushGood
  <2> QED BY <1>10, <2>2
<1>13. \A i \in 0 .. n : i \in S
  <2> HIDE DEF S
  <2> QED BY <1>11, <1>12, UpToAll
<1>14. Loop(U[n], n, F, f.unavailable)
  BY <1>13
<1>15. PICK b : b = U[n]
  OBVIOUS
<1>16. PICK h \in Flow : h = b.f
  BY <1>14, <1>15 DEF Loop, Accum
<1>17. Ahead(h.frames, F, n) = h.frames
  BY <1>2, FlowIs, AheadEnds
<1>18. BaseOf(h, h.frames, stream) /\ ~h.failed /\ h.unavailable = f.unavailable
       /\ Starved(h.frames, h.window, stream)
       /\ \A s \in Streams : Delays(h.frames, s) => stream[s].st = "open"
  BY <1>14, <1>15, <1>16, <1>17 DEF Loop
<1> QED BY <1>3, <1>15, <1>16, <1>18

\* a WINDOW_UPDATE
LEMMA UpdateGood ==
    ASSUME FlowGood(flow, stream), NEW l \in Links, NEW n \in Nat, n <= flow.owed[l],
           NEW f, f = [flow EXCEPT !.window[l] = @ + n, !.owed[l] = @ - n]
    PROVE  FlowGood(FlushAvailable(FlushFrames(f)), stream)
<1>1. flow \in Flow /\ stream \in [Streams -> Stream]
  BY DEF FlowGood, FlowBase
<1>2. PICK W \in [Links -> Int], O \in [Links -> Nat] : W = flow.window /\ O = flow.owed
  BY <1>1, FlowIs
<1>3. PICK V \in [Links -> Int] : V = [W EXCEPT ![l] = @ + n]
  <2>1. W[l] + n \in Int
    OBVIOUS
  <2> QED BY <2>1
<1>4. PICK P \in [Links -> Nat] : P = [O EXCEPT ![l] = @ - n]
  <2>1. O[l] - n \in Nat
    BY <1>2
  <2> QED BY <2>1
<1>5. /\ f \in Flow /\ f.window = V /\ f.owed = P /\ f.frames = flow.frames
      /\ f.unavailable = flow.unavailable /\ f.sent = flow.sent
      /\ f.callbacks = flow.callbacks /\ f.failed = flow.failed
  <2>1. f = [flow EXCEPT !.window = V, !.owed = P]
    BY <1>2, <1>3, <1>4
  <2> QED BY <1>1, <2>1 DEF Flow
<1>6. Credited(V, P, stream)
  <2>1. Credited(W, O, stream)
    BY <1>2 DEF FlowGood, FlowBase
  <2>2. \A k \in Links : V[k] + P[k] = W[k] + O[k] /\ V[k] >= W[k]
    BY <1>3, <1>4
  <2>3. 0 \in Links /\ Streams \subseteq Links
    BY NotLinks
  <2> QED BY <2>1, <2>2, <2>3 DEF Credited
<1>7. BaseOf(f, f.frames, stream) /\ ~f.failed
  BY <1>5, <1>6 DEF BaseOf, FlowGood, FlowBase
<1>8. PICK g \in Flow : g = FlushFrames(f)
  BY <1>1, <1>5, <1>7, FlushFramesGood
<1>9. /\ ~g.failed /\ g.unavailable = f.unavailable /\ BaseOf(g, g.frames, stream)
      /\ Starved(g.frames, g.window, stream)
      /\ \A s \in Streams : Delays(g.frames, s) => stream[s].st = "open"
  BY <1>1, <1>5, <1>7, <1>8, FlushFramesGood
<1>10. PICK U \in SUBSET Streams :
           U = {s \in g.unavailable : IsOpen(s) /\ ~Available(g, s, 1, TRUE)}
  BY FlowIs
<1>11. PICK h : h = FlushAvailable(g)
  OBVIOUS
<1>12. /\ h \in Flow /\ h.frames = g.frames /\ h.unavailable = U
       /\ h.window = g.window /\ h.owed = g.owed /\ h.sent = g.sent
       /\ h.callbacks = g.callbacks /\ h.failed = g.failed
  <2>1. h = [g EXCEPT !.unavailable = U]
    BY <1>10, <1>11 DEF FlushAvailable
  <2> QED BY <2>1 DEF Flow
<1>13. Listed(h.frames, h.unavailable, stream)
  <2>1. Listed(g.frames, g.unavailable, stream)
    BY <1>9 DEF BaseOf
  <2>2. \A i \in DOMAIN g.frames : g.frames[i].stream \in U
    <3> SUFFICES ASSUME NEW i \in DOMAIN g.frames PROVE g.frames[i].stream \in U
      OBVIOUS
    <3>1. PICK s \in Streams : s = g.frames[i].stream
      BY FlowIs, FrameIs
    <3>2. Delays(g.frames, s) /\ s \in g.unavailable
      BY <2>1, <3>1 DEF Delays, Listed
    <3>3. IsOpen(s) /\ ~Available(g, s, 1, TRUE)
      BY <1>9, <3>2, AvailableIs DEF IsOpen
    <3> QED BY <1>10, <3>1, <3>2, <3>3
  <2> QED BY <1>10, <1>12, <2>1, <2>2 DEF Listed
<1>14. Blocked(h.frames, h.window, h.unavailable, stream)
  <2> SUFFICES ASSUME NEW s \in U
               PROVE  Delays(g.frames, s) \/ g.window[0] = 0 \/ g.window[s] = 0
    BY <1>12 DEF Blocked
  <2>1. ~Room(g.window, s, 1) \/ Delays(g.frames, s)
    BY <1>10, AvailableIs
  <2>2. \A k \in Links : g.window[k] \in Int /\ g.window[k] >= 0
    BY <1>9, FlowIs DEF BaseOf, Credited
  <2>3. 0 \in Links /\ s \in Links
    BY NotLinks
  <2> QED BY <2>1, <2>2, <2>3 DEF Room
<1>15. FlowBase(h, stream) /\ Starved(h.frames, h.window, stream)
  BY <1>1, <1>9, <1>12, <1>13 DEF FlowBase, BaseOf
<1> QED BY <1>8, <1>11, <1>14, <1>15 DEF FlowGood

\* A stream that is handed over, or gets more of its request.
SameAnswer(r, x) ==
    /\ r \in Stream /\ r.st = x.st /\ r.parts = x.parts
    /\ r.answered = x.answered /\ r.windowM = x.windowM
LEMMA SameGood ==
    ASSUME NEW f, NEW st, FlowGood(f, st), NEW s \in Streams, NEW r,
           SameAnswer(r, st[s])
    PROVE  FlowGood(f, [st EXCEPT ![s] = r])
<1>1. f \in Flow /\ st \in [Streams -> Stream]
  BY DEF FlowGood, FlowBase
<1>2. PICK su : su = [st EXCEPT ![s] = r]
  OBVIOUS
<1>3. AlikeStreams(st, su) /\ \A x \in Streams : su[x].parts = st[x].parts
  BY <1>1, <1>2 DEF SameAnswer, AlikeStreams
<1>4. Ordered(f.sent, f.frames, su)
  BY <1>3 DEF FlowGood, FlowBase, Ordered, AlikeStreams
<1> QED BY <1>1, <1>2, <1>3, <1>4, AlikeKeeps DEF FlowGood, FlowBase, AlikeStreams

\* Other callbacks, that end the same streams.
LEMMA CallbacksGood ==
    ASSUME NEW f, NEW st, FlowGood(f, st), NEW q \in Seq(Streams \cup {RST, GOAWAY}),
           \A s \in Streams : \A i \in DOMAIN f.callbacks :
               st[s].st = "open" /\ f.callbacks[i] = s => \E j \in DOMAIN q : q[j] = s
    PROVE  FlowGood([f EXCEPT !.callbacks = q], st)
<1>1. f \in Flow
  BY DEF FlowGood, FlowBase
<1>2. PICK g : g = [f EXCEPT !.callbacks = q]
  OBVIOUS
<1>3. /\ g \in Flow /\ g.frames = f.frames /\ g.unavailable = f.unavailable
      /\ g.window = f.window /\ g.owed = f.owed /\ g.sent = f.sent
      /\ g.callbacks = q /\ g.failed = f.failed
  BY <1>1, <1>2 DEF Flow
<1>4. Answering(q, f.frames, st)
  BY DEF FlowGood, FlowBase, Answering, Ending
<1> QED BY <1>2, <1>3, <1>4 DEF FlowGood, FlowBase

\* a callback that is of no stream
LEMMA PushedGood ==
    ASSUME NEW f, NEW st, FlowGood(f, st), NEW c \in {RST, GOAWAY}
    PROVE  FlowGood([f EXCEPT !.callbacks = Append(@, c)], st)
<1>1. f \in Flow
  BY DEF FlowGood, FlowBase
<1>2. PICK p \in Seq(Streams \cup {RST, GOAWAY}) : p = f.callbacks
  BY <1>1, FlowIs
<1>3. PICK q \in Seq(Streams \cup {RST, GOAWAY}) : q = Append(p, c)
  <2>1. PICK T : T = Streams \cup {RST, GOAWAY}
    OBVIOUS
  <2>2. c \in T /\ p \in Seq(T)
    BY <2>1
  <2>3. Append(p, c) \in Seq(T)
    BY <2>2
  <2> QED BY <2>1, <2>3
<1>4. \A i \in DOMAIN p : i \in DOMAIN q /\ q[i] = p[i]
  BY <1>3
<1>5. FlowGood([f EXCEPT !.callbacks = q], st)
  BY <1>2, <1>4, CallbacksGood
<1> QED BY <1>2, <1>3, <1>5

\* the first callback is called, and another one may follow
LEMMA CalledGood ==
    ASSUME NEW f, NEW st, FlowGood(f, st), f.callbacks # <<>>,
           Head(f.callbacks) \in Streams => st[Head(f.callbacks)].st # "open"
    PROVE  /\ FlowGood([f EXCEPT !.callbacks = Tail(@)], st)
           /\ FlowGood([f EXCEPT !.callbacks = Append(Tail(@), GOAWAY)], st)
<1>1. f \in Flow
  BY DEF FlowGood, FlowBase
<1>2. PICK p \in Seq(Streams \cup {RST, GOAWAY}) : p = f.callbacks /\ p # <<>>
  BY <1>1, FlowIs
<1>3. PICK q \in Seq(Streams \cup {RST, GOAWAY}) : q = Tail(p)
  <2>1. PICK T : T = Streams \cup {RST, GOAWAY}
    OBVIOUS
  <2>2. Tail(p) \in Seq(T)
    BY <1>2, <2>1, HeadTailProperties
  <2> QED BY <2>1, <2>2
<1>4. PICK r \in Seq(Streams \cup {RST, GOAWAY}) : r = Append(q, GOAWAY)
  <2>1. PICK T : T = Streams \cup {RST, GOAWAY}
    OBVIOUS
  <2>2. GOAWAY \in T /\ q \in Seq(T)
    BY <2>1
  <2>3. Append(q, GOAWAY) \in Seq(T)
    BY <2>2
  <2> QED BY <2>1, <2>3
<1>5. /\ DOMAIN q = 1 .. Len(p) - 1 /\ DOMAIN p = 1 .. Len(p) /\ Len(p) \in Nat
      /\ \A i \in 1 .. Len(p) - 1 : q[i] = p[i + 1]
      /\ Head(p) = p[1]
  BY <1>2, <1>3
<1>6. \A i \in DOMAIN q : i \in DOMAIN r /\ r[i] = q[i]
  BY <1>4
<1>7. ASSUME NEW i \in DOMAIN p, p[i] \in Streams, st[p[i]].st = "open"
      PROVE  \E j \in DOMAIN q : q[j] = p[i]
  <2>1. i # 1
    BY <1>2, <1>5, <1>7
  <2>2. i - 1 \in 1 .. Len(p) - 1 /\ (i - 1) + 1 = i
    BY <1>5, <2>1
  <2> QED BY <1>5, <2>2
<1>8. FlowGood([f EXCEPT !.callbacks = q], st)
  BY <1>2, <1>7, CallbacksGood
<1>9. FlowGood([f EXCEPT !.callbacks = r], st)
  <2>1. \A i \in DOMAIN p : p[i] \in Streams /\ st[p[i]].st = "open" =>
            \E j \in DOMAIN r : r[j] = p[i]
    BY <1>6, <1>7
  <2> QED BY <1>2, <2>1, CallbacksGood
<1> QED BY <1>2, <1>3, <1>4, <1>8, <1>9

\* A stream is closed.
Left(f, s) == [f EXCEPT !.window[s] = Window, !.owed[s] = 0, !.sent[s] = <<>>]
LEMMA LeftIs ==
    ASSUME NEW f \in Flow, NEW s \in Streams
    PROVE  /\ Left(f, s) \in Flow /\ Left(f, s).frames = f.frames
           /\ Left(f, s).unavailable = f.unavailable
           /\ Left(f, s).callbacks = f.callbacks /\ Left(f, s).failed = f.failed
           /\ \A l \in Links :
                 /\ Left(f, s).window[l] = IF l = s THEN Window ELSE f.window[l]
                 /\ Left(f, s).owed[l] = IF l = s THEN 0 ELSE f.owed[l]
           /\ \A x \in Streams :
                 Left(f, s).sent[x] = IF x = s THEN <<>> ELSE f.sent[x]
<1>1. s \in Links
  BY NotLinks
<1>2. PICK W \in [Links -> Int] : W = [f.window EXCEPT ![s] = Window]
  <2>1. Window \in Int
    BY SizesAssumption
  <2> QED BY <2>1, FlowIs
<1>3. PICK O \in [Links -> Nat] : O = [f.owed EXCEPT ![s] = 0]
  BY FlowIs
<1>4. PICK e \in Seq(Nat) : e = <<>>
  BY EmptySeq
<1>5. PICK Z \in [Streams -> Seq(Nat)] : Z = [f.sent EXCEPT ![s] = e]
  BY FlowIs
<1>6. Left(f, s) = [f EXCEPT !.window = W, !.owed = O, !.sent = Z]
  BY <1>2, <1>3, <1>4, <1>5 DEF Left
<1>7. /\ Left(f, s) \in Flow /\ Left(f, s).frames = f.frames
      /\ Left(f, s).unavailable = f.unavailable
      /\ Left(f, s).callbacks = f.callbacks /\ Left(f, s).failed = f.failed
      /\ Left(f, s).window = W /\ Left(f, s).owed = O /\ Left(f, s).sent = Z
  BY <1>6 DEF Flow
<1>8. /\ \A l \in Links : /\ W[l] = IF l = s THEN Window ELSE f.window[l]
                          /\ O[l] = IF l = s THEN 0 ELSE f.owed[l]
      /\ \A x \in Streams : Z[x] = IF x = s THEN <<>> ELSE f.sent[x]
  BY <1>1, <1>2, <1>3, <1>4, <1>5, FlowIs
<1> QED BY <1>7, <1>8

LEMMA LeftCalls ==
    ASSUME NEW f \in Flow, NEW s \in Streams, NEW q
    PROVE  [Left(f, s) EXCEPT !.callbacks = q] = Left([f EXCEPT !.callbacks = q], s)
<1>1. PICK W, O, Z : /\ W = [f.window EXCEPT ![s] = Window]
                     /\ O = [f.owed EXCEPT ![s] = 0]
                     /\ Z = [f.sent EXCEPT ![s] = <<>>]
  OBVIOUS
<1>2. Left(f, s) = [f EXCEPT !.window = W, !.owed = O, !.sent = Z]
  BY <1>1 DEF Left
<1>3. Left([f EXCEPT !.callbacks = q], s) =
          [f EXCEPT !.callbacks = q, !.window = W, !.owed = O, !.sent = Z]
  BY <1>1 DEF Left, Flow
<1> QED BY <1>2, <1>3 DEF Flow

LEMMA DeadIs == Dead \in Stream /\ Dead.st = "closed" /\ Dead.asked = 0
                /\ Idle \in Stream /\ Idle.st = "idle" /\ Idle.asked = 0
                /\ ~Idle.endHeaders /\ ~Idle.endStream /\ ~Idle.answered /\ Idle.parts = 0
  BY DEF Dead, Idle, Stream

LEMMA LeftGood ==
    ASSUME NEW f, NEW st, FlowGood(f, st), NEW s \in Streams
    PROVE  FlowGood(Left(f, s), [st EXCEPT ![s] = Dead])
<1>1. f \in Flow /\ st \in [Streams -> Stream]
  BY DEF FlowGood, FlowBase
<1>2. PICK su \in [Streams -> Stream] : su = [st EXCEPT ![s] = Dead]
  BY <1>1, DeadIs
<1>3. \A x \in Streams : IF x = s THEN su[x].st = "closed" ELSE su[x] = st[x]
  BY <1>1, <1>2, DeadIs
<1>4. PICK g \in Flow : g = Left(f, s)
  BY <1>1, LeftIs
<1>5. /\ g.frames = f.frames /\ g.unavailable = f.unavailable
      /\ g.callbacks = f.callbacks /\ g.failed = f.failed
      /\ \A l \in Links :
            /\ g.window[l] = IF l = s THEN Window ELSE f.window[l]
            /\ g.owed[l] = IF l = s THEN 0 ELSE f.owed[l]
      /\ \A x \in Streams : g.sent[x] = IF x = s THEN <<>> ELSE f.sent[x]
  BY <1>1, <1>4, LeftIs
<1>6. f.unavailable \subseteq Streams /\ \A i \in DOMAIN f.frames : f.frames[i].stream \in Streams
  BY <1>1, FlowIs, FrameIs
<1>7. 0 \in Links /\ s # 0 /\ Streams \subseteq Links /\ Window \in Nat /\ Window >= 0
  BY NotLinks, SizesAssumption
<1>8. Listed(g.frames, g.unavailable, su)
  <2>1. Listed(f.frames, f.unavailable, st)
    BY DEF FlowGood, FlowBase
  <2>2. \A x \in f.unavailable : su[x].st # "idle"
    BY <1>3, <1>6, <2>1 DEF Listed
  <2> QED BY <1>3, <1>5, <1>6, <2>1, <2>2 DEF Listed
<1>9. Credited(g.window, g.owed, su)
  <2>1. Credited(f.window, f.owed, st)
    BY DEF FlowGood, FlowBase
  <2>2. \A l \in Links : g.window[l] >= 0
    BY <1>5, <1>7, <2>1 DEF Credited
  <2>3. g.window[0] + g.owed[0] = Window
    BY <1>5, <1>7, <2>1 DEF Credited
  <2>4. ASSUME NEW x \in Streams, su[x].st = "open"
        PROVE  su[x].windowM \in 1 .. FrameMax /\ su[x].windowM <= g.window[x] + g.owed[x]
    BY <1>3, <1>5, <1>7, <2>1, <2>4 DEF Credited
  <2> QED BY <2>2, <2>3, <2>4 DEF Credited
<1>10. Ordered(g.sent, g.frames, su)
  <2> SUFFICES ASSUME NEW x \in Streams
               PROVE  IF su[x].st = "open" THEN Numbers(g.sent[x], g.frames, x, su[x].parts)
                      ELSE g.sent[x] = <<>>
    BY DEF Ordered
  <2>1. IF st[x].st = "open" THEN Numbers(f.sent[x], f.frames, x, st[x].parts)
        ELSE f.sent[x] = <<>>
    BY DEF FlowGood, FlowBase, Ordered
  <2> QED BY <1>3, <1>5, <2>1
<1>11. Answering(g.callbacks, g.frames, su)
  <2> SUFFICES ASSUME NEW x \in Streams, su[x].st = "open", su[x].answered
               PROVE  Ending(f.callbacks, f.frames, x)
    BY <1>5 DEF Answering
  <2> QED BY <1>3 DEF FlowGood, FlowBase, Answering
<1>12. Starved(g.frames, g.window, su)
  <2> SUFFICES ASSUME NEW i \in DOMAIN f.frames, su[f.frames[i].stream].st = "open",
                      \A j \in 1 .. i - 1 : f.frames[j].stream # f.frames[i].stream
               PROVE  ~Room(g.window, f.frames[i].stream, f.frames[i].size)
    BY <1>5 DEF Starved
  <2>1. PICK x \in Streams : x = f.frames[i].stream /\ x # s
    BY <1>3, <1>6
  <2>2. ~Room(f.window, x, f.frames[i].size)
    BY <1>3, <2>1 DEF FlowGood, Starved
  <2>3. g.window[x] = f.window[x] /\ g.window[0] = f.window[0]
    BY <1>5, <1>7, <2>1
  <2> QED BY <2>1, <2>2, <2>3 DEF Room
<1>13. Blocked(g.frames, g.window, g.unavailable, su)
  <2> SUFFICES ASSUME NEW x \in f.unavailable, su[x].st = "open"
               PROVE  Delays(f.frames, x) \/ g.window[0] = 0 \/ g.window[x] = 0
    BY <1>5 DEF Blocked
  <2>1. x \in Streams /\ x # s /\ st[x].st = "open"
    BY <1>3, <1>6
  <2>2. g.window[x] = f.window[x] /\ g.window[0] = f.window[0]
    BY <1>5, <1>7, <2>1
  <2> QED BY <2>1, <2>2 DEF FlowGood, Blocked
<1>14. ~g.failed
  BY <1>5 DEF FlowGood, FlowBase
<1> QED BY <1>2, <1>4, <1>8, <1>9, <1>10, <1>11, <1>12, <1>13, <1>14 DEF FlowGood, FlowBase

\* A stream begins.
LEMMA BegunGood ==
    ASSUME NEW f, NEW st, FlowGood(f, st), NEW s \in Streams, st[s].st = "idle",
           NEW n \in Nat \ {0}, NEW r \in Stream, r.st = "open", r.parts = 0,
           ~r.answered, r.windowM \in 1 .. FrameMax, r.windowM <= n
    PROVE  FlowGood([f EXCEPT !.window[s] = n], [st EXCEPT ![s] = r])
<1>1. f \in Flow /\ st \in [Streams -> Stream]
  BY DEF FlowGood, FlowBase
<1>2. PICK su \in [Streams -> Stream] : su = [st EXCEPT ![s] = r]
  BY <1>1
<1>3. su[s] = r /\ \A x \in Streams : x # s => su[x] = st[x]
  BY <1>1, <1>2
<1>4. PICK W \in [Links -> Int] : W = [f.window EXCEPT ![s] = n]
  <2>1. n \in Int /\ f.window \in [Links -> Int]
    BY <1>1, FlowIs
  <2> QED BY <2>1
<1>5. PICK g : g = [f EXCEPT !.window[s] = n]
  OBVIOUS
<1>6. /\ g \in Flow /\ g.frames = f.frames /\ g.unavailable = f.unavailable
      /\ g.window = W /\ g.owed = f.owed /\ g.sent = f.sent
      /\ g.callbacks = f.callbacks /\ g.failed = f.failed
  <2>1. g = [f EXCEPT !.window = W]
    BY <1>4, <1>5
  <2> QED BY <1>1, <2>1 DEF Flow
<1>7. \A l \in Links : W[l] = IF l = s THEN n ELSE f.window[l]
  BY <1>1, <1>4, FlowIs
<1>8. f.unavailable \subseteq Streams /\ f.owed \in [Links -> Nat]
  BY <1>1, FlowIs
<1>9. 0 \in Links /\ s # 0 /\ Streams \subseteq Links
  BY NotLinks
<1>10. Listed(f.frames, f.unavailable, st) /\ Credited(f.window, f.owed, st)
  BY DEF FlowGood, FlowBase
<1>11. s \notin f.unavailable /\ ~Delays(f.frames, s)
  BY <1>10 DEF Listed, Delays
<1>12. \A i \in DOMAIN f.frames : /\ f.frames[i].stream \in f.unavailable
                                  /\ f.frames[i].stream \in Streams
                                  /\ f.frames[i].stream # s
  BY <1>8, <1>10, <1>11 DEF Listed
<1>13. Listed(g.frames, g.unavailable, su)
  BY <1>3, <1>6, <1>8, <1>10, <1>11, <1>12 DEF Listed
<1>14. Credited(g.window, g.owed, su)
  <2>1. \A l \in Links : W[l] >= 0
    BY <1>7, <1>10 DEF Credited
  <2>2. W[0] + f.owed[0] = Window
    BY <1>7, <1>9, <1>10 DEF Credited
  <2>3. ASSUME NEW x \in Streams, su[x].st = "open"
        PROVE  su[x].windowM \in 1 .. FrameMax /\ su[x].windowM <= W[x] + f.owed[x]
    <3>1. CASE x # s
      BY <1>3, <1>7, <1>9, <1>10, <2>3, <3>1 DEF Credited
    <3>2. CASE x = s
      <4>1. W[x] = n /\ f.owed[x] \in Nat /\ r.windowM \in Nat
        BY <1>7, <1>8, <1>9, <3>2
      <4> QED BY <1>3, <3>2, <4>1
    <3> QED BY <3>1, <3>2
  <2> QED BY <1>6, <2>1, <2>2, <2>3 DEF Credited
<1>15. Ordered(g.sent, g.frames, su)
  <2> SUFFICES ASSUME NEW x \in Streams
               PROVE  IF su[x].st = "open" THEN Numbers(f.sent[x], f.frames, x, su[x].parts)
                      ELSE f.sent[x] = <<>>
    BY <1>6 DEF Ordered
  <2>1. IF st[x].st = "open" THEN Numbers(f.sent[x], f.frames, x, st[x].parts)
        ELSE f.sent[x] = <<>>
    BY DEF FlowGood, FlowBase, Ordered
  <2>2. CASE x # s
    BY <1>3, <2>1, <2>2
  <2>3. CASE x = s
    <3>1. {i \in DOMAIN f.frames : f.frames[i].stream = x} = {}
      BY <1>12, <2>3
    <3>2. f.sent[x] = <<>>
      BY <2>1, <2>3
    <3>3. Len(<<>>) = 0 /\ <<>> = [i \in 1 .. 0 |-> i] /\ {f.frames[i].nr : i \in {}} = 0 + 1 .. 0
      OBVIOUS
    <3>4. Numbers(<<>>, f.frames, x, 0)
      BY <3>1, <3>3 DEF Numbers
    <3> QED BY <1>3, <2>3, <3>2, <3>4
  <2> QED BY <2>2, <2>3
<1>16. Answering(g.callbacks, g.frames, su)
  <2> SUFFICES ASSUME NEW x \in Streams, su[x].st = "open", su[x].answered
               PROVE  Ending(f.callbacks, f.frames, x)
    BY <1>6 DEF Answering
  <2> QED BY <1>3 DEF FlowGood, FlowBase, Answering
<1>17. Starved(g.frames, g.window, su)
  <2> SUFFICES ASSUME NEW i \in DOMAIN f.frames, su[f.frames[i].stream].st = "open",
                      \A j \in 1 .. i - 1 : f.frames[j].stream # f.frames[i].stream
               PROVE  ~Room(W, f.frames[i].stream, f.frames[i].size)
    BY <1>6 DEF Starved
  <2>1. PICK x \in Streams : x = f.frames[i].stream /\ x # s
    BY <1>12
  <2>2. ~Room(f.window, x, f.frames[i].size)
    BY <1>3, <2>1 DEF FlowGood, Starved
  <2>3. W[x] = f.window[x] /\ W[0] = f.window[0]
    BY <1>7, <1>9, <2>1
  <2> QED BY <2>1, <2>2, <2>3 DEF Room
<1>18. Blocked(g.frames, g.window, g.unavailable, su)
  <2> SUFFICES ASSUME NEW x \in f.unavailable, su[x].st = "open"
               PROVE  Delays(f.frames, x) \/ W[0] = 0 \/ W[x] = 0
    BY <1>6 DEF Blocked
  <2>1. x \in Streams /\ x # s /\ st[x].st = "open"
    BY <1>3, <1>8, <1>11
  <2>2. W[x] = f.window[x] /\ W[0] = f.window[0]
    BY <1>7, <1>9, <2>1
  <2> QED BY <2>1, <2>2 DEF FlowGood, Blocked
<1>19. ~g.failed
  BY <1>6 DEF FlowGood, FlowBase
<1> QED BY <1>2, <1>5, <1>6, <1>13, <1>14, <1>15, <1>16, <1>17, <1>18, <1>19 DEF FlowGood, FlowBase

\* Nothing is left of a connection.
LEMMA NoFlowGood ==
    ASSUME NEW st \in [Streams -> Stream], \A s \in Streams : st[s].st # "open"
    PROVE  FlowGood(NoFlow, st)
<1>1. PICK e \in Seq(Frame) : e = <<>>
  BY EmptySeq
<1>2. PICK z \in Seq(Nat) : z = <<>>
  BY EmptySeq
<1>3. PICK q \in Seq(Streams \cup {RST, GOAWAY}) : q = <<>>
  BY EmptySeq
<1>4. Window \in Nat /\ 0 \in Links
  BY SizesAssumption, NotLinks
<1>5. /\ NoFlow.window = [l \in Links |-> Window] /\ NoFlow.owed = [l \in Links |-> 0]
      /\ NoFlow.frames = e /\ NoFlow.unavailable = {}
      /\ NoFlow.sent = [s \in Streams |-> z] /\ NoFlow.callbacks = q
      /\ NoFlow.failed = FALSE
  BY <1>1, <1>2, <1>3 DEF NoFlow
<1>6. NoFlow \in Flow
  BY <1>1, <1>2, <1>3, <1>4 DEF NoFlow, Flow
<1>7. DOMAIN NoFlow.frames = {}
  BY <1>1, <1>5
<1>8. Listed(NoFlow.frames, NoFlow.unavailable, st)
  BY <1>5, <1>7 DEF Listed
<1>9. Credited(NoFlow.window, NoFlow.owed, st)
  BY <1>4, <1>5 DEF Credited
<1>10. Ordered(NoFlow.sent, NoFlow.frames, st)
  BY <1>2, <1>5 DEF Ordered
<1>11. Answering(NoFlow.callbacks, NoFlow.frames, st)
  BY DEF Answering
<1>12. Starved(NoFlow.frames, NoFlow.window, st)
       /\ Blocked(NoFlow.frames, NoFlow.window, NoFlow.unavailable, st)
  BY <1>5, <1>7 DEF Starved, Blocked
<1> QED BY <1>5, <1>6, <1>8, <1>9, <1>10, <1>11, <1>12 DEF FlowGood, FlowBase

RestType ==
    /\ conn \in {"new", "open", "closed"} /\ reading \in BOOLEAN
    /\ initial \in Initials \cup {Window}
    /\ last \in [type: Headers \cup {"other"}, inside: Links]
    /\ localWindow \in [Links -> 0 .. LocalWindow]
Http2Inv == RestType /\ FlowGood(flow, stream) /\ DispatchedOnce

\* what an action makes of the stream that it is about
HandedOver(r) ==
    /\ r \in Stream /\ r.asked <= 1
    /\ r.st = "open" /\ reading' => r.asked = IF Complete(r) THEN 1 ELSE 0
LEMMA DispatchKept ==
    ASSUME DispatchedOnce, stream \in [Streams -> Stream], NEW s \in Streams,
           NEW r, HandedOver(r), stream' = [stream EXCEPT ![s] = r], reading' => reading
    PROVE  DispatchedOnce'
<1>1. \A x \in Streams : stream'[x] = IF x = s THEN r ELSE stream[x]
  OBVIOUS
<1>2. ASSUME NEW x \in Streams
      PROVE  /\ stream'[x].asked <= 1
             /\ stream'[x].st = "open" /\ reading' =>
                    stream'[x].asked = IF Complete(stream'[x]) THEN 1 ELSE 0
  <2>1. CASE x = s
    BY <1>1, <2>1 DEF HandedOver
  <2>2. CASE x # s
    BY <1>1, <2>2 DEF DispatchedOnce, IsOpen
  <2> QED BY <2>1, <2>2
<1> QED BY <1>2 DEF DispatchedOnce, IsOpen, Complete

LEMMA AskIs ==
    ASSUME NEW r \in Stream, r.asked = 0
    PROVE  /\ Ask(r) \in Stream /\ Ask(r).asked = (IF Complete(r) THEN 1 ELSE 0)
           /\ Ask(r).st = r.st /\ Ask(r).parts = r.parts /\ Ask(r).answered = r.answered
           /\ Ask(r).windowM = r.windowM
           /\ Complete(Ask(r)) <=> Complete(r)
  BY DEF Ask, Stream, Complete

\* A frame that is refused.
LEMMA FailKeeps ==
    ASSUME RestType, Fail
    PROVE  /\ reading' = FALSE /\ conn' = conn /\ initial' = initial
           /\ last' \in [type: Headers \cup {"other"}, inside: Links]
  BY NotLinks DEF Fail, RestType, Other

LEMMA RaiseStep ==
    ASSUME Http2Inv, NEW c \in {RST, GOAWAY}, Raise(c), UNCHANGED <<stream, localWindow>>
    PROVE  Http2Inv'
<1>1. RestType'
  BY FailKeeps DEF Http2Inv, Raise, RestType
<1>2. FlowGood(flow', stream')
  BY PushedGood DEF Http2Inv, Raise, Push
<1>3. DispatchedOnce'
  BY FailKeeps DEF Http2Inv, Raise, DispatchedOnce, IsOpen
<1> QED BY <1>1, <1>2, <1>3 DEF Http2Inv

\* A frame that is read: nothing is sent.
LEMMA FinishedKeeps ==
    ASSUME RestType, NEW k \in Links, NEW t \in Headers \cup {"other"},
           Finished([type |-> t, inside |-> k])
    PROVE  /\ reading' = reading /\ conn' = conn
           /\ last' \in [type: Headers \cup {"other"}, inside: Links]
  BY DEF Finished

LEMMA OtherIs == Other = [type |-> "other", inside |-> 0]
  BY DEF Other

LEMMA IdleFrameStep ==
    ASSUME Http2Inv, Finished(Other), initial' \in Initials \cup {Window},
           UNCHANGED <<stream, localWindow, flow>>
    PROVE  Http2Inv'
<1>1. reading' = reading /\ conn' = conn
      /\ last' \in [type: Headers \cup {"other"}, inside: Links]
  BY NotLinks DEF Finished, Other
<1>2. RestType'
  BY <1>1 DEF Http2Inv, RestType
<1>3. FlowGood(flow', stream')
  BY DEF Http2Inv
<1>4. DispatchedOnce'
  BY <1>1 DEF Http2Inv, DispatchedOnce, IsOpen
<1> QED BY <1>2, <1>3, <1>4 DEF Http2Inv

LEMMA PrefaceStep == ASSUME Http2Inv, Preface PROVE Http2Inv'
<1>1. CASE /\ conn' = "open" /\ UNCHANGED <<reading, initial, last, flow>>
           /\ UNCHANGED <<stream, localWindow>>
  <2>1. RestType'
    BY <1>1 DEF Http2Inv, RestType
  <2>2. FlowGood(flow', stream')
    BY <1>1 DEF Http2Inv
  <2>3. DispatchedOnce'
    BY <1>1 DEF Http2Inv, DispatchedOnce, IsOpen
  <2> QED BY <2>1, <2>2, <2>3 DEF Http2Inv
<1>2. CASE Raise(GOAWAY) /\ UNCHANGED <<stream, localWindow>>
  BY <1>2, RaiseStep
<1> QED BY <1>1, <1>2 DEF Preface

LEMMA RejectStep == ASSUME Http2Inv, Reject PROVE Http2Inv'
<1>1. CASE Raise(RST) /\ UNCHANGED <<stream, localWindow>>
  BY <1>1, RaiseStep
<1>2. CASE Raise(GOAWAY) /\ UNCHANGED <<stream, localWindow>>
  BY <1>2, RaiseStep
<1>3. CASE Fail /\ UNCHANGED flow /\ UNCHANGED <<stream, localWindow>>
  <2>1. RestType'
    BY <1>3, FailKeeps DEF Http2Inv, RestType
  <2>2. FlowGood(flow', stream')
    BY <1>3 DEF Http2Inv
  <2>3. DispatchedOnce'
    BY <1>3, FailKeeps DEF Http2Inv, DispatchedOnce, IsOpen
  <2> QED BY <2>1, <2>2, <2>3 DEF Http2Inv
<1> QED BY <1>1, <1>2, <1>3 DEF Reject

LEMMA CloseStep == ASSUME Http2Inv, CloseConnection PROVE Http2Inv'
<1>1. stream \in [Streams -> Stream] /\ reading' = reading
  BY DEF Http2Inv, FlowGood, FlowBase, CloseConnection
<1>2. \A s \in Streams : stream'[s] = IF IsOpen(s) THEN Dead ELSE stream[s]
  BY DEF CloseConnection
<1>3. stream' \in [Streams -> Stream]
  <2>1. \A s \in Streams : (IF IsOpen(s) THEN Dead ELSE stream[s]) \in Stream
    BY <1>1, DeadIs
  <2> QED BY <2>1 DEF CloseConnection
<1>4. \A s \in Streams : stream'[s].st # "open"
  BY <1>2, DeadIs DEF IsOpen
<1>5. FlowGood(flow', stream')
  BY <1>3, <1>4, NoFlowGood DEF CloseConnection
<1>6. RestType'
  <2>1. [l \in Links |-> LocalWindow] \in [Links -> 0 .. LocalWindow]
    BY SizesAssumption
  <2> QED BY <2>1 DEF Http2Inv, RestType, CloseConnection
<1>7. DispatchedOnce'
  <2>1. \A s \in Streams : stream'[s].asked <= 1
    BY <1>2, DeadIs DEF Http2Inv, DispatchedOnce
  <2> QED BY <1>4, <2>1 DEF DispatchedOnce, IsOpen
<1> QED BY <1>5, <1>6, <1>7 DEF Http2Inv

\* A stream has more of its request, which may be complete.
LEMMA MoreStep ==
    ASSUME Http2Inv, NEW s \in Streams, IsOpen(s), NEW r,
           SameAnswer(r, stream[s]), HandedOver(r),
           stream' = [stream EXCEPT ![s] = r], UNCHANGED flow,
           RestType', reading' => reading
    PROVE  Http2Inv'
<1>1. FlowGood(flow', stream')
  BY SameGood DEF Http2Inv
<1>2. DispatchedOnce'
  BY DispatchKept DEF Http2Inv, FlowGood, FlowBase
<1> QED BY <1>1, <1>2 DEF Http2Inv

LEMMA NotAsked ==
    ASSUME Http2Inv, Reads, NEW s \in Streams, IsOpen(s), ~Complete(stream[s])
    PROVE  stream[s] \in Stream /\ stream[s].asked = 0 /\ stream[s].st = "open"
  BY DEF Http2Inv, Reads, DispatchedOnce, FlowGood, FlowBase, IsOpen

LEMMA UnfinishedKeeps ==
    ASSUME RestType, NEW s \in Streams, NEW t \in Headers, NEW ended \in BOOLEAN,
           Unfinished(t, s, ended), UNCHANGED <<initial, localWindow>>
    PROVE  RestType' /\ reading' = reading
<1>1. last' \in [type: Headers \cup {"other"}, inside: Links]
  BY NotLinks DEF Unfinished, Finished
<1> QED BY <1>1 DEF RestType, Unfinished, Finished

LEMMA ContinuationStep ==
    ASSUME Http2Inv, NEW s \in Streams, NEW h \in BOOLEAN, ContinuationFrame(s, h)
    PROVE  Http2Inv'
<1>1. CASE Raise(RST) /\ UNCHANGED <<stream, localWindow>>
  BY <1>1, RaiseStep
<1>2. CASE Raise(GOAWAY) /\ UNCHANGED <<stream, localWindow>>
  BY <1>2, RaiseStep
<1> DEFINE new == [stream[s] EXCEPT !.endHeaders = h]
<1>3. CASE /\ Reads /\ IsOpen(s) /\ ~Complete(stream[s])
           /\ stream' = [stream EXCEPT ![s] = Ask(new)]
           /\ Unfinished("CONTINUATION", s, h)
           /\ UNCHANGED <<initial, localWindow, flow>>
  <2>1. stream[s] \in Stream /\ stream[s].asked = 0 /\ stream[s].st = "open"
    BY <1>3, NotAsked
  <2>2. PICK x \in Stream : x = stream[s]
    BY <2>1
  <2>3. new \in Stream /\ new.asked = 0 /\ SameAnswer(new, x)
    BY <2>1, <2>2 DEF Stream, SameAnswer
  <2> HIDE DEF new
  <2>4. PICK r : r = Ask(new)
    OBVIOUS
  <2>5. SameAnswer(r, stream[s]) /\ HandedOver(r)
    BY <2>1, <2>2, <2>3, <2>4, AskIs DEF SameAnswer, HandedOver
  <2>6. RestType' /\ reading' = reading
    BY <1>3, UnfinishedKeeps DEF Http2Inv, Headers
  <2> QED BY <1>3, <2>4, <2>5, <2>6, MoreStep
<1> QED BY <1>1, <1>2, <1>3 DEF ContinuationFrame

LEMMA DataFrameStep ==
    ASSUME Http2Inv, NEW s \in Streams, NEW n \in 0 .. 1, NEW e \in BOOLEAN,
           DataFrame(s, n, e)
    PROVE  Http2Inv'
<1>1. CASE Raise(RST) /\ UNCHANGED <<stream, localWindow>>
  BY <1>1, RaiseStep
<1> DEFINE new == [stream[s] EXCEPT !.endStream = e]
<1>2. CASE /\ Reads /\ IsOpen(s) /\ ~Complete(stream[s])
           /\ stream' = [stream EXCEPT ![s] = Ask(new)]
           /\ localWindow' = [l \in Links |->
                  IF l \in {0, s} THEN Spend(localWindow[l], n) ELSE localWindow[l]]
           /\ n <= localWindow[0] /\ n <= localWindow[s]
           /\ Finished(Other) /\ UNCHANGED <<initial, flow>>
  <2>1. stream[s] \in Stream /\ stream[s].asked = 0 /\ stream[s].st = "open"
    BY <1>2, NotAsked
  <2>2. PICK x \in Stream : x = stream[s]
    BY <2>1
  <2>3. new \in Stream /\ new.asked = 0 /\ SameAnswer(new, x)
    BY <2>1, <2>2 DEF Stream, SameAnswer
  <2> HIDE DEF new
  <2>4. PICK r : r = Ask(new)
    OBVIOUS
  <2>5. SameAnswer(r, stream[s]) /\ HandedOver(r)
    BY <2>1, <2>2, <2>3, <2>4, AskIs DEF SameAnswer, HandedOver
  <2>6. localWindow' \in [Links -> 0 .. LocalWindow]
    <3>1. LocalWindow \in Nat /\ LocalWindow \div 2 \in Nat
      BY SizesAssumption
    <3>2. \A w \in 0 .. LocalWindow : Spend(w, n) \in 0 .. LocalWindow
      BY <3>1 DEF Spend
    <3>3. localWindow \in [Links -> 0 .. LocalWindow]
      BY DEF Http2Inv, RestType
    <3>4. \A l \in Links : (IF l \in {0, s} THEN Spend(localWindow[l], n)
                            ELSE localWindow[l]) \in 0 .. LocalWindow
      BY <3>2, <3>3
    <3> QED BY <1>2, <3>4
  <2>7. reading' = reading /\ conn' = conn
        /\ last' \in [type: Headers \cup {"other"}, inside: Links]
    BY <1>2, NotLinks DEF Finished, Other
  <2>8. RestType'
    BY <1>2, <2>6, <2>7 DEF Http2Inv, RestType
  <2> QED BY <1>2, <2>4, <2>5, <2>7, <2>8, MoreStep
<1>3. [stream EXCEPT ![s] = Ask([@ EXCEPT !.endStream = e])] =
          [stream EXCEPT ![s] = Ask(new)]
  BY DEF Http2Inv, FlowGood, FlowBase
<1> QED BY <1>1, <1>2, <1>3 DEF DataFrame

LEMMA HeadersStep ==
    ASSUME Http2Inv, NEW s \in Streams, NEW h \in BOOLEAN, NEW e \in BOOLEAN,
           HeadersFrame(s, h, e)
    PROVE  Http2Inv'
<1> DEFINE old == stream[s]
           new == [Idle EXCEPT !.st = "open", !.endHeaders = h, !.endStream = e,
                               !.windowM = Min({initial, FrameMax})]
           more == [old EXCEPT !.endHeaders = @ \/ h, !.endStream = TRUE]
<1>1. CASE Raise(RST) /\ UNCHANGED <<stream, localWindow>>
  BY <1>1, RaiseStep
<1>2. CASE /\ Reads /\ old.st = "idle"
           /\ stream' = [stream EXCEPT ![s] = Ask(new)]
           /\ flow' = [flow EXCEPT !.window[s] = initial]
           /\ Unfinished("HEADERS", s, h)
           /\ UNCHANGED <<initial, localWindow>>
  <2>1. initial \in Nat \ {0} /\ FrameMax \in Nat \ {0}
    BY SizesAssumption DEF Http2Inv, RestType
  <2>2. PICK m : m = Min({initial, FrameMax})
    OBVIOUS
  <2>3. m \in 1 .. FrameMax /\ m <= initial
    <3>1. PICK a \in Int, b \in Int : a = initial /\ b = FrameMax
      BY <2>1
    <3>2. /\ Min({a, b, b}) \in {a, b, b}
          /\ Min({a, b, b}) <= a /\ Min({a, b, b}) <= b
      BY LeastIs, Zenon
    <3>3. {a, b, b} = {a, b}
      OBVIOUS
    <3>4. {a, b} = {initial, FrameMax}
      BY <3>1
    <3>5. m = Min({a, b, b})
      <4>1. {a, b, b} = {initial, FrameMax}
        BY ONLY <3>3, <3>4
      <4> QED BY ONLY <2>2, <4>1
    <3>6. m \in {a, b, b} /\ m <= a /\ m <= b
      BY ONLY <3>2, <3>5
    <3> QED BY <2>1, <3>1, <3>6
  <2>4. /\ new \in Stream /\ new.asked = 0 /\ new.st = "open" /\ new.parts = 0
        /\ ~new.answered /\ new.windowM = m
    <3>1. m \in Nat
      BY <2>1, <2>3
    <3>2. PICK x \in Stream :
              /\ x = Idle /\ x.asked = 0 /\ x.parts = 0 /\ ~x.answered
      BY DeadIs
    <3>3. new = [x EXCEPT !.st = "open", !.endHeaders = h, !.endStream = e, !.windowM = m]
      BY <2>2, <3>2
    <3> HIDE DEF new
    <3> QED BY <3>1, <3>2, <3>3 DEF Stream
  <2> HIDE DEF new
  <2>5. PICK r : r = Ask(new)
    OBVIOUS
  <2>6. /\ r \in Stream /\ r.st = "open" /\ r.parts = 0 /\ ~r.answered
        /\ r.windowM = m /\ HandedOver(r)
    BY <2>4, <2>5, AskIs DEF HandedOver
  <2>7. FlowGood(flow', stream')
    BY <1>2, <2>1, <2>3, <2>5, <2>6, BegunGood DEF Http2Inv
  <2>8. RestType' /\ reading' = reading
    BY <1>2, UnfinishedKeeps DEF Http2Inv, Headers
  <2>9. DispatchedOnce'
    BY <1>2, <2>5, <2>6, <2>8, DispatchKept DEF Http2Inv, FlowGood, FlowBase
  <2> QED BY <2>7, <2>8, <2>9 DEF Http2Inv
<1>3. ASSUME Reads, IsOpen(s), ~Complete(old)
      PROVE  /\ more \in Stream /\ more.asked = 0 /\ SameAnswer(more, stream[s])
             /\ SameAnswer(Ask(more), stream[s]) /\ HandedOver(Ask(more))
  <2>1. stream[s] \in Stream /\ stream[s].asked = 0 /\ stream[s].st = "open"
    BY <1>3, NotAsked
  <2>2. PICK x \in Stream : x = stream[s]
    BY <2>1
  <2>3. more \in Stream /\ more.asked = 0 /\ SameAnswer(more, x)
    BY <2>1, <2>2 DEF Stream, SameAnswer
  <2> HIDE DEF more
  <2> QED BY <2>1, <2>2, <2>3, AskIs DEF SameAnswer, HandedOver
<1>4. CASE /\ Reads /\ IsOpen(s) /\ ~Complete(old)
           /\ stream' = [stream EXCEPT ![s] = more]
           /\ Raise(RST) /\ UNCHANGED localWindow
  <2>1. more \in Stream /\ more.asked = 0 /\ SameAnswer(more, stream[s])
    BY <1>3, <1>4
  <2> HIDE DEF more
  <2>2. RestType' /\ reading' = FALSE
    BY <1>4, FailKeeps DEF Http2Inv, Raise, RestType
  <2>3. PICK su : su = [stream EXCEPT ![s] = more] /\ FlowGood(flow, su)
    BY <2>1, SameGood DEF Http2Inv
  <2>4. FlowGood(flow', su)
    BY <1>4, <2>3, PushedGood DEF Raise, Push
  <2>5. HandedOver(more)
    BY <2>1, <2>2 DEF HandedOver
  <2>6. DispatchedOnce'
    BY <1>4, <2>2, <2>5, DispatchKept DEF Http2Inv, FlowGood, FlowBase
  <2> QED BY <1>4, <2>2, <2>3, <2>4, <2>6 DEF Http2Inv
<1>5. CASE /\ Reads /\ IsOpen(s) /\ ~Complete(old)
           /\ stream' = [stream EXCEPT ![s] = Ask(more)]
           /\ Unfinished("HEADERS", s, h)
           /\ UNCHANGED <<initial, localWindow, flow>>
  <2>1. SameAnswer(Ask(more), stream[s]) /\ HandedOver(Ask(more))
    BY <1>3, <1>5
  <2>2. PICK r : r = Ask(more)
    OBVIOUS
  <2> HIDE DEF more
  <2>3. RestType' /\ reading' = reading
    BY <1>5, UnfinishedKeeps DEF Http2Inv, Headers
  <2> QED BY <1>5, <2>1, <2>2, <2>3, MoreStep
<1>6. CASE CloseConnection
  BY <1>6, CloseStep
<1> QED BY <1>1, <1>2, <1>4, <1>5, <1>6 DEF HeadersFrame

LEMMA GoneStep ==
    ASSUME Http2Inv, NEW s \in Streams, NEW f, Gone(s, f),
           FlowGood(Left(f, s), [stream EXCEPT ![s] = Dead]),
           UNCHANGED <<conn, reading, initial>>,
           last' \in [type: Headers \cup {"other"}, inside: Links]
    PROVE  Http2Inv'
<1>1. FlowGood(flow', stream') /\ stream' = [stream EXCEPT ![s] = Dead]
  BY DEF Gone, Left
<1>2. RestType'
  <2>1. localWindow' \in [Links -> 0 .. LocalWindow]
    <3>1. LocalWindow \in 0 .. LocalWindow
      BY SizesAssumption
    <3>2. localWindow \in [Links -> 0 .. LocalWindow]
      BY DEF Http2Inv, RestType
    <3>3. localWindow' = [localWindow EXCEPT ![s] = LocalWindow]
      BY DEF Gone
    <3> QED BY <3>1, <3>2, <3>3
  <2> QED BY <2>1 DEF Http2Inv, RestType
<1>3. HandedOver(Dead)
  BY DeadIs DEF HandedOver
<1>4. DispatchedOnce'
  BY <1>1, <1>3, DispatchKept DEF Http2Inv, FlowGood, FlowBase
<1> QED BY <1>1, <1>2, <1>4 DEF Http2Inv

LEMMA ReadKeeps ==
    ASSUME Http2Inv, Finished(Other)
    PROVE  /\ UNCHANGED <<conn, reading>>
           /\ last' \in [type: Headers \cup {"other"}, inside: Links]
  BY NotLinks DEF Finished, Other

LEMMA RstStep ==
    ASSUME Http2Inv, NEW s \in Streams, RstStream(s)
    PROVE  Http2Inv'
<1>1. CASE Raise(GOAWAY) /\ UNCHANGED <<stream, localWindow>>
  BY <1>1, RaiseStep
<1>2. CASE IsOpen(s) /\ Gone(s, flow) /\ Finished(Other) /\ UNCHANGED initial
  BY <1>2, GoneStep, LeftGood, ReadKeeps DEF Http2Inv
<1>3. CASE UNCHANGED <<stream, localWindow, flow>> /\ Finished(Other) /\ UNCHANGED initial
  BY <1>3, IdleFrameStep DEF Http2Inv, RestType
<1> QED BY <1>1, <1>2, <1>3 DEF RstStream

LEMMA OtherFrameStep ==
    ASSUME Http2Inv, NEW l \in Links, OtherFrame(l)
    PROVE  Http2Inv'
  BY IdleFrameStep DEF Http2Inv, RestType, OtherFrame

LEMMA SettingsStep ==
    ASSUME Http2Inv, NEW w \in Initials, Settings(w)
    PROVE  Http2Inv'
  BY IdleFrameStep DEF Settings

LEMMA WindowUpdateStep ==
    ASSUME Http2Inv, NEW l \in Links, NEW n \in 1 .. Window, WindowUpdate(l, n)
    PROVE  Http2Inv'
<1>1. CASE Raise(RST) /\ UNCHANGED <<stream, localWindow>>
  BY <1>1, RaiseStep
<1> DEFINE f == [flow EXCEPT !.window[l] = @ + n, !.owed[l] = @ - n]
<1>2. CASE /\ n <= flow.owed[l] /\ flow' = FlushAvailable(FlushFrames(f))
           /\ Finished(Other) /\ UNCHANGED <<initial, stream, localWindow>>
  <2>1. n \in Nat
    BY SizesAssumption
  <2>2. PICK g : g = f
    OBVIOUS
  <2> HIDE DEF f
  <2>3. FlowGood(FlushAvailable(FlushFrames(g)), stream)
    BY <1>2, <2>1, <2>2, UpdateGood DEF Http2Inv, f
  <2>4. RestType'
    BY <1>2, ReadKeeps DEF Http2Inv, RestType
  <2>5. DispatchedOnce'
    BY <1>2, ReadKeeps DEF Http2Inv, DispatchedOnce, IsOpen
  <2> QED BY <1>2, <2>2, <2>3, <2>4, <2>5 DEF Http2Inv
<1>3. CASE flow' = flow /\ Finished(Other) /\ UNCHANGED <<initial, stream, localWindow>>
  BY <1>3, IdleFrameStep DEF Http2Inv, RestType
<1> QED BY <1>1, <1>2, <1>3 DEF WindowUpdate

\* The last frame of an answer was made.
LEMMA AnsweredGood ==
    ASSUME NEW f, NEW st, FlowGood(f, st), NEW s \in Streams, NEW r \in Stream,
           r.st = st[s].st, r.parts = st[s].parts, r.windowM = st[s].windowM,
           r.answered => Ending(f.callbacks, f.frames, s)
    PROVE  FlowGood(f, [st EXCEPT ![s] = r])
<1>1. f \in Flow /\ st \in [Streams -> Stream]
  BY DEF FlowGood, FlowBase
<1>2. PICK su \in [Streams -> Stream] : su = [st EXCEPT ![s] = r]
  BY <1>1
<1>3. \A x \in Streams :
          /\ su[x].st = st[x].st /\ su[x].parts = st[x].parts
          /\ su[x].windowM = st[x].windowM
          /\ x # s => su[x].answered = st[x].answered
          /\ x = s => su[x].answered = r.answered
  BY <1>1, <1>2
<1>4. /\ f.unavailable \subseteq Streams
      /\ \A i \in DOMAIN f.frames : f.frames[i].stream \in Streams
  BY <1>1, FlowIs, FrameIs
<1>5. Listed(f.frames, f.unavailable, su)
  BY <1>3, <1>4 DEF FlowGood, FlowBase, Listed
<1>6. Credited(f.window, f.owed, su)
  BY <1>3 DEF FlowGood, FlowBase, Credited
<1>7. Ordered(f.sent, f.frames, su)
  BY <1>3 DEF FlowGood, FlowBase, Ordered
<1>8. Answering(f.callbacks, f.frames, su)
  <2> SUFFICES ASSUME NEW x \in Streams, su[x].st = "open", su[x].answered
               PROVE  Ending(f.callbacks, f.frames, x)
    BY DEF Answering
  <2>1. CASE x = s
    BY <1>3, <2>1
  <2>2. CASE x # s
    BY <1>3, <2>2 DEF FlowGood, FlowBase, Answering
  <2> QED BY <2>1, <2>2
<1>9. Starved(f.frames, f.window, su)
  BY <1>3, <1>4 DEF FlowGood, Starved
<1>10. Blocked(f.frames, f.window, f.unavailable, su)
  BY <1>3, <1>4 DEF FlowGood, Blocked
<1> QED BY <1>2, <1>5, <1>6, <1>7, <1>8, <1>9, <1>10 DEF FlowGood, FlowBase

LEMMA PartStep ==
    ASSUME Http2Inv, NEW s \in Streams, NEW n \in Parts, NEW final \in BOOLEAN,
           Part(s, n, final)
    PROVE  Http2Inv'
<1>1. FlowGood(flow, stream) /\ stream[s].st = "open" /\ stream \in [Streams -> Stream]
  BY DEF Http2Inv, Part, IsOpen, FlowGood, FlowBase
<1>2. n \in Nat
  BY SizesAssumption
<1>3. PICK k, g : k = Len(Fragments(flow, s, n)) /\ g = SendPart(flow, s, n, final)
  OBVIOUS
<1>4. /\ FlowGood(g, Made(s, k)) /\ k \in Nat
      /\ final => Ending(g.callbacks, g.frames, s)
  BY <1>1, <1>2, <1>3, SendPartGood
<1>5. PICK x \in Stream : x = stream[s]
  BY <1>1
<1>6. PICK r : r = [x EXCEPT !.parts = @ + k, !.answered = final]
  OBVIOUS
<1>7. /\ r \in Stream /\ r.st = x.st /\ r.parts = x.parts + k
      /\ r.windowM = x.windowM /\ r.answered = final /\ r.asked = x.asked
      /\ r.endHeaders = x.endHeaders /\ r.endStream = x.endStream
  <2>1. PICK p \in Nat : p = x.parts + k /\ r = [x EXCEPT !.parts = p, !.answered = final]
    <3>1. x.parts + k \in Nat
      BY <1>4 DEF Stream
    <3> QED BY <1>6, <3>1
  <2> QED BY <2>1 DEF Stream
<1>8. stream' = [stream EXCEPT ![s] = r] /\ flow' = g
  <2>1. stream' = [stream EXCEPT ![s].parts = @ + k, ![s].answered = final]
    BY <1>3 DEF Part
  <2> QED BY <2>1, <1>1, <1>3, <1>5, <1>6 DEF Part
<1>9. FlowGood(flow', stream')
  <2>1. /\ Made(s, k)[s].st = x.st /\ Made(s, k)[s].parts = x.parts + k
        /\ Made(s, k)[s].windowM = x.windowM
    BY <1>1, <1>4, <1>5, MadeIs
  <2>2. FlowGood(g, [Made(s, k) EXCEPT ![s] = r])
    BY <1>4, <1>7, <2>1, AnsweredGood
  <2>3. [Made(s, k) EXCEPT ![s] = r] = [stream EXCEPT ![s] = r]
    <3>1. PICK y : Made(s, k) = [stream EXCEPT ![s] = y]
      BY DEF Made
    <3> QED BY <1>1, <3>1
  <2> QED BY <1>8, <2>2, <2>3
<1>10. RestType' /\ reading' = reading
  BY DEF Http2Inv, RestType, Part
<1>11. HandedOver(r)
  BY <1>5, <1>7, <1>10 DEF HandedOver, Http2Inv, DispatchedOnce, IsOpen, Complete
<1>12. DispatchedOnce'
  BY <1>1, <1>8, <1>10, <1>11, DispatchKept DEF Http2Inv
<1> QED BY <1>9, <1>10, <1>12 DEF Http2Inv

LEMMA StreamCloseStep ==
    ASSUME Http2Inv, NEW s \in Streams, NEW flush \in BOOLEAN, StreamClose(s, flush)
    PROVE  Http2Inv'
<1>1. FlowGood(flow, stream) /\ stream[s].st = "open" /\ stream \in [Streams -> Stream]
  BY DEF Http2Inv, StreamClose, IsOpen, FlowGood, FlowBase
<1>2. /\ UNCHANGED <<conn, reading, initial>>
      /\ last' \in [type: Headers \cup {"other"}, inside: Links]
  BY DEF Http2Inv, RestType, StreamClose
<1>3. CASE Gone(s, flow)
  BY <1>1, <1>2, <1>3, LeftGood, GoneStep
<1>4. CASE Gone(s, SendPart(flow, s, 0, TRUE))
  <2>1. PICK k, g : k = Len(Fragments(flow, s, 0)) /\ g = SendPart(flow, s, 0, TRUE)
    OBVIOUS
  <2>2. FlowGood(g, Made(s, k))
    BY <1>1, <2>1, SendPartGood
  <2>3. FlowGood(Left(g, s), [Made(s, k) EXCEPT ![s] = Dead])
    BY <2>2, LeftGood
  <2>4. [Made(s, k) EXCEPT ![s] = Dead] = [stream EXCEPT ![s] = Dead]
    <3>1. PICK y : Made(s, k) = [stream EXCEPT ![s] = y]
      BY DEF Made
    <3> QED BY <1>1, <3>1
  <2> QED BY <1>2, <1>4, <2>1, <2>3, <2>4, GoneStep
<1> QED BY <1>3, <1>4 DEF StreamClose

LEMMA FramesSentStep ==
    ASSUME Http2Inv, FramesSent
    PROVE  Http2Inv'
<1> DEFINE c == Head(flow.callbacks)
           f == [flow EXCEPT !.callbacks = Tail(@)]
<1>1. FlowGood(flow, stream) /\ flow \in Flow /\ flow.callbacks # <<>>
      /\ stream \in [Streams -> Stream]
  BY DEF Http2Inv, FramesSent, FlowGood, FlowBase
<1>2. ASSUME UNCHANGED <<conn, reading, initial, last, stream, localWindow>>,
             FlowGood(flow', stream)
      PROVE  Http2Inv'
  <2>1. RestType'
    BY <1>2 DEF Http2Inv, RestType
  <2>2. DispatchedOnce'
    BY <1>2 DEF Http2Inv, DispatchedOnce, IsOpen
  <2> QED BY <1>2, <2>1, <2>2 DEF Http2Inv
<1>3. CASE CloseConnection
  BY <1>3, CloseStep
<1>4. CASE /\ c = RST /\ flow' = [f EXCEPT !.callbacks = Append(@, GOAWAY)]
           /\ UNCHANGED <<conn, reading, initial, last, stream, localWindow>>
  <2>1. RST \notin Streams
    BY StreamsAssumption DEF RST
  <2>2. flow' = [flow EXCEPT !.callbacks = Append(Tail(@), GOAWAY)]
    BY <1>1, <1>4 DEF Flow
  <2>3. FlowGood(flow', stream)
    BY <1>1, <1>4, <2>1, <2>2, CalledGood
  <2> QED BY <1>2, <1>4, <2>3
<1>5. CASE /\ c \in Streams /\ IsOpen(c) /\ Gone(c, f)
           /\ UNCHANGED <<conn, reading, initial, last>>
  <2>1. PICK s \in Streams : s = c
    BY <1>5
  <2>2. PICK su : su = [stream EXCEPT ![s] = Dead] /\ FlowGood(Left(flow, s), su)
    BY <1>1, LeftGood
  <2>3. su[s].st # "open"
    BY <1>1, <2>2, DeadIs
  <2>4. PICK g \in Flow : g = Left(flow, s) /\ g.callbacks = flow.callbacks
    BY <1>1, LeftIs
  <2>5. FlowGood([g EXCEPT !.callbacks = Tail(@)], su)
    BY <1>1, <2>1, <2>2, <2>3, <2>4, CalledGood
  <2>6. PICK q : q = Tail(flow.callbacks)
    OBVIOUS
  <2>7. [g EXCEPT !.callbacks = Tail(@)] = [g EXCEPT !.callbacks = q]
    BY <2>4, <2>6
  <2>8. f = [flow EXCEPT !.callbacks = q]
    BY <2>6
  <2>9. [g EXCEPT !.callbacks = q] = Left(f, s)
    <3>1. [Left(flow, s) EXCEPT !.callbacks = q] =
              Left([flow EXCEPT !.callbacks = q], s)
      BY <1>1, LeftCalls
    <3> HIDE DEF f
    <3> QED BY <2>4, <2>8, <3>1
  <2>10. last' \in [type: Headers \cup {"other"}, inside: Links]
    BY <1>5 DEF Http2Inv, RestType
  <2> HIDE DEF f
  <2> QED BY <1>5, <2>1, <2>2, <2>5, <2>7, <2>9, <2>10, GoneStep
<1>6. CASE /\ c \in Streams /\ ~IsOpen(c) /\ flow' = f
           /\ UNCHANGED <<conn, reading, initial, last, stream, localWindow>>
  <2>1. FlowGood(f, stream)
    BY <1>1, <1>6, CalledGood DEF IsOpen
  <2> QED BY <1>2, <1>6, <2>1
<1> QED BY <1>3, <1>4, <1>5, <1>6 DEF FramesSent

LEMMA Http2InitInv == Http2Init => Http2Inv
<1> SUFFICES ASSUME Http2Init PROVE Http2Inv
  OBVIOUS
<1>1. stream = [s \in Streams |-> Idle] /\ flow = NoFlow
  BY DEF Http2Init
<1>2. \A s \in Streams : stream[s] = Idle
  BY <1>1
<1>3. stream \in [Streams -> Stream] /\ \A s \in Streams : stream[s].st # "open"
  BY <1>1, <1>2, DeadIs
<1>4. FlowGood(flow, stream)
  BY <1>1, <1>3, NoFlowGood
<1>5. RestType
  <2>1. [l \in Links |-> LocalWindow] \in [Links -> 0 .. LocalWindow]
    BY SizesAssumption
  <2> QED BY <2>1, NotLinks DEF Http2Init, RestType, Other
<1>6. DispatchedOnce
  BY <1>2, <1>3, DeadIs DEF DispatchedOnce, IsOpen
<1> QED BY <1>4, <1>5, <1>6 DEF Http2Inv

LEMMA Http2Step == Http2Inv /\ [Http2Next]_http2Vars => Http2Inv'
<1> SUFFICES ASSUME Http2Inv, [Http2Next]_http2Vars PROVE Http2Inv'
  OBVIOUS
<1>1. CASE Preface
  BY <1>1, PrefaceStep
<1>2. CASE Reject
  BY <1>2, RejectStep
<1>3. CASE FramesSent
  BY <1>3, FramesSentStep
<1>4. CASE Lost
  BY <1>4, CloseStep DEF Lost
<1>5. ASSUME NEW l \in Links, OtherFrame(l) PROVE Http2Inv'
  BY <1>5, OtherFrameStep
<1>6. ASSUME NEW l \in Links, NEW n \in 1 .. Window, WindowUpdate(l, n) PROVE Http2Inv'
  BY <1>6, WindowUpdateStep
<1>7. ASSUME NEW w \in Initials, Settings(w) PROVE Http2Inv'
  BY <1>7, SettingsStep
<1>8. ASSUME NEW s \in Streams, RstStream(s) PROVE Http2Inv'
  BY <1>8, RstStep
<1>9. ASSUME NEW s \in Streams, NEW h \in BOOLEAN, ContinuationFrame(s, h)
      PROVE  Http2Inv'
  BY <1>9, ContinuationStep
<1>10. ASSUME NEW s \in Streams, NEW h \in BOOLEAN, StreamClose(s, h) PROVE Http2Inv'
  BY <1>10, StreamCloseStep
<1>11. ASSUME NEW s \in Streams, NEW h \in BOOLEAN, NEW e \in BOOLEAN,
              HeadersFrame(s, h, e)
       PROVE  Http2Inv'
  BY <1>11, HeadersStep
<1>12. ASSUME NEW s \in Streams, NEW h \in BOOLEAN, NEW n \in 0 .. 1, DataFrame(s, n, h)
       PROVE  Http2Inv'
  BY <1>12, DataFrameStep
<1>13. ASSUME NEW s \in Streams, NEW h \in BOOLEAN, NEW n \in Parts, Part(s, n, h)
       PROVE  Http2Inv'
  BY <1>13, PartStep
<1>14. CASE UNCHANGED http2Vars
  BY <1>14 DEF http2Vars, Http2Inv, RestType, DispatchedOnce, IsOpen
<1> QED BY <1>1, <1>2, <1>3, <1>4, <1>5, <1>6, <1>7, <1>8, <1>9, <1>10, <1>11, <1>12,
           <1>13, <1>14 DEF Http2Next

LEMMA Http2InvSafe == Http2Inv => Http2Safety
<1> SUFFICES ASSUME Http2Inv PROVE Http2Safety
  OBVIOUS
<1>1. /\ flow \in Flow /\ stream \in [Streams -> Stream] /\ ~flow.failed
      /\ Listed(flow.frames, flow.unavailable, stream)
      /\ Credited(flow.window, flow.owed, stream)
      /\ Ordered(flow.sent, flow.frames, stream)
      /\ Answering(flow.callbacks, flow.frames, stream)
      /\ Starved(flow.frames, flow.window, stream)
      /\ Blocked(flow.frames, flow.window, flow.unavailable, stream)
      /\ RestType /\ DispatchedOnce
  BY DEF Http2Inv, FlowGood, FlowBase
<1>2. Http2Type
  BY <1>1 DEF RestType, Http2Type
<1>3. Verified
  BY <1>1 DEF Verified, Listed, Delayed
<1>4. WithinWindows
  BY <1>1 DEF WithinWindows, Credited
<1>5. Unblocked
  BY <1>1 DEF Unblocked, Blocked, Delayed, Delays, IsOpen
<1>6. NothingStuck
  <2> SUFFICES ASSUME \A l \in Links : flow.owed[l] = 0, NEW s \in Streams,
                      IsOpen(s), Delayed(flow, s)
               PROVE  FALSE
    BY DEF NothingStuck
  <2> DEFINE own == {i \in DOMAIN flow.frames : flow.frames[i].stream = s}
  <2>1. own \subseteq Nat /\ own # {}
    BY <1>1, FlowIs DEF Delayed
  <2>2. PICK i \in own : \A j \in own : i <= j
    <3> HIDE DEF own
    <3> QED BY <2>1, LeastNumber
  <2>3. \A j \in 1 .. i - 1 : flow.frames[j].stream # s
    <3> SUFFICES ASSUME NEW j \in 1 .. i - 1, flow.frames[j].stream = s PROVE FALSE
      OBVIOUS
    <3>1. j \in DOMAIN flow.frames /\ ~(i <= j)
      BY <1>1, <2>1, FlowIs
    <3> QED BY <2>2, <3>1
  <2>4. ~Room(flow.window, s, flow.frames[i].size)
    BY <1>1, <2>3 DEF Starved, IsOpen
  <2>5. PICK n \in Nat : n = flow.frames[i].size
    BY <1>1, FlowIs, FrameIs
  <2>6. PICK m \in 1 .. FrameMax :
            m = stream[s].windowM /\ m <= flow.window[s] + flow.owed[s]
    BY <1>1 DEF Credited, IsOpen
  <2>7. n <= m
    BY <1>1, <2>5, <2>6 DEF Listed, IsOpen
  <2>8. /\ flow.window[s] \in Int /\ flow.window[0] \in Int
        /\ flow.owed[s] = 0 /\ flow.owed[0] = 0
    BY <1>1, FlowIs, NotLinks
  <2>9. flow.window[0] + flow.owed[0] = Window /\ Window \in Nat \ {0} /\ FrameMax <= Window
        /\ FrameMax \in Nat
    BY <1>1, SizesAssumption DEF Credited
  <2>10. Room(flow.window, s, n)
    BY <2>6, <2>7, <2>8, <2>9 DEF Room
  <2> QED BY <2>4, <2>5, <2>10
<1>7. FramesInOrder
  <2> SUFFICES ASSUME NEW s \in Streams
               PROVE  LET own == {i \in DOMAIN flow.frames : flow.frames[i].stream = s}
                          given == Len(flow.sent[s])
                      IN  IF IsOpen(s)
                          THEN /\ given <= stream[s].parts
                               /\ flow.sent[s] = [i \in 1 .. given |-> i]
                               /\ {flow.frames[i].nr : i \in own} =
                                      given + 1 .. stream[s].parts
                               /\ \A i, j \in own :
                                     i < j => flow.frames[i].nr < flow.frames[j].nr
                          ELSE flow.sent[s] = <<>>
    BY DEF FramesInOrder
  <2> QED BY <1>1 DEF Ordered, Numbers, IsOpen
<1>8. Ends
  <2> SUFFICES ASSUME flow.callbacks = <<>>, NEW s \in Streams, stream[s].answered,
                      ~Delayed(flow, s), IsOpen(s)
               PROVE  FALSE
    BY DEF Ends
  <2>1. Ending(flow.callbacks, flow.frames, s)
    BY <1>1 DEF Answering, IsOpen
  <2>2. DOMAIN flow.callbacks = {}
    OBVIOUS
  <2> QED BY <2>1, <2>2 DEF Ending, Delayed
<1> QED BY <1>1, <1>2, <1>3, <1>4, <1>5, <1>6, <1>7, <1>8
        DEF Http2Safety, FlowSafety, StreamSafety

(* Whatever the frames, windows, parts and resets of the two peers and the
   order in which they come: a frame that _flush_frame() kept waits only as
   long as a window is closed, none overtakes another of its stream, no
   stream sends more than its windows allow, a request is handed to the
   server once, and a stream whose answer has gone ends. *)
THEOREM Http2Safe == Http2Init /\ [][Http2Next]_http2Vars => []Http2Safety
<1>1. Http2Init => Http2Inv
  BY Http2InitInv
<1>2. Http2Inv /\ [Http2Next]_http2Vars => Http2Inv'
  BY Http2Step
<1>3. Http2Inv => Http2Safety
  BY Http2InvSafe
<1> QED BY <1>1, <1>2, <1>3, PTL

=============================================================================
