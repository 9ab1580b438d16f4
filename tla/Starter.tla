------------------------------- MODULE Starter -------------------------------
(***************************************************************************)
(* The beginning of a connection: the starters it runs before it reads     *)
(* (base/conn.py), which are the PROXY header of the middleware, in its    *)
(* two versions (middleware/proxy.py), and the handshake of TLS; a server  *)
(* that accepts (base/server.py), a client that connects (base/client.py), *)
(* and either of them that upgrades a connection it has.                   *)
(*                                                                         *)
(* The socket can always be written (Connection has the one that refuses), *)
(* except that the library of TLS writes nothing before its handshake: it  *)
(* tries to go on with that.  Data is in units.  The peer follows the      *)
(* protocol, but its header may be one that is not valid.                  *)
(***************************************************************************)
EXTENDS Integers, SequencesExt

CONSTANTS
    Setups,      \* [role, secure, proxy, edge, ahead, header]
    Least        \* the most one read of the header takes: MAX_LENGTH

Roles == {"server", "client", "starttls", "upgrader"}

ASSUME StarterAssumption ==
    /\ \A x \in Setups : /\ x.role \in Roles /\ x.proxy \in 0 .. 2
                          /\ x.header \in {"valid", "head", "body", "empty"}
    /\ Least \in Nat \ {0}

VARIABLES
    setup,   \* the role, TLS, the version of the header, if the poll tells of
             \* edges, if the user writes at once, and the header: "valid",
             \* wrong in its head (that of version 2) or in its body, or one
             \* of version 2 with an "empty" body (a LOCAL command)
    peer,    \* what it has sent of its script, and if it closed
    link     \* the connection, its socket, and what its users saw

starterVars == <<setup, peer, link>>

\* what the peer sends: the header, its side of the handshake, the data
Hello == IF ~setup.secure THEN <<>>
         ELSE IF setup.role \in {"client", "upgrader"} THEN <<"flight">>
         ELSE <<"hello", "finish">>

PeerData ==
    CASE setup.role = "starttls" -> <<"starttls", "d1", "d2">>
      [] setup.role = "upgrader" -> <<"go", "d1", "d2">>
      [] OTHER -> <<"d1", "d2">>

Script ==
    (CASE setup.proxy = 0 -> <<>>
       [] setup.proxy = 1 -> <<"p", "cr", "lf">>
       [] setup.proxy = 2 -> IF setup.header = "empty" THEN <<"head", "head">>
                             ELSE <<"head", "head", "body", "body">>) \o
    IF setup.role \in {"starttls", "upgrader"}
    THEN <<Head(PeerData)>> \o Hello \o Tail(PeerData)
    ELSE Hello \o PeerData

StarterInit ==
    /\ setup \in Setups
    /\ peer = [at |-> 0, gone |-> FALSE]
    /\ link = [status |-> "pending", up |-> setup.role # "client", refused |-> FALSE,
               connecting |-> FALSE, upgrading |-> FALSE,
               secure |-> setup.secure /\ setup.role \in {"server", "client"},
               starter |-> "none", starters |-> <<>>,
               buffer |-> <<>>, headed |-> FALSE, waiting |-> FALSE,
               tls |-> "idle", handshaking |-> FALSE,
               inbox |-> <<>>, restored |-> <<>>, edge |-> FALSE,
               writes |-> FALSE, wready |-> FALSE, flush |-> FALSE,
               out |-> <<>>, sent |-> <<>>, told |-> <<>>, connects |-> 0]

\* F of x, evaluated once
Apply(F(_), x) == CHOOSE r \in {F(y) : y \in {x}} : TRUE

-----------------------------------------------------------------------------
(* Sending.                                                                *)

Shut(c) == IF c.status = "closed" THEN c
           ELSE [c EXCEPT !.status = "closed", !.connecting = FALSE,
                          !.upgrading = FALSE, !.wready = FALSE, !.out = <<>>,
                          !.restored = <<>>, !.writes = FALSE, !.edge = FALSE]

\* ensure_write() and remove_write(), for which epoll does nothing
EnsureWrites(c) ==
    IF c.status = "open" THEN [c EXCEPT !.writes = ~setup.edge] ELSE c

RemoveWrites(c) == [c EXCEPT !.writes = FALSE]

\* send(): at once, ahead of the connect, or in the next tick
Says(c, m) ==
    LET d == [c EXCEPT !.out = Append(@, m)]
    IN  IF d.wready THEN [d EXCEPT !.flush = TRUE] ELSE EnsureWrites(d)

-----------------------------------------------------------------------------
(* The handshake of TLS, as the library does it: what it waits for is read *)
(* from the socket, whatever it is.                                        *)

RECURSIVE Progress(_)
Progress(c) ==
    LET client == setup.role \in {"client", "upgrader"}
        next == IF client THEN "flight"
                ELSE IF c.tls = "idle" THEN "hello" ELSE "finish"
        after == IF ~client /\ c.tls = "idle" THEN "half" ELSE "ready"
    IN  IF c.tls \in {"ready", "broken"} THEN c
        ELSE IF client /\ c.tls = "idle"
        THEN Apply(Progress, [c EXCEPT !.tls = "half"])
        ELSE IF c.inbox = <<>> THEN c
        ELSE IF Head(c.inbox) # next THEN [c EXCEPT !.tls = "broken"]
        ELSE Apply(Progress, [c EXCEPT !.tls = after, !.inbox = Tail(@)])

\* on_connect(), once the handshake, if there is one, is done
OnConnect(c) ==
    [RemoveWrites(c) EXCEPT !.connecting = FALSE, !.connects = @ + 1]

\* on_ssl()
OnSsl(c) == IF c.connecting THEN OnConnect(c)
            ELSE [c EXCEPT !.upgrading = FALSE]

\* _ssl_handshake(): what it can not do yet unsubscribes the socket for writes
Handshake(c) ==
    LET d == Apply(Progress, [c EXCEPT !.handshaking = TRUE])
    IN  CASE d.tls = "ready" ->
               OnSsl([d EXCEPT !.handshaking = FALSE, !.starter = "none"])
          [] d.tls = "broken" -> Shut(d)
          [] OTHER -> RemoveWrites(d)

-----------------------------------------------------------------------------
(* The header.  One that is not valid raises, which closes.                *)

Introduced(c) ==
    IF setup.header = "valid"
    THEN [c EXCEPT !.waiting = FALSE, !.starter = "none", !.buffer = <<>>]
    ELSE Shut(c)

\* what one read takes of the socket, from which nothing is restored yet; its
\* end is read alone
Received(c, most) ==
    LET data == SelectSeq(c.inbox, LAMBDA unit : unit # "eof")
    IN  SubSeq(data, 1, IF Len(data) < most THEN Len(data) ELSE most)

Left(c, data) == SubSeq(c.inbox, Len(data) + 1, Len(c.inbox))

\* mutant of Extra: the end of the line is not counted
ExtraLine(data, end, before) == SubSeq(data, end - before, Len(data))

\* what was read behind the line, whose end begins at `end` of the buffer, and
\* of which `before` were read before
Extra(data, end, before) == SubSeq(data, end - before + 2, Len(data))

\* _proxy_handshake_v1(): under TLS units are read one by one, for what comes
\* behind can not be restored to it
RECURSIVE HeaderV1(_)
HeaderV1(c) ==
    LET most == IF c.secure THEN 1 ELSE Least
        data == Received(c, most)
        all == c.buffer \o data
        d == [c EXCEPT !.inbox = Left(c, data), !.buffer = all]
        ends == {i \in 1 .. Len(all) - 1 :
                     all[i] = "cr" /\ all[i + 1] = "lf"}
    IN  IF c.inbox = <<>> THEN c
        ELSE IF Head(c.inbox) = "eof" THEN Shut(c)
        ELSE IF ends = {} THEN HeaderV1(d)
        ELSE LET end == CHOOSE i \in ends : TRUE
             IN  Introduced([d EXCEPT !.restored =
                                 Extra(data, end, Len(c.buffer))])

\* _proxy_handshake_v2(): the head, then the body it gives the size of, where
\* _read_safe() answers an empty body as it answers none: it waits for ever
RECURSIVE HeaderV2(_)
HeaderV2(c) ==
    LET size == IF c.headed /\ setup.header = "empty" THEN 0 ELSE 2
        data == Received(c, size - Len(c.buffer))
        d == [c EXCEPT !.inbox = Left(c, data), !.buffer = @ \o data]
    IN  IF size = 0 \/ c.inbox = <<>> THEN c
        ELSE IF Head(c.inbox) = "eof" THEN Shut(c)
        ELSE IF Len(d.buffer) < size THEN HeaderV2(d)
        ELSE IF c.headed THEN Introduced(d)
        ELSE IF setup.header = "head" THEN Shut(d)
        ELSE HeaderV2([d EXCEPT !.headed = TRUE, !.buffer = <<>>])

\* run_starter(): each of them until one has not ended
RECURSIVE RunStarter(_)
RunStarter(c) ==
    IF c.status = "closed" \/ (c.starter = "none" /\ c.starters = <<>>) THEN c
    ELSE LET d == IF c.starter # "none" THEN c
                  ELSE [c EXCEPT !.starter = Head(c.starters),
                                 !.starters = Tail(@)]
             e == CASE d.starter = "v1" -> Apply(HeaderV1, d)
                    [] d.starter = "v2" -> Apply(HeaderV2, d)
                    [] d.starter = "tls" -> Apply(Handshake, d)
         IN  IF e.starter = "none" THEN Apply(RunStarter, e) ELSE e

AddStarter(c, starter) == [c EXCEPT !.starters = Append(@, starter)]

\* upgrade(): the socket is another, registered anew
Upgrade(c) ==
    IF c.secure THEN c ELSE
    Apply(RunStarter,
          AddStarter([c EXCEPT !.secure = TRUE, !.upgrading = TRUE,
                                    !.writes = FALSE, !.edge = setup.edge],
                     "tls"))

-----------------------------------------------------------------------------
(* What the loop calls.                                                    *)

\* _connectf()
ConnectF(c) ==
    IF c.handshaking THEN c
    ELSE IF c.refused THEN Shut(c)
    ELSE Apply(RunStarter,
               IF c.secure THEN AddStarter(c, "tls") ELSE OnConnect(c))

\* _send(): nothing while it connects; the message "go" has the upgrade for
\* its callback
RECURSIVE SendOut(_)
SendOut(c) ==
    LET d == IF c.secure THEN Apply(Progress, c) ELSE c
        e == [d EXCEPT !.out = Tail(@), !.sent = Append(@, Head(d.out))]
    IN  IF c.status # "open" THEN c
        ELSE IF c.out = <<>> THEN RemoveWrites(c)
        ELSE IF d.secure /\ d.tls = "broken" THEN Shut(d)
        ELSE IF d.secure /\ d.tls # "ready"
        THEN EnsureWrites([d EXCEPT !.wready = FALSE])
        ELSE Apply(SendOut, IF Head(d.out) = "go" THEN Upgrade(e) ELSE e)

WriteReady(c) ==
    LET d == IF c.status = "open" /\ c.connecting THEN ConnectF(c) ELSE c
        send(x) == IF x.status # "open" THEN x
                   ELSE IF x.connecting THEN [x EXCEPT !.wready = TRUE]
                   ELSE SendOut([x EXCEPT !.wready = TRUE])
    IN  Apply(send, d)

\* what the user does with a unit of data
OnData(c, unit) ==
    LET d == [c EXCEPT !.told = Append(@, unit)]
    IN  CASE unit = "starttls" -> Says(d, "go")
          [] unit = "go" -> Upgrade(d)
          [] OTHER -> d

\* the reads of on_read(), what was restored first, until there is nothing
\* more, or the socket is another
RECURSIVE ReadAll(_)
ReadAll(c) ==
    LET unit == IF c.restored # <<>> THEN Head(c.restored) ELSE Head(c.inbox)
        d == IF c.restored # <<>> THEN [c EXCEPT !.restored = Tail(@)]
             ELSE [c EXCEPT !.inbox = Tail(@)]
        e == Apply(LAMBDA x : OnData(x, unit), d)
    IN  IF c.restored = <<>> /\ c.inbox = <<>> THEN c
        ELSE IF unit = "eof" THEN Shut(c)
        ELSE IF e.status # "open" \/ e.secure # c.secure THEN e
        ELSE Apply(ReadAll, e)

ReadReady(c) ==
    LET d == Apply(RunStarter, IF c.connecting THEN ConnectF(c) ELSE c)
        read(x) == IF x.status # "open" \/ x.starter # "none" THEN x
                   ELSE ReadAll(x)
    IN  IF c.status # "open" THEN c ELSE Apply(read, d)

-----------------------------------------------------------------------------
Started(c) == link' = c /\ UNCHANGED <<setup, peer>>

\* mutant of ReadRest: the poll is left to tell of it
ReadRestNot(c) == c

\* what was read behind the header is read now: the poll knows nothing of it
ReadRest(c) == IF c.restored # <<>> THEN ReadReady(c) ELSE c

\* on_socket_c(): the middleware hears of the connection when it is opened,
\* before the handshake is added
AcceptPeer ==
    /\ link.status = "pending" /\ setup.role # "client"
    /\ LET opened == [link EXCEPT !.status = "open", !.edge = setup.edge]
           greeted == IF setup.ahead THEN Says(opened, "m") ELSE opened
           headed == IF setup.proxy = 0 THEN greeted
                     ELSE [AddStarter(greeted, IF setup.proxy = 1
                                               THEN "v1" ELSE "v2")
                               EXCEPT !.waiting = TRUE]
           c == RunStarter(IF headed.secure THEN AddStarter(headed, "tls")
                                            ELSE headed)
       IN  Started(Apply(ReadRest, c))

\* connect(), after which the user may write ahead
WriteAhead ==
    /\ link.status = "pending" /\ setup.role = "client" /\ setup.ahead
    /\ link.out = <<>>
    /\ Started(Says(link, "m"))

\* _connect(), which may be done at once
ConnectPeer(now) ==
    /\ link.status = "pending" /\ setup.role = "client"
    /\ setup.ahead => link.out # <<>>
    /\ LET c == EnsureWrites([link EXCEPT !.status = "open", !.up = now,
                                          !.connecting = TRUE,
                                          !.edge = setup.edge /\ now])
       IN  Started(IF now THEN ConnectF(c) ELSE c)

\* the kernel ends the connect
Settle(refused) ==
    /\ link.status = "open" /\ ~link.up
    /\ Started([link EXCEPT !.up = TRUE, !.refused = refused,
                            !.edge = setup.edge])

\* the events of one poll, on_read() before on_write(), the latter for the
\* socket it was polled for
PollOnce ==
    /\ link.status = "open" /\ link.up
    /\ LET read == link.inbox # <<>> \/ link.refused
           write == setup.edge \/ link.writes
           event == IF setup.edge THEN link.edge ELSE read \/ write
           c == [link EXCEPT !.edge = FALSE]
           d == IF read THEN Apply(ReadReady, c) ELSE c
       IN  /\ event
           /\ Started(Apply(LAMBDA x : IF write /\ x.secure = link.secure
                                      THEN WriteReady(x) ELSE x, d))

FlushOnce ==
    /\ link.flush
    /\ Started(WriteReady([link EXCEPT !.flush = FALSE]))

\* _proxy_timeout()
ProxyTimeout ==
    /\ link.status = "open" /\ link.waiting
    /\ Started(Shut(link))

\* The peer sends the next unit, once it has what it waits for: the other side
\* of a handshake, or the answer to its command.
PeerSends ==
    LET unit == Script[peer.at + 1]
    IN  /\ link.up /\ ~link.refused /\ link.status # "closed" /\ ~peer.gone
        /\ peer.at < Len(Script)
        /\ unit \in {"finish", "flight"} => link.tls = "half"
        /\ unit = "hello" /\ setup.role = "starttls" =>
               "go" \in {link.sent[i] : i \in DOMAIN link.sent}
        /\ unit = "d1" /\ setup.secure /\ setup.role \in {"client", "upgrader"}
               => link.tls = "ready"
        /\ peer' = [peer EXCEPT !.at = @ + 1]
        /\ link' = [link EXCEPT !.inbox = Append(@, unit), !.edge = setup.edge]
        /\ UNCHANGED setup

PeerCloses ==
    /\ link.up /\ ~link.refused /\ link.status # "closed" /\ ~peer.gone
    /\ peer' = [peer EXCEPT !.gone = TRUE]
    /\ link' = [link EXCEPT !.inbox = Append(@, "eof"), !.edge = setup.edge]
    /\ UNCHANGED setup

StarterNext ==
    \/ AcceptPeer
    \/ WriteAhead
    \/ \E now \in BOOLEAN : ConnectPeer(now)
    \/ \E refused \in BOOLEAN : Settle(refused)
    \/ PollOnce
    \/ FlushOnce
    \/ ProxyTimeout
    \/ PeerSends
    \/ PeerCloses

-----------------------------------------------------------------------------
(* Properties.                                                             *)

\* The user is told the data of the peer in its order, none of it lost, twice
\* or taken by a starter, none before the header and the handshake are done,
\* and that a client is connected once (run_starter(), restore()).
StarterSafety ==
    /\ IsPrefix(link.told, PeerData)
    /\ link.told # <<>> => ~link.waiting
    /\ setup.secure /\ "d1" \in {link.told[i] : i \in DOMAIN link.told} =>
           link.tls = "ready" /\ ~link.connecting /\ ~link.upgrading
    /\ link.connects <= 1
    /\ Len(link.starters) <= 1 /\ (link.handshaking => link.starters = <<>>)
    /\ link.tls = "broken" => link.status = "closed"

\* What is sent, ahead of the connect or before the handshake too, leaves, if
\* the connection stays and its peer plays its part: "useful for client
\* connections wanting to write ahead" (send()).
AheadSent ==
    (link.out # <<>>) ~>
        link.out = <<>> \/ ~link.up \/ peer.at < Len(Script)

\* What the peer sent is told, and what is sent leaves, or the connection
\* closes, which one that does not complete its header always does (on_read(),
\* _proxy_timeout()).
Waits ==
    /\ link.status # "closed"
    /\ \/ peer.at = Len(Script) /\ link.told # PeerData
       \/ peer.at = Len(Script) /\ link.out # <<>> /\ link.up
       \/ link.waiting
EventuallyThrough == Waits ~> ~Waits
=============================================================================
