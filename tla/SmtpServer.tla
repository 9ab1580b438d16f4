----------------------------- MODULE SmtpServer -----------------------------
(***************************************************************************)
(* A connection of netius.servers.smtp, whose server relays what is not    *)
(* local (netius.extra.smtp_r).  The client sends one line at a time and   *)
(* waits for the answer.  The contents of a message are units: "text", and *)
(* the two halves of the line with the dot that ends them, which may come  *)
(* in any chunks.                                                          *)
(***************************************************************************)
EXTENDS Integers, FiniteSets, Sequences, SequencesExt

CONSTANTS Addresses, Locals,  \* recipients, and those whose domain is local
          MaxText,            \* bound: units of text of a message
          MaxMessages,        \* bound: messages
          MaxUpgrades         \* bound: STARTTLS

ASSUME SmtpServerAssumption ==
    Locals \subseteq Addresses /\ IsFiniteSet(Addresses) /\ MaxText \in Nat

VARIABLES
    server,   \* the connection, see ServerInit
    boxes,    \* the values of the adapter, one for each reserve()
    relayed,  \* calls of relay() that made a message: number and recipients
    acks,     \* the answers to messages: recipients, keys, number
    sending   \* of the client: number of the message, its recipients, contents
              \* to send

serverVars == <<server, boxes, relayed, acks, sending>>

End == <<"dot", "end">>

ServerInit ==
    /\ server = [status |-> "open", state |-> "HELO", user |-> FALSE, to |-> {},
                 keys |-> {}, remotes |-> {}, relay |-> <<>>, previous |-> <<>>,
                 upgrades |-> 0]
    /\ boxes = <<>> /\ relayed = <<>> /\ acks = <<>>
    /\ sending = [number |-> 0, to |-> {}, contents |-> <<>>]

\* a line of the client is looked at in these states
Lines == server.status = "open" /\ server.state \in {"HELO", "HEADER"}
Closing == [server EXCEPT !.status = "closed"]
Quiet == UNCHANGED <<boxes, relayed, acks, sending>>
-----------------------------------------------------------------------------
\* helo() and ehlo(), assert_s()
OnHelo ==
    /\ Lines /\ Quiet
    /\ server' = IF server.state = "HELO"
                 THEN [server EXCEPT !.state = "HEADER"] ELSE Closing

\* starttls(): nothing else of the connection changes
OnStarttls ==
    /\ Lines /\ Quiet /\ server.upgrades < MaxUpgrades
    /\ server' = [server EXCEPT !.state = "HELO", !.upgrades = @ + 1]

\* auth_plain() with the right or the wrong password
OnAuthPlain ==
    /\ Lines /\ Quiet
    /\ server' \in {Closing, [server EXCEPT !.user = TRUE, !.state = "HEADER"]}

\* auth_login(), with or without the name
OnAuthLogin ==
    /\ Lines /\ Quiet
    /\ server' \in {[server EXCEPT !.state = "USERNAME"],
                    [server EXCEPT !.state = "PASSWORD"]}

OnUsername ==
    /\ server.status = "open" /\ server.state = "USERNAME" /\ Quiet
    /\ server' = [server EXCEPT !.state = "PASSWORD"]

OnPassword ==
    /\ server.status = "open" /\ server.state = "PASSWORD" /\ Quiet
    /\ server' \in {Closing, [server EXCEPT !.user = TRUE, !.state = "HEADER"]}

\* on_mail(): reset_message()
OnMail ==
    /\ Lines /\ sending' = [sending EXCEPT !.to = {}]
    /\ server' = [server EXCEPT !.to = {}, !.previous = <<>>]
    /\ UNCHANGED <<boxes, relayed, acks>>

\* on_rcpt(); the client names each once
OnRcpt(a) ==
    /\ Lines /\ a \notin sending.to
    /\ sending' = [sending EXCEPT !.to = @ \cup {a}]
    /\ server' = [server EXCEPT !.to = @ \cup {a}]
    /\ UNCHANGED <<boxes, relayed, acks>>

\* data(): on_header_smtp() of the server, and of the relay.  The client begins
\* to send when it is told so.
OnData ==
    /\ Lines
    /\ UNCHANGED <<relayed, acks>>
    /\ IF server.state # "HEADER"
       THEN server' = Closing /\ UNCHANGED <<boxes, sending>>
       ELSE /\ sending.number < MaxMessages
            /\ \E n \in 0 .. MaxText :
                  sending' = [sending EXCEPT !.number = @ + 1,
                      !.contents = [i \in 1 .. n |-> "text"] \o End]
            /\ \E owners \in {SetToSeq(server.to \cap Locals)} :
                  /\ boxes' = boxes \o [i \in DOMAIN owners |->
                        [owner |-> owners[i], number |-> sending'.number,
                         data |-> <<>>]]
                  /\ server' = [server EXCEPT !.state = "DATA",
                        !.keys = Len(boxes) + 1 .. Len(boxes) + Len(owners),
                        !.remotes = server.to \ Locals,
                        !.relay = <<>>, !.previous = <<>>]

\* append() of the adapter for each key, and what truncate() leaves
Appended(chunk) ==
    [i \in DOMAIN boxes |-> IF i \in server.keys
        THEN [boxes[i] EXCEPT !.data = @ \o chunk] ELSE boxes[i]]
Truncated(values) ==
    [i \in DOMAIN values |-> IF i \in server.keys
        THEN [values[i] EXCEPT !.data = SubSeq(@, 1, Len(@) - Len(End))]
        ELSE values[i]]

\* the end of the contents is the last of what came, of this chunk or partly of
\* the one before it
Terminated(chunk) ==
    LET s == server.previous \o chunk
    IN  Len(s) >= 2 /\ SubSeq(s, Len(s) - 1, Len(s)) = End

Ack == [to |-> sending.to, keys |-> server.keys, number |-> sending.number]

\* relay(): the client of another connection sends the message, with headers of
\* this server, for an authenticated user
Relay(to, contents) ==
    /\ server.user
    /\ relayed' = Append(relayed, [to |-> to, number |-> sending.number,
                                  data |-> contents])

\* queued(): what is for others is relayed, if relay() takes it; if not, as the
\* address may not be one of the user, the error closes the connection without
\* an answer, and what is local stays.
Queued(relay) ==
    \/ /\ server.remotes # {} /\ server' = Closing
       /\ UNCHANGED <<relayed, acks>>
    \/ /\ IF server.remotes = {} THEN UNCHANGED relayed
          ELSE Relay(server.remotes, SubSeq(relay, 1, Len(relay) - Len(End)))
       /\ server' = [server EXCEPT !.state = "HEADER"]
       /\ acks' = Append(acks, Ack)

\* on_raw_data() of the first n units that remain
OnRawData(n) ==
    LET chunk == SubSeq(sending.contents, 1, n)
        relay == server.relay \o chunk
    IN  /\ server.status = "open" /\ server.state = "DATA"
        /\ n <= Len(sending.contents)
        /\ sending' = [sending EXCEPT !.contents = SubSeq(@, n + 1, Len(@))]
        /\ \/ /\ ~Terminated(chunk)
              /\ boxes' = Appended(chunk)
              /\ server' = [server EXCEPT !.previous = @ \o chunk, !.relay = relay]
              /\ UNCHANGED <<relayed, acks>>
           \/ /\ Terminated(chunk)
              /\ boxes' = Truncated(Appended(chunk))
              /\ Queued(relay)

\* on_quit(), a line that is not known, or the client goes at any time
Leave ==
    /\ server.status = "open" /\ server' = Closing /\ Quiet

ServerNext ==
    \/ OnHelo \/ OnStarttls \/ OnAuthPlain \/ OnAuthLogin
    \/ OnUsername \/ OnPassword
    \/ OnMail \/ \E a \in Addresses : OnRcpt(a)
    \/ OnData \/ \E n \in 1 .. MaxText + Len(End) : OnRawData(n)
    \/ Leave
-----------------------------------------------------------------------------
(* Properties.                                                             *)

Text(s) == ToSet(s) \subseteq {"text"}

PartialIsLast ==
    \A k \in DOMAIN boxes :
        \/ \E i \in DOMAIN acks : acks[i].number = boxes[k].number
        \/ /\ boxes[k].number = sending.number
           /\ server.state = "DATA"

\* A message that is acknowledged is in one value for each local recipient,
\* whole and without the line that ends it, and is relayed once if it has
\* others, however its contents were cut.  A value that is not of an acknowledged
\* message is of the last one, that is being received or whose connection closed.
Acknowledged ==
    /\ PartialIsLast
    /\ \A i \in DOMAIN acks :
           LET own == {k \in DOMAIN boxes : boxes[k].number = acks[i].number}
               away == {r \in DOMAIN relayed : relayed[r].number = acks[i].number}
           IN  /\ own = acks[i].keys
               /\ {boxes[k].owner : k \in own} = acks[i].to \cap Locals
               /\ \A k, m \in own : /\ Text(boxes[k].data)
                                    /\ boxes[k].data = boxes[m].data
                                    /\ boxes[k].owner = boxes[m].owner => k = m
               /\ \A r \in away : /\ relayed[r].to = acks[i].to \ Locals
                                  /\ Text(relayed[r].data)
               /\ (away # {}) = (acks[i].to \ Locals # {})
               /\ \A r, s \in away : r = s

\* Contents are never taken for lines, nor lines for contents: the client and
\* the server agree where the message ends.
EndsTogether ==
    server.status = "open" =>
        ((server.state = "DATA") = (sending.contents # <<>>))

\* What is acknowledged is what was sent, and stored or relayed.
MailboxSafety == Acknowledged /\ EndsTogether
=============================================================================
