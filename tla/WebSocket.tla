------------------------------ MODULE WebSocket ------------------------------
(***************************************************************************)
(* A client (clients/ws.py) and a server (servers/ws.py) of WebSocket over *)
(* two streams of bytes, that are read cut anywhere: the handshake, and    *)
(* then frames (common/ws.py), masked from the client, not masked from the *)
(* server.  A unit stands for a part of the handshake, the head of a frame *)
(* or a part of a payload.                                                 *)
(***************************************************************************)
EXTENDS Integers, SequencesExt

CONSTANTS
    Payloads,       \* the lengths of messages
    MaxMessages     \* how many each side sends

ASSUME WebSocketAssumption == Payloads \subseteq Nat /\ MaxMessages \in Nat

Sides == {"server", "client"}
OtherSide(e) == IF e = "server" THEN "client" ELSE "server"

VARIABLES
    side,       \* each end: handshake, the buffer, messages sent and told
    channel,    \* what goes to each end
    mixed       \* if a read of the client had more than one frame

webSocketVars == <<side, channel, mixed>>

Hello == [kind |-> "hands", n |-> 0]
HelloEnd == [kind |-> "hands", n |-> 1]
Unit(m, i) == [kind |-> "data", n |-> i, of |-> m]

WebSocketInit ==
    /\ side = [e \in Sides |-> [handshake |-> FALSE, buffer |-> <<>>,
                                sent |-> <<>>, told |-> <<>>]]
    /\ channel = [e \in Sides |-> <<>>]
    /\ mixed = FALSE

-----------------------------------------------------------------------------
(* Frames.                                                                 *)

\* encode_ws(), of message m
EncodeWs(m, mask) ==
    <<[kind |-> "head", n |-> m.length, mask |-> mask]>>
    \o [i \in 1 .. m.length |-> Unit(m, i)]

\* if there is a frame in the data, which begins with a head
HasFrame(data) == Len(data) - 1 >= data[1].n

\* decode_ws(): what is decoded, and the rest.  Without a mask all that is there
\* is decoded
DecodeWs(data) ==
    LET end == IF data[1].mask THEN data[1].n + 1 ELSE Len(data)
    IN  [decoded |-> SubSeq(data, 2, end),
         data |-> SubSeq(data, end + 1, Len(data))]

-----------------------------------------------------------------------------
(* An end.                                                                 *)

\* do_handshake(), of what is in the buffer: what is left after it
AfterHandshake(data) ==
    SelectInSeq(data, LAMBDA u : u = HelloEnd)

\* on_data(): the loop over the data, the buffer included
RECURSIVE OnData(_, _)
OnData(s, data) ==
    IF data = <<>> THEN s
    ELSE IF ~s.handshake
    THEN LET all == s.buffer \o data
             at == AfterHandshake(all)
         IN  IF at = 0 THEN [s EXCEPT !.buffer = all]
             ELSE OnData([s EXCEPT !.handshake = TRUE, !.buffer = <<>>],
                         SubSeq(all, at + 1, Len(all)))
    ELSE LET all == s.buffer \o data
             left == [s EXCEPT !.buffer = <<>>]
         IN  IF ~HasFrame(all) THEN [left EXCEPT !.buffer = all]
             ELSE OnData([left EXCEPT !.told = Append(@, DecodeWs(all).decoded)],
                         DecodeWs(all).data)

\* connection_made() of the client
ConnectWs ==
    /\ channel["server"] = <<>> /\ side["server"].buffer = <<>>
    /\ ~side["server"].handshake
    /\ channel' = [channel EXCEPT !["server"] = <<Hello, HelloEnd>>]
    /\ UNCHANGED <<side, mixed>>

\* send_ws(), once the handshake is done
SendWs(e, l) ==
    /\ side[e].handshake /\ Len(side[e].sent) < MaxMessages
    /\ LET m == [by |-> e, n |-> Len(side[e].sent) + 1, length |-> l]
       IN  /\ side' = [side EXCEPT ![e].sent = Append(@, m)]
           /\ channel' = [channel EXCEPT ![OtherSide(e)] = @ \o EncodeWs(m, e = "client")]
    /\ UNCHANGED mixed

\* frames a read ends or goes through
Heads(s) == Cardinality({i \in 1 .. Len(s) : s[i].kind = "head"})

\* a read of i units: the server answers the handshake before it goes on.  What
\* the client makes of the frames after a mixed read is not followed
ReadWs(e, i) ==
    /\ e = "client" => ~mixed
    /\ LET s == OnData(side[e], SubSeq(channel[e], 1, i))
           answers == e = "server" /\ s.handshake /\ ~side[e].handshake
       IN  /\ side' = [side EXCEPT ![e] = s]
           /\ channel' = [channel EXCEPT ![e] = SubSeq(@, i + 1, Len(@)),
                                   ![OtherSide(e)] = IF answers THEN @ \o <<Hello, HelloEnd>>
                                                 ELSE @]
           /\ mixed' = (mixed \/ (e = "client" /\
                   Heads(side[e].buffer \o SubSeq(channel[e], 1, i)) > 1))

WebSocketNext ==
    \/ ConnectWs
    \/ \E e \in Sides :
           \/ \E l \in Payloads : SendWs(e, l)
           \/ \E i \in 1 .. Len(channel[e]) : ReadWs(e, i)

-----------------------------------------------------------------------------
(* Properties.                                                             *)

Contents(messages) ==
    [k \in 1 .. Len(messages) |->
        [i \in 1 .. messages[k].length |-> Unit(messages[k], i)]]

\* the messages told are the first of those sent, whole and one by one, as
\* long as the client takes each frame by itself, or in parts
MessagesWhole ==
    \A e \in Sides :
        \/ e = "client" /\ mixed
        \/ IsPrefix(side[e].told, Contents(side[OtherSide(e)].sent))

\* nothing stays in a buffer when there is nothing to come
MessagesTold ==
    \A e \in Sides :
        channel[e] = <<>> /\ (e = "client" => ~mixed) /\ side[e].handshake =>
            /\ Len(side[e].told) = Len(side[OtherSide(e)].sent)
            /\ side[e].buffer = <<>>

WebSocketSafety ==
    /\ \A e \in Sides : Len(side[e].told) <= MaxMessages /\ mixed \in BOOLEAN
    /\ MessagesWhole /\ MessagesTold
=============================================================================
