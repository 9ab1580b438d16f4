-------------------------------- MODULE Dns --------------------------------
(***************************************************************************)
(* The messages of the DNS client (clients/dns.py): a question is written, *)
(* and the answer of a server is read, in which a name may end in a        *)
(* pointer to where the rest of it was written before.                     *)
(***************************************************************************)
EXTENDS Integers, SequencesExt

CONSTANTS
    Names,          \* the names, sequences of labels, which are bytes
    Addresses4,     \* the addresses, four bytes
    MaxAnswers      \* bound: how many answers a response has

ASSUME DnsAssumption == MaxAnswers \in Nat

\* message: what is on its way; known: where the names in it are;
\* answers: what the server means; read: what the client makes of it
VARIABLE dns
dnsVars == <<dns>>

Header == [i \in 1 .. 12 |-> 0]
PointerBits == 192
DnsTypes == [A |-> 1, CNAME |-> 5, MX |-> 15, TXT |-> 16]

NoMessage == [message |-> <<>>, known |-> {}, question |-> <<>>, answers |-> <<>>,
            stage |-> "none", read |-> <<>>, raised |-> FALSE]
DnsInit == dns = NoMessage

Short(n) == <<n \div 256, n % 256>>

-----------------------------------------------------------------------------
(* What is written.                                                        *)

\* _label(), of the first labels of a name
Label(labels) == FlattenSeq([i \in 1 .. Len(labels) |-> <<Len(labels[i])>> \o labels[i]])

\* where each end of a name is, when it is written at an offset, which counts from 0
Ends(name, n, at) ==
    {[at |-> at + Len(Label(SubSeq(name, 1, i))), name |-> SubSeq(name, i + 1, Len(name))]
        : i \in 0 .. n - 1}

\* the ways to write a name at an offset: as it is, or up to a pointer
Written(name, at) ==
    {[bytes |-> Label(name) \o <<0>>, known |-> Ends(name, Len(name), at)]} \cup
    {[bytes |-> Label(SubSeq(name, 1, i)) \o <<PointerBits + k.at \div 256, k.at % 256>>,
      known |-> Ends(name, i, at)]
        : <<i, k>> \in {p \in (0 .. Len(name) - 1) \X dns.known :
                            p[2].name = SubSeq(name, p[1] + 1, Len(name))}}

\* query() and request(), whose question the response repeats
AskQuery(name) ==
    /\ dns.stage = "none"
    /\ dns' = [NoMessage EXCEPT
                  !.stage = "asked", !.question = name,
                  !.message = Header \o Label(name) \o <<0>> \o Short(DnsTypes.A) \o Short(1),
                  !.known = Ends(name, Len(name), 12)]

\* an answer of the server: its name, ten bytes, and what it says
Answer(name, type, payload) ==
    /\ dns.stage = "asked" /\ Len(dns.answers) < MaxAnswers
    /\ \E w \in Written(name, Len(dns.message)) :
           LET head == w.bytes \o Short(DnsTypes[type]) \o Short(1) \o <<0, 0, 1, 44>>
               at == Len(dns.message) + Len(head) + 2 + IF type = "MX" THEN 2 ELSE 0
               Ending(bytes, known) ==
                   dns' = [dns EXCEPT
                       !.message = @ \o head \o Short(Len(bytes)) \o bytes,
                       !.known = @ \cup w.known \cup known,
                       !.answers = Append(@, [name |-> name, type |-> type, ttl |-> 300,
                                              payload |-> payload])]
           IN  \/ type \in {"A", "TXT"} /\ Ending(payload[1], {})
               \/ /\ type \in {"CNAME", "MX"}
                  /\ \E v \in Written(payload, at) :
                         Ending((IF type = "MX" THEN Short(10) ELSE <<>>) \o v.bytes, v.known)

-----------------------------------------------------------------------------
(* What is read: an index, from 0, and what was found before it.           *)

At(index) == dns.message[index + 1]
Found(index, value) == [index |-> index, value |-> value]

\* parse_label() and parse_pointer()
RECURSIVE ParseLabel(_)
ParseLabel(index) ==
    CASE At(index) = 0 -> Found(index + 1, <<>>)
      [] At(index) >= 64 ->
            Found(index + 2, ParseLabel((At(index) * 256 + At(index + 1)) % 16384).value)
      [] At(index) \in 1 .. 63 ->
            LET rest == ParseLabel(index + At(index) + 1)
                first == <<SubSeq(dns.message, index + 2, index + At(index) + 1)>>
            IN  Found(rest.index, first \o rest.value)

ParseShort(index) == Found(index + 2, At(index) * 256 + At(index + 1))
ParseLong(index) ==
    Found(index + 4, ParseShort(index).value * 65536 + ParseShort(index + 2).value)

\* parse_ip4(), with addr_to_ip4()
ParseIp4(index) ==
    LET n == ParseLong(index).value
    IN  Found(index + 4, <<(n \div 16777216) % 256, (n \div 65536) % 256,
                           (n \div 256) % 256, n % 256>>)

\* parse_payload(): there is no method for the other types
Raises(type) == type \notin {DnsTypes.A, DnsTypes.CNAME, DnsTypes.MX}
ParsePayload(type, index) ==
    CASE type = DnsTypes.A -> Found(index + 4, <<ParseIp4(index).value>>)
      [] type = DnsTypes.CNAME -> ParseLabel(index)
      [] type = DnsTypes.MX -> ParseLabel(index + 2)

TypeOf(type) == CHOOSE t \in DOMAIN DnsTypes : DnsTypes[t] = type

\* parse_qd(): name, type and class of the question
ParseQd(index) == Found(ParseLabel(index).index + 4, ParseLabel(index).value)

\* parse_an(), up to the payload
ParseHead(index) ==
    LET name == ParseLabel(index)
    IN  [name |-> name.value, type |-> ParseShort(name.index).value,
         ttl |-> ParseLong(name.index + 4).value, index |-> name.index + 10]

\* parse(): the answers, one after the other
ParseAn ==
    /\ dns.stage = "reading" /\ ~dns.raised /\ Len(dns.read) < Len(dns.answers)
    /\ LET index == IF dns.read = <<>> THEN ParseQd(12).index ELSE Last(dns.read).index
           head == ParseHead(index)
           payload == ParsePayload(head.type, head.index)
       IN  dns' = IF Raises(head.type) THEN [dns EXCEPT !.raised = TRUE]
                  ELSE [dns EXCEPT !.read = Append(@,
                           [name |-> head.name, type |-> TypeOf(head.type), ttl |-> head.ttl,
                            payload |-> payload.value, index |-> payload.index])]

\* the response comes
OnDataDns == dns.stage = "asked" /\ dns' = [dns EXCEPT !.stage = "reading"]

DnsNext ==
    \/ OnDataDns \/ ParseAn
    \/ \E name \in Names :
           \/ AskQuery(name)
           \/ \E a \in Addresses4, type \in {"A", "TXT"} : Answer(name, type, <<a>>)
           \/ \E other \in Names, type \in {"CNAME", "MX"} : Answer(name, type, other)

-----------------------------------------------------------------------------
(* Properties.                                                             *)

\* what is read is what was meant, however it was written, and nothing is left
\* over; an answer of a type nothing reads ends the response
DnsSafety ==
    /\ dns.stage = "reading" => ParseQd(12).value = dns.question
    /\ \A i \in 1 .. Len(dns.read) :
           LET a == dns.answers[i]  r == dns.read[i]
           IN  /\ <<r.name, r.type, r.ttl>> = <<a.name, a.type, a.ttl>>
               /\ r.payload = a.payload
    /\ dns.raised => dns.answers[Len(dns.read) + 1].type = "TXT"
    /\ dns.read # <<>> /\ Len(dns.read) = Len(dns.answers) =>
           Last(dns.read).index = Len(dns.message)
=============================================================================
