-------------------------------- MODULE Tftp --------------------------------
(***************************************************************************)
(* The TFTP server (servers/tftp.py) on the sending queue of a datagram    *)
(* server (base/server.py), and clients as RFC 1350 has them, which take   *)
(* the blocks in order and may ask, or acknowledge, again.  Datagrams may  *)
(* be lost, come twice and in any order.                                   *)
(***************************************************************************)
EXTENDS Integers, Sequences, SequencesExt

CONSTANTS
    Addresses,      \* the clients
    Files,          \* how many blocks the files have; the last one is short
    MaxBlock,       \* the greatest number a block has: 65535
    MaxFaults       \* how many datagrams are lost, come again or are said again

ASSUME TftpAssumption ==
    /\ Files \subseteq Nat \ {0} /\ MaxBlock \in Nat \ {0} /\ MaxFaults \in Nat
    /\ "server" \notin Addresses

VARIABLES
    faults,     \* how many times a datagram was lost, came or was said again
    blocks,     \* the length of the file, 0 if there is none
    session,    \* what the server keeps of each address
    out,        \* the queue: pending, wready, the flush of the next tick, writes
    net,        \* the datagrams on their way
    peer        \* the clients

tftpVars == <<faults, blocks, session, out, net, peer>>

\* where the file is read, the number of the last block, if it was the last
NoSession == [at |-> 0, sequence |-> 0, completed |-> FALSE]

TftpInit ==
    /\ faults = 0
    /\ blocks \in Files \cup {0}
    /\ session = [a \in Addresses |-> NoSession]
    /\ out = [pending |-> <<>>, wready |-> TRUE, flush |-> FALSE, writes |-> TRUE]
    /\ net = {}
    /\ peer = [a \in Addresses |-> [at |-> "idle", got |-> 0]]

Fault(yes) ==
    /\ yes => faults < MaxFaults
    /\ faults' = IF yes THEN faults + 1 ELSE faults

-----------------------------------------------------------------------------
(* The queue of the server.                                                *)

\* send(): always in the next tick, or when the socket can be written
SendTo(d) ==
    out' = [out EXCEPT !.pending = Append(@, d),
                       !.flush = @ \/ out.wready,
                       !.writes = @ \/ ~out.wready]

\* mutant of SendPending: the writes are not subscribed
SendPendingOnce(i) ==
    /\ net' = net \cup {out.pending[k] : k \in 1 .. i}
    /\ out' = [pending |-> SubSeq(out.pending, i + 1, Len(out.pending)),
               wready |-> i = Len(out.pending), flush |-> FALSE, writes |-> FALSE]

\* _send(): the first i datagrams; the socket takes no more, or there is none
\* and the writes are unsubscribed
SendPending(i) ==
    /\ net' = net \cup {out.pending[k] : k \in 1 .. i}
    /\ out' = [pending |-> SubSeq(out.pending, i + 1, Len(out.pending)),
               wready |-> i = Len(out.pending), flush |-> FALSE,
               writes |-> i < Len(out.pending)]

\* _flush_write() of the tick
FlushDatagrams ==
    /\ out.flush
    /\ \E i \in 0 .. Len(out.pending) : SendPending(i)
    /\ UNCHANGED <<faults, blocks, session, peer>>

\* on_write() of the poll, which tells it once the socket takes more
OnWriteDatagrams ==
    /\ out.writes
    /\ \E i \in 0 .. Len(out.pending) :
           (out.pending # <<>> => i > 0) /\ SendPending(i)
    /\ UNCHANGED <<faults, blocks, session, peer>>

-----------------------------------------------------------------------------
(* The sessions.                                                           *)

Data(a, n, at) == [to |-> a, op |-> "data", block |-> n, part |-> at]
Error(a) == [to |-> a, op |-> "error"]

\* next(): the part of the file where it was, under the next number, which the
\* header may not have room for
NextBlock(s) ==
    [s EXCEPT !.at = @ + 1, !.sequence = @ + 1, !.completed = s.at + 1 = blocks]

\* response(), of a session that was named by a request
Response(a, s) ==
    IF s.completed THEN session' = [session EXCEPT ![a] = s] /\ UNCHANGED out
    ELSE IF blocks = 0
    THEN session' = [session EXCEPT ![a] = s] /\ SendTo(Error(a))
    ELSE /\ session' = [session EXCEPT ![a] = NextBlock(s)]
         /\ IF NextBlock(s).sequence > MaxBlock THEN SendTo(Error(a))
            ELSE SendTo(Data(a, NextBlock(s).sequence, NextBlock(s).at))

\* _parse_rrq(): the session begins again, with its file
ResetSession(s) == NoSession

\* on_data(): whatever block is acknowledged, the next one is sent
OnDatagram(a, op) ==
    LET s == session[a]
    IN  CASE op = "rrq" -> Response(a, ResetSession(s))
          [] op = "ack" /\ s.sequence = 0 -> UNCHANGED <<session, out>>
          [] op = "ack" /\ s.sequence # 0 -> Response(a, s)

\* on_read(): from the socket; a datagram may come again
OnReadDatagram(d, again) ==
    /\ d \in net /\ d.to = "server" /\ Fault(again)
    /\ OnDatagram(d.from, d.op)
    /\ net' = IF again THEN net ELSE net \ {d}
    /\ UNCHANGED <<blocks, peer>>

-----------------------------------------------------------------------------
(* The clients and the network.                                            *)

ReadRequest(a) == [to |-> "server", from |-> a, op |-> "rrq"]
Ack(a, n) == [to |-> "server", from |-> a, op |-> "ack", block |-> n]

Request(a) ==
    /\ peer[a].at = "idle"
    /\ peer' = [peer EXCEPT ![a] = [at |-> "get", got |-> @.got]]
    /\ net' = net \cup {ReadRequest(a)}
    /\ UNCHANGED <<faults, blocks, session, out>>

\* what it said last, once more
Repeat(a) ==
    /\ Fault(TRUE) /\ peer[a].at = "get"
    /\ net' = net \cup {IF peer[a].got = 0 THEN ReadRequest(a) ELSE Ack(a, peer[a].got)}
    /\ UNCHANGED <<blocks, session, out, peer>>

\* a block it does not expect is dropped
Receive(a, d, again) ==
    /\ d \in net /\ d.to = a /\ Fault(again)
    /\ IF peer[a].at = "get" /\ d.op = "data"
       THEN IF d.block = peer[a].got + 1
            THEN /\ peer' = [peer EXCEPT ![a] =
                                 [at |-> IF d.part = blocks THEN "done" ELSE "get",
                                  got |-> @.got + 1]]
                 /\ net' = (IF again THEN net ELSE net \ {d})
                           \cup {Ack(a, d.block)}
            ELSE UNCHANGED peer /\ net' = IF again THEN net ELSE net \ {d}
       ELSE /\ peer' = [peer EXCEPT ![a] =
                            [at |-> IF @.at = "get" THEN "failed" ELSE @.at,
                             got |-> @.got]]
            /\ net' = IF again THEN net ELSE net \ {d}
    /\ UNCHANGED <<blocks, session, out>>

Lose(d) ==
    /\ Fault(TRUE) /\ d \in net /\ net' = net \ {d}
    /\ UNCHANGED <<blocks, session, out, peer>>

TftpNext ==
    \/ FlushDatagrams \/ OnWriteDatagrams
    \/ \E d \in net : Lose(d) \/ \E again \in BOOLEAN :
           OnReadDatagram(d, again) \/ \E a \in Addresses : Receive(a, d, again)
    \/ \E a \in Addresses : Request(a) \/ Repeat(a)

TftpSpec == TftpInit /\ [][TftpNext]_tftpVars

-----------------------------------------------------------------------------
(* Properties.                                                             *)

\* a number is always that of the part of the file it comes with, so a client
\* that goes by the numbers has the file, whatever is lost or comes again
RightParts == \A d \in net \cup ToSet(out.pending) : d.op = "data" => d.block = d.part

\* what waits to be sent is sent: in the next tick, or when the socket can be
\* written, which the poll is asked to tell
WillSend == out.pending # <<>> => out.flush \/ (~out.wready /\ out.writes)

\* one who has the end of the file has all of it
WholeFile == \A a \in Addresses : peer[a].at = "done" => peer[a].got = blocks

\* where nothing is lost nobody waits for what does not come
NotStuck ==
    faults = 0 /\ net = {} /\ out.pending = <<>> =>
        \A a \in Addresses : peer[a].at # "get"

\* Files arrive whole over a network that loses, repeats and reorders, and none
\* waits for ever where it does not (servers/tftp.py).
TftpSafety ==
    /\ \A a \in Addresses : session[a].sequence \in 0 .. blocks
    /\ RightParts /\ WillSend /\ WholeFile /\ NotStuck
=============================================================================
