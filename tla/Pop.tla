--------------------------------- MODULE Pop ---------------------------------
(***************************************************************************)
(* Sessions of the POP server (servers/pop.py) over one mailbox of the     *)
(* adapter of files (adapters/fs.py).  A client asks for one thing at a    *)
(* time and waits for the whole answer; the sessions of a mailbox disturb  *)
(* each other, as what a session knows of it is what it last asked for.    *)
(* The data of a message is in chunks of CHUNK_SIZE.                       *)
(***************************************************************************)
EXTENDS Integers, FiniteSets, SequencesExt

CONSTANTS
    Sessions,
    Mails,           \* the messages
    Chunks,         \* [Mails -> Nat]: how many chunks a message has
    MaxLines        \* how many commands each session asks for once it is in

ASSUME PopAssumption ==
    IsFiniteSet(Mails) /\ Chunks \in [Mails -> Nat] /\ MaxLines \in Nat

VARIABLES
    mailbox,    \* the files of the owner
    pop,        \* the connections
    client      \* what each client asked for last, and what came since

popVars == <<mailbox, pop, client>>

\* what is sent: "ok", or "list" for lines, or the chunk of a message, or its end
Word(what) == [what |-> what, of |-> {}, part |-> 0]
Part(of, n) == [what |-> "chunk", of |-> of, part |-> n]

\* the message of a file that is read, a set, and how many chunks were
NoMessage == [of |-> {}, at |-> 0]

PopInit ==
    /\ mailbox = Mails
    /\ pop = [s \in Sessions |->
                 [status |-> "open", state |-> "helo", count |-> 0, keys |-> <<>>,
                  file |-> NoMessage,
                  queue |-> <<[said |-> Word("ok"), next |-> FALSE]>>]]
    /\ client = [s \in Sessions |-> [asked |-> "greeting", key |-> {}, got |-> <<>>,
                                     left |-> MaxLines]]

-----------------------------------------------------------------------------
(* The connection: functions of a record of pop.                           *)

\* send_pop() and send(); next says that the callback of retr() is given
Says(c, word, next) ==
    [c EXCEPT !.queue = Append(@, [said |-> word, next |-> next])]

\* close(), with what is sent before it or without
PopClosed(c) == [c EXCEPT !.status = "closed", !.file = NoMessage, !.queue = <<>>]
FlushClose(c) == [c EXCEPT !.status = "closing"]

\* mutant of ReadChunk: the file is not forgotten at its end
ReadChunkAgain(c) ==
    LET f == c.file
        more == \A k \in f.of : f.at < Chunks[k]
    IN  IF f.of = {} THEN c
        ELSE IF more
        THEN Says([c EXCEPT !.file = [of |-> f.of, at |-> f.at + 1]], Part(f.of, f.at + 1), TRUE)
        ELSE Says(c, Word("end"), FALSE)

\* the callback of retr(): one more chunk, or the end
ReadChunk(c) ==
    LET f == c.file
        more == \A k \in f.of : f.at < Chunks[k]
    IN  IF f.of = {} THEN c
        ELSE IF more
        THEN Says([c EXCEPT !.file = [of |-> f.of, at |-> f.at + 1]], Part(f.of, f.at + 1), TRUE)
        ELSE Says([c EXCEPT !.file = NoMessage], Word("end"), FALSE)

\* retr(): the callback goes with the answer, and is called at once as well
Retr(c, i) ==
    IF i > Len(c.keys) \/ c.keys[i] \notin mailbox THEN PopClosed(c)
    ELSE ReadChunk(Says([c EXCEPT !.file = [of |-> {c.keys[i]}, at |-> 0]],
                        Word("ok"), TRUE))

Listing == SetToSeqs(mailbox)

\* list(): the sizes are those of now, the count is that of stat()
ListSizes(c) ==
    IF c.count > Cardinality(mailbox) THEN PopClosed(c)
    ELSE Says(c, Word(IF c.count = 0 THEN "ok" ELSE "list"), FALSE)

\* uidl(): in the order the files come
ListKeys(c, order) ==
    LET d == [c EXCEPT !.keys = order]
    IN  IF c.count > Len(order) THEN PopClosed(d)
        ELSE Says(d, Word(IF c.count = 0 THEN "ok" ELSE "list"), FALSE)

\* capa(), auth() with a method and without, and the line of the token; capa()
\* is not for one who is in
Capa(c) == IF c.state = "helo" THEN Says(c, Word("list"), FALSE) ELSE PopClosed(c)

AcceptAuth(c) ==
    IF c.state = "helo" THEN Says([c EXCEPT !.state = "auth"], Word("ok"), FALSE)
    ELSE PopClosed(c)

OnUser(c, right) ==
    IF right THEN Says([c EXCEPT !.state = "session"], Word("ok"), FALSE)
    ELSE PopClosed(c)

-----------------------------------------------------------------------------
(* The lines of the client.                                                *)

ClientIdle(s) == client[s].asked = "nothing" /\ pop[s].status = "open"

\* the client asks, and the connection becomes c
Asks(s, what, key, c) ==
    /\ ClientIdle(s)
    /\ pop' = [pop EXCEPT ![s] = c]
    /\ client' = [client EXCEPT ![s] =
                     [asked |-> what, key |-> key, got |-> <<>>,
                      left |-> IF pop[s].state = "session" THEN @.left - 1 ELSE @.left]]

May(s) == pop[s].state = "session" /\ client[s].left > 0

OnCapa(s) == pop[s].state = "helo" /\ Asks(s, "list", {}, Capa(pop[s])) /\ UNCHANGED mailbox

OnAuth(s) ==
    /\ \/ pop[s].state = "helo" /\ Asks(s, "ok", {}, AcceptAuth(pop[s]))
       \/ /\ pop[s].state = "auth"
          /\ \E right \in BOOLEAN : Asks(s, "ok", {}, OnUser(pop[s], right))
    /\ UNCHANGED mailbox

OnStat(s) ==
    /\ May(s)
    /\ Asks(s, "ok", {}, Says([pop[s] EXCEPT !.count = Cardinality(mailbox)], Word("ok"), FALSE))
    /\ UNCHANGED mailbox

\* the client knows from the answer if there are lines
OnLists(s) ==
    /\ May(s) /\ UNCHANGED mailbox
    /\ LET answer == IF pop[s].count = 0 THEN "ok" ELSE "list"
       IN  \/ Asks(s, answer, {}, ListSizes(pop[s]))
           \/ \E order \in Listing : Asks(s, answer, {}, ListKeys(pop[s], order))

OnRetr(s, i) ==
    /\ May(s) /\ UNCHANGED mailbox
    /\ Asks(s, "retr", IF i \in DOMAIN pop[s].keys THEN {pop[s].keys[i]} ELSE {},
            Retr(pop[s], i))

\* dele(): of a file that is gone raises
OnDele(s, i) ==
    /\ May(s) /\ i \in DOMAIN pop[s].keys
    /\ mailbox' = mailbox \ {pop[s].keys[i]}
    /\ Asks(s, "ok", {}, IF pop[s].keys[i] \in mailbox THEN Says(pop[s], Word("ok"), FALSE)
                         ELSE PopClosed(pop[s]))

OnQuit(s) ==
    /\ Asks(s, "ok", {}, FlushClose(Says(pop[s], Word("ok"), FALSE)))
    /\ UNCHANGED mailbox

\* what is first in the queue is sent, its callback is called, and the client
\* has it
SendNext(s) ==
    /\ pop[s].queue # <<>>
    /\ LET item == Head(pop[s].queue)
           c == [pop[s] EXCEPT !.queue = Tail(@)]
           d == IF item.next THEN ReadChunk(c) ELSE c
           asked == client[s].asked
           whole == asked = "greeting"
                    \/ item.said.what = IF asked = "retr" THEN "end" ELSE asked
       IN  /\ pop' = [pop EXCEPT ![s] = IF d.queue = <<>> /\ d.status = "closing"
                                        THEN PopClosed(d) ELSE d]
           /\ client' = [client EXCEPT ![s] =
                            [asked |-> IF whole THEN "nothing" ELSE asked, key |-> @.key,
                             got |-> Append(@.got, item.said), left |-> @.left]]
    /\ UNCHANGED mailbox

\* the client goes away
Disconnect(s) ==
    /\ pop[s].status # "closed"
    /\ pop' = [pop EXCEPT ![s] = PopClosed(@)]
    /\ UNCHANGED <<mailbox, client>>

PopNext ==
    \E s \in Sessions :
        \/ OnCapa(s) \/ OnAuth(s) \/ OnStat(s) \/ OnLists(s) \/ OnQuit(s)
        \/ \E i \in 1 .. Cardinality(Mails) : OnRetr(s, i) \/ OnDele(s, i)
        \/ SendNext(s) \/ Disconnect(s)

PopSpec == PopInit /\ [][PopNext]_popVars

-----------------------------------------------------------------------------
(* Properties.                                                             *)

\* what is sent for a message is its head, its chunks in order and one end,
\* though two chains of callbacks read the file, even if it is deleted from
\* another session meanwhile
WholeAnswer(k) ==
    <<Word("ok")>> \o [i \in 1 .. Chunks[k] |-> Part({k}, i)] \o <<Word("end")>>

InFull ==
    \A s \in Sessions : \A k \in client[s].key :
        LET sent == [i \in 1 .. Len(pop[s].queue) |-> pop[s].queue[i].said]
        IN  IsPrefix(client[s].got \o sent, WholeAnswer(k))

\* a client that waits for an answer has it: something is in the queue
Answering ==
    \A s \in Sessions :
        pop[s].status = "open" /\ client[s].asked # "nothing" => pop[s].queue # <<>>

\* a file is open while it is sent only
FilesClosed ==
    \A s \in Sessions :
        pop[s].file # NoMessage => pop[s].status = "open" /\ client[s].asked = "retr"

\* A mailbox that other sessions change still gives each client whole answers
\* (retr(), the callbacks of send()).
PopSafety ==
    /\ mailbox \subseteq Mails
    /\ InFull /\ Answering /\ FilesClosed
=============================================================================
