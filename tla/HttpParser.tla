----------------------------- MODULE HttpParser -----------------------------
(***************************************************************************)
(* The HTTP/1 parser (common/http.py), fed with a stream of messages that  *)
(* the network cuts anywhere.  A byte is a token: a status line, the two   *)
(* characters of a line end, a header line, a chunk size or a piece of a   *)
(* body; cuts inside of a token are as those at its end.                   *)
(*                                                                         *)
(* parse() is a loop; a step is one iteration of it, and `data` is what    *)
(* the call in progress has left.  Reads happen between calls.             *)
(***************************************************************************)
EXTENDS Integers, FiniteSets, SequencesExt

CONSTANTS Requests, Responses,  \* what may be sent, see Message
          MaxSent,   \* bound: messages of a stream
          Crossing   \* a read may go past the end of a body with a length

\* `line` is the token of the status line; `length` is the content length or
\* -1, `chunks` the sizes of the chunks, the last of them 0, or <<>>, `size`
\* what is sent, up to the end of the connection, when neither of them tells.
Message == [line: STRING, length: Int, chunks: Seq(Nat), size: Nat]

ASSUME MessagesAssumption ==
    /\ Requests \subseteq Message /\ Responses \subseteq Message
    /\ \A m \in Requests : m.size = 0
    /\ MaxSent \in Nat /\ Crossing \in BOOLEAN

-----------------------------------------------------------------------------
(* The wire.                                                               *)

Eol == <<"r", "n">>
Sizes == <<"0", "1", "2", "3">>  \* of chunks, as tokens
Lengths == <<"c0", "c1", "c2", "c3">>  \* content lengths, as header lines
Total(sizes) ==
    LET Upto[i \in 0 .. Len(sizes)] ==
            IF i = 0 THEN 0 ELSE Upto[i - 1] + sizes[i]
    IN  Upto[Len(sizes)]

Body(size) == [i \in 1 .. size |-> "b"]

Chunk(size) == <<Sizes[size + 1]>> \o Eol \o Body(size) \o Eol
Top(m) ==
    <<m.line>> \o Eol \o <<"h">> \o Eol
      \o (IF m.length >= 0 THEN <<Lengths[m.length + 1]>> \o Eol ELSE <<>>)
      \o (IF m.chunks # <<>> THEN <<"t">> \o Eol ELSE <<>>) \o Eol
Wire(m) ==
    LET Upto[i \in 0 .. Len(m.chunks)] ==
            IF i = 0 THEN Top(m) ELSE Upto[i - 1] \o Chunk(m.chunks[i])
    IN  Upto[Len(m.chunks)] \o Body(IF m.chunks # <<>> THEN 0
              ELSE IF m.length >= 0 THEN m.length ELSE m.size)

\* What the listeners are to learn of a message.
Told(m) ==
    [line |-> m.line, chunks |-> SelectSeq(m.chunks, LAMBDA n : n > 0),
     body |-> IF m.chunks # <<>> THEN Total(m.chunks)
              ELSE IF m.length >= 0 THEN m.length ELSE m.size]

\* both framings at once are an error
Wrong(m) == m.length >= 0 /\ m.chunks # <<>>

-----------------------------------------------------------------------------
VARIABLES
    Response, \* the type of the parser: of responses, not requests
    Store,   \* the parser keeps the body
    sent,    \* the messages of the stream
    rest,    \* bytes of the last of them that were not read
    closed,  \* the peer closed the connection
    p,       \* the parser, see Parser
    calling, data, \* parse() is running, with this data
    told,    \* the on_data events, and what on_partial and on_chunk said
    raised   \* a ParserError: the rest of the stream is not looked at

kind == <<Response, Store>>
parserVars == <<kind, sent, rest, closed, p, calling, data, told, raised>>

\* The fields of the same names; `body` and `parts` are what on_partial and
\* on_chunk told of the message, `message` the sizes of the pieces kept.
Parser == [state: {"line", "headers", "message", "finish"}, buffer: Seq(STRING),
           line: STRING, contentL: Int, chunked: BOOLEAN, messageL: Nat,
           chunkD: Nat, chunkL: Nat, chunkS: Nat, message: Seq(Nat),
           body: Nat, parts: Seq(Nat)]

\* reset()
Cleared == [state |-> "line", buffer |-> <<>>, line |-> "", contentL |-> -1,
            chunked |-> FALSE, messageL |-> 0, chunkD |-> 0, chunkL |-> 0,
            chunkS |-> 0, message |-> <<>>, body |-> 0, parts |-> <<>>]

TypeOK ==
    /\ Response \in BOOLEAN /\ Store \in BOOLEAN
    /\ sent \in Seq(Requests \cup Responses) /\ rest \in Seq(STRING) /\ p \in Parser
    /\ calling \in BOOLEAN /\ data \in Seq(STRING)
    /\ closed \in BOOLEAN /\ raised \in BOOLEAN

ParserInit ==
    /\ Response \in BOOLEAN /\ Store \in BOOLEAN
    /\ sent = <<>> /\ rest = <<>> /\ closed = FALSE /\ p = Cleared
    /\ calling = FALSE /\ data = <<>> /\ told = <<>> /\ raised = FALSE

\* The first place of a token, or 0.
Find(s, token) ==
    LET at == {i \in DOMAIN s : s[i] = token}
    IN  IF at = {} THEN 0 ELSE Min(at)

Event(q) == [line |-> q.line, chunks |-> q.parts, body |-> q.body]

\* An iteration that takes n bytes and leaves the parser in q; on_data comes
\* with the state that finishes the message.
Taken(n, q) ==
    /\ p' = q /\ data' = SubSeq(data, n + 1, Len(data))
    /\ told' = IF q.state = "finish" THEN Append(told, Event(q)) ELSE told
    /\ UNCHANGED <<kind, sent, rest, closed, calling, raised>>

\* An iteration that takes nothing ends the loop: the data is buffered.
Kept ==
    /\ p' = [p EXCEPT !.buffer = @ \o data] /\ data' = <<>> /\ calling' = FALSE
    /\ UNCHANGED <<kind, sent, rest, closed, told, raised>>

Looping == calling /\ data # <<>>

-----------------------------------------------------------------------------
(* Iterations of parse().                                                  *)

ParseLine ==
    LET index == Find(data, "n")
        line == SelectSeq(p.buffer \o SubSeq(data, 1, index - 1),
                          LAMBDA b : b # "r")
    IN  /\ Looping /\ p.state = "line"
        /\ IF index = 0 THEN Kept
           ELSE Taken(index, [p EXCEPT !.line = line[1], !.buffer = Eol,
                                       !.state = "headers"])

ParseHeaders ==
    LET all == p.buffer \o data
        ends == {i \in DOMAIN all :
                    i + 3 <= Len(all) /\ SubSeq(all, i, i + 3) = Eol \o Eol}
        headers == ToSet(SubSeq(all, 1, Min(ends)))
        given == {i \in DOMAIN Lengths : Lengths[i] \in headers}
        chunked == "t" \in headers
        none == IF Response THEN p.line = "204" ELSE ~chunked
        length == IF given # {} THEN (CHOOSE i \in given : TRUE) - 1
                  ELSE IF none THEN 0 ELSE -1
    IN  /\ Looping /\ p.state = "headers"
        /\ \/ ends = {} /\ Kept
           \/ /\ ends # {} /\ ~(chunked /\ given # {})
              /\ Taken(Min(ends) + 3 - Len(p.buffer),
                       [p EXCEPT !.buffer = <<>>, !.contentL = length,
                                 !.chunked = chunked,
                                 !.state = IF length = 0 THEN "finish"
                                           ELSE "message"])
           \/ \* ParserError, and the server answers with its code
              /\ ends # {} /\ chunked /\ given # {}
              /\ raised' = TRUE /\ calling' = FALSE /\ data' = <<>>
              /\ p' = [p EXCEPT !.buffer = <<>>, !.contentL = length,
                                !.chunked = TRUE]
              /\ UNCHANGED <<kind, sent, rest, closed, told>>

\* mutant of ParseNormal: what came before is not counted
ParseNormalThere ==
    LET n == Len(data)
    IN  /\ Looping /\ p.state = "message" /\ ~p.chunked
        /\ Taken(n, [p EXCEPT !.messageL = n, !.body = @ + n,
                              !.state = IF n = p.contentL THEN "finish" ELSE @])

\* _parse_normal() takes all that is there, more than the length included
ParseNormal ==
    LET n == Len(data)
    IN  /\ Looping /\ p.state = "message" /\ ~p.chunked
        /\ Taken(n, [p EXCEPT
              !.messageL = @ + n, !.body = @ + n,
              !.message = IF Store THEN Append(@, n) ELSE @,
              !.state = IF p.messageL + n = p.contentL THEN "finish" ELSE @])

Chunking == Looping /\ p.state = "message" /\ p.chunked
Kept2(message) == IF Store THEN message ELSE <<>>

\* the line end after a chunk, in one piece or two
ChunkEnd ==
    LET part == Total(SubSeq(p.message, p.chunkS + 1, Len(p.message)))
    IN  /\ Chunking /\ p.chunkL \in 1 .. 2
        /\ \/ /\ Len(data) < p.chunkL
              /\ Taken(Len(data), [p EXCEPT !.chunkL = @ - Len(data)])
           \/ /\ Len(data) >= p.chunkL
              /\ Taken(p.chunkL,
                   IF p.chunkD = 0
                   THEN [p EXCEPT !.chunkL = 0, !.state = "finish",
                                  !.message = Kept2(@)]
                   ELSE [p EXCEPT !.chunkL = 0, !.parts = Append(@, part),
                                  !.message = Kept2(@)])

\* n bytes of the chunk, after a size of k bytes
Piece(q, k) ==
    LET there == Len(data) - k
        n == IF there < q.chunkL - 2 THEN there ELSE q.chunkL - 2
    IN  Taken(k + n, [q EXCEPT !.chunkL = @ - n, !.body = @ + n,
                               !.message = IF n > 0 THEN Append(@, n) ELSE @])

ChunkStart ==
    LET index == Find(data, "n")
        header == SelectSeq(p.buffer \o SubSeq(data, 1, index - 1),
                            LAMBDA b : b # "r")
        size == (CHOOSE i \in DOMAIN Sizes : Sizes[i] = header[1]) - 1
    IN  /\ Chunking /\ p.chunkL = 0
        /\ IF index = 0 THEN Kept
           ELSE Piece([p EXCEPT !.buffer = <<>>, !.chunkD = size,
                                !.chunkL = size + 2,
                                !.chunkS = Len(p.message)], index)

ChunkData == Chunking /\ p.chunkL > 2 /\ Piece(p, 0)

\* mutant of Clear: the state is not reset
ClearButState ==
    /\ Looping /\ p.state = "finish"
    /\ p' = [Cleared EXCEPT !.state = p.state]
    /\ UNCHANGED <<kind, sent, rest, closed, calling, data, told, raised>>

\* the next message, in the same data
Clear ==
    /\ Looping /\ p.state = "finish" /\ p' = Cleared
    /\ UNCHANGED <<kind, sent, rest, closed, calling, data, told, raised>>

\* parse() returns
ParseReturns ==
    /\ calling /\ data = <<>> /\ calling' = FALSE
    /\ UNCHANGED <<kind, sent, rest, closed, p, data, told, raised>>

Step == \/ ParseLine \/ ParseHeaders \/ ParseNormal \/ ChunkEnd \/ ChunkStart
        \/ ChunkData \/ Clear \/ ParseReturns

-----------------------------------------------------------------------------
(* The peer and the network.                                               *)

Delimited(m) == m.chunks = <<>> /\ m.length > 0
OpenEnded(m) ==
    Response /\ m.chunks = <<>> /\ m.length < 0 /\ m.line # "204"
Open == ~closed /\ ~raised /\ ~calling

Send(m) ==
    /\ Open /\ Len(sent) < MaxSent
    /\ m \in IF Response THEN Responses ELSE Requests
    /\ sent # <<>> => /\ ~OpenEnded(Last(sent))
                      /\ Crossing \/ rest = <<>> \/ ~Delimited(Last(sent))
    /\ sent' = Append(sent, m) /\ rest' = rest \o Wire(m)
    /\ UNCHANGED <<kind, closed, p, calling, data, told, raised>>

\* A read of n bytes, and parse() of it: a message that was finished is cleared.
Receive(n) ==
    /\ Open /\ n \in 1 .. Len(rest)
    /\ data' = SubSeq(rest, 1, n) /\ rest' = SubSeq(rest, n + 1, Len(rest))
    /\ calling' = TRUE /\ p' = IF p.state = "finish" THEN Cleared ELSE p
    /\ UNCHANGED <<kind, sent, closed, told, raised>>

\* the peer closes after what it sent; parse_closed() of a response whose end
\* nothing else tells
Closed ==
    /\ Open /\ rest = <<>> /\ closed' = TRUE
    /\ IF Response /\ ~p.chunked /\ p.contentL = -1 /\ p.state = "message"
       THEN /\ p' = [p EXCEPT !.state = "finish"]
            /\ told' = Append(told, Event(p))
       ELSE UNCHANGED <<p, told>>
    /\ UNCHANGED <<kind, sent, rest, calling, data, raised>>

ParserNext == Step \/ Closed \/ (\E m \in Requests \cup Responses : Send(m))
          \/ \E n \in 1 .. Len(rest) : Receive(n)


-----------------------------------------------------------------------------
(* Properties.                                                             *)

Expected ==
    LET wrong == {i \in DOMAIN sent : Wrong(sent[i])}
    IN  [i \in 1 .. Min({Len(sent)} \cup {i - 1 : i \in wrong}) |->
            Told(sent[i])]

RaisedForWrong ==
    closed \/ raised => (raised <=> \E i \in DOMAIN sent : Wrong(sent[i]))

\* The listeners learn of the messages that were sent, in order and whole, with
\* their chunks as they were made, however the stream was cut into reads; and
\* of all of them once it has been read.  An error is raised for a message that
\* is wrong, and for no other.
CutFree ==
    /\ Len(told) <= Len(Expected) /\ told = SubSeq(Expected, 1, Len(told))
    /\ closed => told = Expected
    /\ RaisedForWrong

\* Every call of parse() ends: an iteration takes data, or ends the call, or
\* clears a finished message, which can not happen twice in a row.
IterationsEnd ==
    [][calling => \/ Len(data') < Len(data) \/ ~calling'
                  \/ p.state = "finish" /\ p'.state = "line"]_parserVars

\* "must clear the current parser state, so that it may start the parsing of a
\* new message and then continue the loop trying to find new contents for
\* parsing, this critical for HTTP pipelining support"
Pipelined == CutFree
=============================================================================
