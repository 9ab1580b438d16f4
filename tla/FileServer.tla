----------------------------- MODULE FileServer -----------------------------
(***************************************************************************)
(* A connection of HTTP/1 of the server of files (extra/file.py): a file   *)
(* is read, and sent, a buffer at a time, each from the callback of the    *)
(* one before, and the requests that come meanwhile wait in a queue.       *)
(*                                                                         *)
(* A client asks for one thing at a time, or for files it wants to keep    *)
(* the connection after, without waiting for those before.                 *)
(***************************************************************************)
EXTENDS Integers, SequencesExt

CONSTANTS
    FileRequests,   \* what may be asked: kind, size, range, keep-alive, version
    MaxPiped,       \* how many requests a client sends
    BufferSize      \* BUFFER_SIZE

ASSUME FileAssumption == MaxPiped \in Nat /\ BufferSize \in Nat \ {0}

VARIABLES
    serving,    \* the connection, with its parser, file and queue
    asker       \* the client: what it asked for and what it was sent

fileVars == <<serving, asker>>

\* nothing is open; file is the request, the position and the bytes left
NoFile == [of |-> 0, at |-> 0, left |-> 0]

FileInit ==
    /\ serving \in [status : {"open"}, encoding : {"plain", "chunked"},
                    current : {"plain"}, keepAlive : {FALSE}, file : {NoFile},
                    waiting : {<<>>}, pending : {<<>>}]
    /\ asker = [asked |-> <<>>, got |-> <<>>]

-----------------------------------------------------------------------------
(* The response: functions of the connection.                              *)

\* send_plain(): what is sent, and the callback
Sends(c, tokens, callback) ==
    [c EXCEPT !.pending = Append(@, [tokens |-> tokens, callback |-> callback])]

\* the head of the answer to request i, the byte at p of the file, the last chunk
HeadOf(i, code, length) == <<"head", i, code, length>>
ByteOf(i, p) == <<"byte", i, p>>
LastChunk(i) == <<"last", i>>

\* on_connection_d(): the file is closed
Shuts(c) ==
    [c EXCEPT !.status = "closed", !.file = NoFile, !.waiting = <<>>, !.pending = <<>>]

\* flush(), with the encoding back to that of the server
Flush(c, i, callback) ==
    LET d == IF c.current = "chunked" THEN Sends(c, <<LastChunk(i)>>, callback)
             ELSE IF callback # "none" THEN Sends(c, <<>>, callback) ELSE c
    IN  [d EXCEPT !.current = c.encoding]

\* send_response() and send_header(), of what has a body of one byte
SendResponse(c, i, code, callback) ==
    LET body == Sends(Sends(c, <<HeadOf(i, code, IF c.current = "plain" THEN 1 ELSE -1)>>,
                            "none"), <<ByteOf(i, 0)>>, "none")
    IN  Flush(body, i, callback)

\* on_not_modified(): there is no body, and no length
OnNotModified(c, i) ==
    [Sends(c, <<HeadOf(i, 304, -1)>>, "none") EXCEPT !.current = c.encoding]

\* on_normal_file(): the body comes after the head
OnNormalFile(c, i, r) ==
    LET n == r.last - r.first + 1
        head == HeadOf(i, r.code, IF c.current = "plain" THEN n ELSE -1)
    IN  Sends(Sends([c EXCEPT !.file = [of |-> i, at |-> r.first, left |-> n]],
                    <<head>>, "none"), <<>>, "send")

\* resolve_encoding()
ResolveEncoding(c, r) ==
    [c EXCEPT !.current = IF c.encoding = "chunked" /\ r.v11 THEN "chunked" ELSE "plain"]

\* on_data_http(), of the request of number i
OnDataHttp(c, i, r) ==
    LET d == ResolveEncoding(c, r)
    IN  CASE c.file # NoFile -> [d EXCEPT !.waiting = Append(@, i)]
          [] c.file = NoFile /\ r.kind = "file" -> OnNormalFile(d, i, r)
          [] c.file = NoFile /\ r.kind = "same" -> OnNotModified(d, i)
          [] c.file = NoFile /\ r.kind = "dir" -> SendResponse(d, i, 200, "check")
          [] c.file = NoFile /\ r.kind = "none" -> SendResponse(d, i, 404, "close")

\* _next_queue()
NextQueue(c) ==
    IF c.waiting = <<>> THEN c
    ELSE OnDataHttp([c EXCEPT !.waiting = Tail(@)], Head(c.waiting),
                    asker.asked[Head(c.waiting)])

-----------------------------------------------------------------------------
(* The callbacks.                                                          *)

\* _file_send(): one more buffer
FileSend(c) ==
    LET f == c.file
        n == IF f.left < BufferSize THEN f.left ELSE BufferSize
        final == f.left = n
    IN  Sends([c EXCEPT !.file.at = @ + n, !.file.left = @ - n],
              [k \in 1 .. n |-> ByteOf(f.of, f.at + k - 1)],
              IF final THEN "finish" ELSE "send")

\* mutant of FileFinish: what comes next is begun without the flush
FileFinishBare(c) == NextQueue([c EXCEPT !.file = NoFile])

\* _file_finish(): the connection is the parser's to keep
FileFinish(c) ==
    NextQueue(Flush([c EXCEPT !.file = NoFile], c.file.of,
                    IF c.keepAlive THEN "none" ELSE "close"))

\* _file_close(): close(flush=True), whose own callback closes
FileClose(c) == Sends(c, <<>>, "closed")

Callback(c, callback) ==
    CASE callback = "send" -> FileSend(c)
      [] callback = "finish" -> FileFinish(c)
      [] callback = "close" -> FileClose(c)
      [] callback = "check" -> IF c.keepAlive THEN c ELSE FileClose(c)
      [] callback = "closed" -> Shuts(c)
      [] callback = "none" -> c

-----------------------------------------------------------------------------
(* The client.                                                             *)

\* what the answer to request i has to be
Expected(i) ==
    LET r == asker.asked[i]
        chunked == serving.encoding = "chunked" /\ r.v11
        n == r.last - r.first + 1
        Whole(code, length, body) ==
            <<HeadOf(i, code, IF chunked THEN -1 ELSE length)>> \o body
            \o IF chunked THEN <<LastChunk(i)>> ELSE <<>>
    IN  CASE r.kind = "file" ->
                Whole(r.code, n, [k \in 1 .. n |-> ByteOf(i, r.first + k - 1)])
          [] r.kind = "same" -> <<HeadOf(i, 304, -1)>>
          [] r.kind = "dir" -> Whole(200, 1, <<ByteOf(i, 0)>>)
          [] r.kind = "none" -> Whole(404, 1, <<ByteOf(i, 0)>>)

Answers == FlattenSeq([i \in 1 .. Len(asker.asked) |-> Expected(i)])
Answered == Len(asker.got) = Len(Answers)

\* _send() goes on until the socket takes no more: it never stops before a
\* message that is empty
Between == serving.pending # <<>> => Head(serving.pending).tokens # <<>>

\* what may follow requests that are not answered yet
Piped(r) == r.kind = "file" /\ r.keep

AskFile(r) ==
    /\ serving.status = "open" /\ Between /\ Len(asker.asked) < MaxPiped
    /\ Answered \/ (Piped(r) /\ \A i \in 1 .. Len(asker.asked) : Piped(asker.asked[i]))
    /\ \A i \in 1 .. Len(asker.asked) : asker.asked[i].keep /\ asker.asked[i].v11 = r.v11
                                        /\ asker.asked[i].kind # "none"
    /\ asker' = [asker EXCEPT !.asked = Append(@, r)]
    /\ serving' = OnDataHttp([serving EXCEPT !.keepAlive = r.keep],
                             Len(asker.asked) + 1, r)

\* the first of what is pending goes to the client, and its callback is called
SendFirst ==
    /\ serving.pending # <<>>
    /\ LET item == Head(serving.pending)
       IN  /\ asker' = [asker EXCEPT !.got = @ \o item.tokens]
           /\ serving' = Callback([serving EXCEPT !.pending = Tail(@)], item.callback)

\* the client goes away
Leaves ==
    /\ serving.status = "open" /\ Between
    /\ serving' = [Shuts(serving) EXCEPT !.status = "left"]
    /\ UNCHANGED asker

FileNext == SendFirst \/ Leaves \/ \E r \in FileRequests : AskFile(r)

-----------------------------------------------------------------------------
(* Properties.                                                             *)

\* what is sent is the answers, each whole, framed as its head says, and in the
\* order of the requests
AnswersInOrder ==
    IsPrefix(asker.got \o FlattenSeq([k \in 1 .. Len(serving.pending) |->
                                         serving.pending[k].tokens]), Answers)

\* as long as something has to be answered, something is being sent; a file is
\* open while it is sent, and no longer
AnswersCome ==
    serving.status = "open" =>
        /\ ~Answered => serving.pending # <<>>
        /\ serving.file # NoFile =>
               \E k \in 1 .. Len(serving.pending) :
                   serving.pending[k].callback \in {"send", "finish"}

\* the server closes a connection when all is answered, if it was not to be kept
ClosedAfter ==
    /\ serving.status = "closed" => Answered /\ serving.file = NoFile
    /\ serving.pending = <<>> /\ asker.asked # <<>> /\ serving.status = "open" =>
           Last(asker.asked).keep \/ Last(asker.asked).kind = "same"

FileSafety ==
    /\ serving.current \in {"plain", "chunked"} /\ serving.file.left >= 0
    /\ AnswersInOrder /\ AnswersCome /\ ClosedAfter
=============================================================================
