------------------------------- MODULE Http2 -------------------------------
(***************************************************************************)
(* The server side of an HTTP/2 connection: the state machine of the       *)
(* frames that a client sends (common/http2.py), and the flow control of   *)
(* the data that is sent to it (servers/http2.py): what does not fit in    *)
(* the windows is delayed in `frames`, and its stream is unavailable until *)
(* a WINDOW_UPDATE.                                                        *)
(*                                                                         *)
(* One action is one frame, with all it makes the server send.  Payloads   *)
(* are sizes.  The client is a correct one as far as windows go: it gives  *)
(* back what it has received, and sends no more than it may; the order of  *)
(* its frames is free.  A frame that raises an error leaves the parser in  *)
(* the middle of it: what comes after it is not understood any more.       *)
(***************************************************************************)
EXTENDS Integers, FiniteSets, SequencesExt

CONSTANTS Streams,     \* identifiers, odd
          MaxStreams,  \* SETTINGS_MAX_CONCURRENT_STREAMS of the server
          Window,      \* of the connection, and SETTINGS_INITIAL_WINDOW_SIZE
          Initials,    \* what the client may set that to, for new streams
          FrameMax,    \* the payload that fits in a frame
          Parts,       \* sizes of the parts of an answer
          MaxParts,    \* bound: data frames of an answer
          LocalWindow  \* of the server, for what it receives

ASSUME StreamsAssumption == \A s \in Streams : s \in Nat /\ s % 2 = 1
ASSUME SizesAssumption ==
    /\ MaxStreams \in Nat \ {0} /\ Window \in Nat \ {0}
    /\ Initials \subseteq Nat \ {0} /\ FrameMax \in Nat \ {0}
    /\ Parts \subseteq Nat /\ LocalWindow \in Nat \ {0, 1}
    /\ MaxParts \in Nat
    /\ FrameMax <= Window  \* the least that a client may offer is the same

VARIABLES
    conn,        \* the connection: "new" (no preface), "open" or "closed"
    reading,     \* the parser is in step with the frames
    initial,     \* `settings_r` of the client, for the streams to come
    last,        \* `last_type`, and the stream whose headers are not complete
    stream,      \* see Stream
    localWindow, \* `window_l` of the connection (0) and of the streams
    flow         \* see Flow

http2Vars == <<conn, reading, initial, last, stream, localWindow, flow>>

Links == Streams \cup {0}
Headers == {"HEADERS", "CONTINUATION"}
RST == -1
GOAWAY == -2

\* `asked` counts the times that on_data handed the request to the application,
\* `parts` the data frames of the answer, and `answered` tells that the last one
\* was given to send_part().
Stream == [st: {"idle", "open", "closed"}, endHeaders: BOOLEAN,
           endStream: BOOLEAN, asked: Nat, parts: Nat, answered: BOOLEAN,
           windowM: Nat]

\* A data frame: `nr` counts those of its stream.
Frame == [stream: Streams, size: Nat, final: BOOLEAN, nr: Nat]

\* What sending changes: the windows of the client, what it received and did not
\* give back, the delayed frames, the unavailable streams, the numbers of the frames that were sent, and their
\* callbacks that wait for the socket: a stream, when its last frame is sent,
\* and those of RST_STREAM and GOAWAY.  `failed` is a verification that
\* flush_frames() did not find true.
Flow == [window: [Links -> Int], owed: [Links -> Nat], frames: Seq(Frame),
         unavailable: SUBSET Streams, sent: [Streams -> Seq(Nat)],
         callbacks: Seq(Streams \cup {RST, GOAWAY}), failed: BOOLEAN]

Http2Type ==
    /\ conn \in {"new", "open", "closed"} /\ reading \in BOOLEAN
    /\ initial \in Initials \cup {Window}
    /\ last \in [type: Headers \cup {"other"}, inside: Links]
    /\ stream \in [Streams -> Stream]
    /\ localWindow \in [Links -> 0 .. LocalWindow]
    /\ flow \in Flow

Idle == [st |-> "idle", endHeaders |-> FALSE, endStream |-> FALSE,
         asked |-> 0, parts |-> 0, answered |-> FALSE, windowM |-> 0]

Dead == [Idle EXCEPT !.st = "closed"]

Other == [type |-> "other", inside |-> 0]
NoFlow == [window |-> [l \in Links |-> Window],
           owed |-> [l \in Links |-> 0], frames |-> <<>>, unavailable |-> {},
           sent |-> [s \in Streams |-> <<>>], callbacks |-> <<>>,
           failed |-> FALSE]

Http2Init ==
    /\ conn = "new" /\ reading = TRUE /\ initial = Window
    /\ last = Other
    /\ stream = [s \in Streams |-> Idle]
    /\ localWindow = [l \in Links |-> LocalWindow]
    /\ flow = NoFlow

IsOpen(s) == stream[s].st = "open"
MaxStream == Max({0} \cup {s \in Streams : stream[s].st # "idle"})
TooMany == Cardinality({s \in Streams : IsOpen(s)}) >= MaxStreams
Complete(r) == r.endHeaders /\ r.endStream

-----------------------------------------------------------------------------
(* Flow control of what is sent, as functions of the flow.                 *)

Delayed(f, s) == \E i \in DOMAIN f.frames : f.frames[i].stream = s

\* available_stream(), of a stream that is open
Available(f, s, size, strict) ==
    /\ \A l \in {0, s} : f.window[l] # 0 /\ f.window[l] >= size
    /\ strict => ~Delayed(f, s)

\* increment_remote(): the window of the connection and that of a stream
Incremented(window, s, n) == [window EXCEPT ![0] = @ + n, ![s] = @ + n]

\* increment_remote() by less the size, and send_frame()
SendFrame(f, d) ==
    [f EXCEPT !.window = Incremented(@, d.stream, -d.size),
              !.owed = Incremented(@, d.stream, d.size),
              !.sent[d.stream] = Append(@, d.nr),
              !.callbacks = IF d.final THEN Append(@, d.stream) ELSE @]

TryUnavailable(f, s) ==
    IF Available(f, s, 1, TRUE) THEN f
    ELSE [f EXCEPT !.unavailable = @ \cup {s}]

SendData(f, d) ==
    TryUnavailable(IF Available(f, d.stream, d.size, TRUE) THEN SendFrame(f, d)
                   ELSE [f EXCEPT !.frames = Append(@, d)], d.stream)

\* `size` in frames of at most `m`
Chunks(size, m) == [i \in 1 .. (size + m - 1) \div m |->
                       IF i * m <= size THEN m ELSE size % m]

\* The sizes of the frames of a part: fragmentable() and fragment(), where the
\* first takes what is left of the windows, even if that is nothing.
Fragments(f, s, size) ==
    LET m == stream[s].windowM
        first == Min({f.window[0], f.window[s], m})
    IN  IF size <= first \/ (size <= m /\ size <= f.window[s]) THEN <<size>>
        ELSE <<first>> \o Chunks(size - first, m)

\* send_part(), of the last part or of another one, frame by frame
SendPart(f, s, size, final) ==
    LET sizes == Fragments(f, s, size)
        Data(i) == [stream |-> s, size |-> sizes[i], nr |-> stream[s].parts + i,
                    final |-> final /\ i = Len(sizes)]
        Upto[i \in 0 .. Len(sizes)] ==
            IF i = 0 THEN f ELSE SendData(Upto[i - 1], Data(i))
    IN  Upto[Len(sizes)]

\* one round of the loop of flush_frames(), which keeps a frame or sends it;
\* `starved` are the streams with one that does not fit
Flush(a, d) ==
    CASE d.stream \notin a.f.unavailable -> [a EXCEPT !.f.failed = TRUE]
      [] d.stream \in a.f.unavailable \cap a.starved ->
           [a EXCEPT !.f.frames = Append(@, d)]
      [] d.stream \in a.f.unavailable \ a.starved /\ ~IsOpen(d.stream) -> a
      [] d.stream \in a.f.unavailable \ a.starved /\ IsOpen(d.stream) ->
           IF Available(a.f, d.stream, d.size, FALSE)
           THEN [a EXCEPT !.f = SendFrame(@, d)]
           ELSE [f |-> [a.f EXCEPT !.frames = Append(@, d)],
                 starved |-> a.starved \cup {d.stream}]

\* flush_frames(): those that fit, in order, none of a stream after one of it
\* that does not fit
FlushFrames(f) ==
    LET Upto[i \in 0 .. Len(f.frames)] ==
            IF i = 0 THEN [f |-> [f EXCEPT !.frames = <<>>], starved |-> {}]
            ELSE Flush(Upto[i - 1], f.frames[i])
    IN  Upto[Len(f.frames)].f

\* flush_available(): the streams that are gone or can send again
FlushAvailable(f) ==
    [f EXCEPT !.unavailable =
        {s \in @ : IsOpen(s) /\ ~Available(f, s, 1, TRUE)}]

-----------------------------------------------------------------------------
(* Frames.                                                                 *)

Push(c) == flow' = [flow EXCEPT !.callbacks = Append(@, c)]

\* A ParserError, of a stream or of the connection: _handle_exception() sends
\* RST_STREAM and, from its callback, GOAWAY, or GOAWAY at once.
Fail == reading' = FALSE /\ last' = Other /\ UNCHANGED <<conn, initial>>
Raise(c) == Push(c) /\ Fail

\* the socket is closed; destroy() of the parser closes the streams
CloseConnection ==
    /\ conn' = "closed"
    /\ stream' = [s \in Streams |-> IF IsOpen(s) THEN Dead ELSE stream[s]]
    /\ flow' = NoFlow /\ localWindow' = [l \in Links |-> LocalWindow]
    /\ UNCHANGED <<reading, initial, last>>

\* clear(), at the end of a frame
Finished(frame) == last' = frame /\ UNCHANGED <<conn, reading>>
Unfinished(type, s, ended) ==
    Finished([type |-> type, inside |-> IF ended THEN 0 ELSE s])

Reads == conn = "open" /\ reading

\* assert_header(): headers of another stream are not complete
Inside(s) == last.inside \notin {0, s}

\* The preface is right and the settings are sent, or it is not.
Preface ==
    /\ conn = "new" /\ reading
    /\ \/ conn' = "open" /\ UNCHANGED <<reading, initial, last, flow>>
       \/ Raise(GOAWAY)
    /\ UNCHANGED <<stream, localWindow>>

\* A frame that is refused whatever its stream is: in the middle of headers,
\* too large, an increment of zero, settings out of range, or a type that is
\* not known, which is answered with a PING and leaves the parser in it.
Reject ==
    /\ Reads
    /\ \/ Raise(RST)
       \/ Raise(GOAWAY)
       \/ last.type # "HEADERS" /\ Fail /\ UNCHANGED flow
    /\ UNCHANGED <<stream, localWindow>>

\* on_data: the request is handed to the application
Ask(r) == IF Complete(r) THEN [r EXCEPT !.asked = @ + 1] ELSE r

\* assert_stream() comes after the headers were taken
HeadersFrame(s, endHeaders, endStream) ==
    LET old == stream[s]
        new == [Idle EXCEPT !.st = "open", !.endHeaders = endHeaders,
                            !.endStream = endStream,
                            !.windowM = Min({initial, FrameMax})]
        more == [old EXCEPT !.endHeaders = @ \/ endHeaders, !.endStream = TRUE]
    IN  /\ Reads /\ ~Inside(s)
        /\ \/ \* closed, half closed, or second HEADERS without END_STREAM
              /\ old.st = "closed" \/ (old.st = "idle" /\ s < MaxStream)
                   \/ (IsOpen(s) /\ (Complete(old) \/ ~endStream))
              /\ Raise(RST) /\ UNCHANGED <<stream, localWindow>>
           \/ \* no room for one more stream
              /\ old.st = "idle" /\ s > MaxStream /\ TooMany
              /\ Raise(RST) /\ UNCHANGED <<stream, localWindow>>
           \/ /\ old.st = "idle" /\ s > MaxStream /\ ~TooMany
              /\ stream' = [stream EXCEPT ![s] = Ask(new)]
              /\ flow' = [flow EXCEPT !.window[s] = initial]
              /\ Unfinished("HEADERS", s, endHeaders)
              /\ UNCHANGED <<initial, localWindow>>
           \/ \* trailers, when there are as many streams as may be
              /\ IsOpen(s) /\ ~Complete(old) /\ endStream /\ TooMany
              /\ stream' = [stream EXCEPT ![s] = more]
              /\ Raise(RST) /\ UNCHANGED localWindow
           \/ \* trailers
              /\ IsOpen(s) /\ ~Complete(old) /\ endStream /\ ~TooMany
              /\ old.endHeaders \/ ~endHeaders
              /\ stream' = [stream EXCEPT ![s] = Ask(more)]
              /\ Unfinished("HEADERS", s, endHeaders)
              /\ UNCHANGED <<initial, localWindow, flow>>
           \/ \* the headers were never decoded: a TypeError, and it closes
              /\ IsOpen(s) /\ ~old.endHeaders /\ endHeaders /\ endStream
              /\ ~TooMany /\ CloseConnection

ContinuationFrame(s, endHeaders) ==
    LET new == [stream[s] EXCEPT !.endHeaders = endHeaders]
    IN  /\ Reads /\ ~Inside(s)
        /\ \/ /\ \/ ~IsOpen(s)
                 \/ IsOpen(s) /\ Complete(stream[s])
              /\ Raise(RST) /\ UNCHANGED <<stream, localWindow>>
           \/ /\ IsOpen(s) /\ ~Complete(stream[s]) /\ last.type \notin Headers
              /\ Raise(GOAWAY) /\ UNCHANGED <<stream, localWindow>>
           \/ /\ IsOpen(s) /\ ~Complete(stream[s]) /\ last.type \in Headers
              /\ stream' = [stream EXCEPT ![s] = Ask(new)]
              /\ Unfinished("CONTINUATION", s, endHeaders)
              /\ UNCHANGED <<initial, localWindow, flow>>

\* increment_local(): the window is given back when less than half is left
Spend(w, n) == IF w - n < LocalWindow \div 2 THEN LocalWindow ELSE w - n

DataFrame(s, size, endStream) ==
    /\ Reads /\ ~Inside(s) /\ size <= localWindow[0]
    /\ \/ /\ ~IsOpen(s) \/ ~stream[s].endHeaders \/ Complete(stream[s])
          /\ Raise(RST) /\ UNCHANGED <<stream, localWindow>>
       \/ /\ IsOpen(s) /\ stream[s].endHeaders /\ ~Complete(stream[s])
          /\ size <= localWindow[s]
          /\ stream' = [stream EXCEPT
               ![s] = Ask([@ EXCEPT !.endStream = endStream])]
          /\ localWindow' = [l \in Links |->
               IF l \in {0, s} THEN Spend(localWindow[l], size)
               ELSE localWindow[l]]
          /\ Finished(Other) /\ UNCHANGED <<initial, flow>>

\* close() of a stream, and nothing is known of it any more
Gone(s, f) ==
    /\ stream' = [stream EXCEPT ![s] = Dead]
    /\ flow' = [f EXCEPT !.window[s] = Window, !.owed[s] = 0,
                         !.sent[s] = <<>>]
    /\ localWindow' = [localWindow EXCEPT ![s] = LocalWindow]

RstStream(s) ==
    /\ Reads /\ ~Inside(s)
    /\ \/ /\ s > MaxStream /\ Raise(GOAWAY)
          /\ UNCHANGED <<stream, localWindow>>
       \/ /\ s <= MaxStream
          /\ IF IsOpen(s) THEN Gone(s, flow)
             ELSE UNCHANGED <<stream, localWindow, flow>>
          /\ Finished(Other) /\ UNCHANGED initial

\* PRIORITY (of any stream), PING, GOAWAY and the ACK of SETTINGS
OtherFrame(l) ==
    /\ Reads /\ ~Inside(l) /\ Finished(Other)
    /\ UNCHANGED <<initial, stream, localWindow, flow>>

\* set_settings(): the streams that are open keep their windows
Settings(w) ==
    /\ Reads /\ ~Inside(0) /\ initial' = w /\ Finished(Other)
    /\ UNCHANGED <<stream, localWindow, flow>>

\* on_window_update(), from a client that gives back what it received
WindowUpdate(l, n) ==
    /\ Reads /\ ~Inside(l)
    /\ \/ /\ l > MaxStream /\ Raise(RST) /\ UNCHANGED <<stream, localWindow>>
       \/ /\ l <= MaxStream /\ n <= flow.owed[l]
          /\ flow' = IF l = 0 \/ IsOpen(l)
                     THEN FlushAvailable(FlushFrames(
                            [flow EXCEPT !.window[l] = @ + n, !.owed[l] = @ - n]))
                     ELSE flow
          /\ Finished(Other)
          /\ UNCHANGED <<initial, stream, localWindow>>

-----------------------------------------------------------------------------
(* The application, the socket and the network.                            *)

\* send_part() of a stream, once it has the request
Part(s, size, final) ==
    /\ conn = "open" /\ IsOpen(s) /\ stream[s].asked > 0 /\ ~stream[s].answered
    /\ stream[s].parts + Len(Fragments(flow, s, size)) <= MaxParts
    /\ flow' = SendPart(flow, s, size, final)
    /\ stream' = [stream EXCEPT
                    ![s].parts = @ + Len(Fragments(flow, s, size)),
                    ![s].answered = final]
    /\ UNCHANGED <<conn, reading, initial, last, localWindow>>

\* close() of a stream by the application: RST_STREAM, or an empty last frame
\* when flush is asked for and the request is complete
StreamClose(s, flush) ==
    /\ conn = "open" /\ IsOpen(s)
    /\ IF flush /\ Complete(stream[s]) THEN Gone(s, SendPart(flow, s, 0, TRUE))
       ELSE Gone(s, flow)
    /\ UNCHANGED <<conn, reading, initial, last>>

\* mutant of FramesSent: the stream is not closed with its last frame
FramesSentOpen ==
    LET c == Head(flow.callbacks)
        f == [flow EXCEPT !.callbacks = Tail(@)]
    IN  /\ conn # "closed" /\ flow.callbacks # <<>> /\ flow' = f
        /\ UNCHANGED <<conn, reading, initial, last, stream, localWindow>>

\* The socket took a frame with a callback: the stream ends with its last
\* frame, GOAWAY follows RST_STREAM, and close() follows GOAWAY.
FramesSent ==
    LET c == Head(flow.callbacks)
        f == [flow EXCEPT !.callbacks = Tail(@)]
    IN  /\ conn # "closed" /\ flow.callbacks # <<>>
        /\ \/ /\ c = GOAWAY /\ CloseConnection
           \/ /\ c = RST /\ flow' = [f EXCEPT !.callbacks = Append(@, GOAWAY)]
              /\ UNCHANGED <<conn, reading, initial, last, stream, localWindow>>
           \/ /\ c \in Streams
              /\ IF IsOpen(c) THEN Gone(c, f)
                 ELSE flow' = f /\ UNCHANGED <<stream, localWindow>>
              /\ UNCHANGED <<conn, reading, initial, last>>

Lost == conn # "closed" /\ CloseConnection

Http2Next ==
    \/ Preface \/ Reject \/ FramesSent \/ Lost
    \/ \E l \in Links : OtherFrame(l) \/ \E n \in 1 .. Window : WindowUpdate(l, n)
    \/ \E w \in Initials : Settings(w)
    \/ \E s \in Streams :
        \/ RstStream(s)
        \/ \E h \in BOOLEAN :
              \/ ContinuationFrame(s, h) \/ StreamClose(s, h)
              \/ \E e \in BOOLEAN : HeadersFrame(s, h, e)
              \/ \E n \in 0 .. 1 : DataFrame(s, n, h)
              \/ \E n \in Parts : Part(s, n, h)

-----------------------------------------------------------------------------
(* Properties.                                                             *)

\* What flush_frames() verifies holds: a stream with delayed frames that is
\* still open is unavailable, whatever the order of the frames and the windows.
Verified ==
    /\ ~flow.failed
    /\ \A s \in Streams : Delayed(flow, s) => s \in flow.unavailable

\* The frames of a stream leave in the order in which they were made: delayed
\* frames are not overtaken, skipped or sent twice; nothing is sent for a
\* stream that is closed.
FramesInOrder ==
    \A s \in Streams :
        LET own == {i \in DOMAIN flow.frames : flow.frames[i].stream = s}
            given == Len(flow.sent[s])
        IN  IF IsOpen(s)
            THEN /\ given <= stream[s].parts
                 /\ flow.sent[s] = [i \in 1 .. given |-> i]
                 /\ {flow.frames[i].nr : i \in own} = given + 1 .. stream[s].parts
                 /\ \A i, j \in own : i < j => flow.frames[i].nr < flow.frames[j].nr
            ELSE flow.sent[s] = <<>>

\* No more than the windows of the client allow is on its way to it, and no
\* credit is lost: what it gave back can be used again.
WithinWindows ==
    /\ \A l \in Links : flow.window[l] >= 0
    /\ flow.window[0] + flow.owed[0] = Window

\* An open stream that is unavailable has delayed frames or no window left: the
\* application, which is throttled by it, was told when it changed.
Unblocked ==
    \A s \in flow.unavailable :
        IsOpen(s) => Delayed(flow, s) \/ flow.window[0] = 0 \/ flow.window[s] = 0

\* A request is handed to the application once, when it is complete, however
\* its headers were cut into frames.
DispatchedOnce ==
    \A s \in Streams :
        /\ stream[s].asked <= 1
        /\ IsOpen(s) /\ reading =>
             stream[s].asked = IF Complete(stream[s]) THEN 1 ELSE 0

\* A stream whose last frame was sent does not stay open: once what the socket
\* took is told, nothing is left that would close it.
Ends ==
    flow.callbacks = <<>> =>
        \A s \in Streams : stream[s].answered /\ ~Delayed(flow, s) => ~IsOpen(s)

\* No frame is stuck: when the client has given back all that it received,
\* nothing of an open stream is delayed, whatever the others send.
NothingStuck ==
    (\A l \in Links : flow.owed[l] = 0) =>
        \A s \in Streams : IsOpen(s) => ~Delayed(flow, s)

\* The flow control neither overruns the client nor forgets a stream.
FlowSafety == Http2Type /\ Verified /\ WithinWindows /\ Unblocked /\ NothingStuck

\* A stream is one request, handed over once, and one answer in order.
StreamSafety == FramesInOrder /\ DispatchedOnce /\ Ends
=============================================================================
