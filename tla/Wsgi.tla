-------------------------------- MODULE Wsgi --------------------------------
(***************************************************************************)
(* One HTTP/1 connection of the WSGIServer (servers/wsgi.py), over the     *)
(* HTTPConnection of servers/http.py: requests that are queued, responses  *)
(* that an iterator gives part by part, each part asked for when the last  *)
(* one was sent, plain, in chunks or compressed.  A part may be the future *)
(* of a coroutine that ensure() (base/common.py) steps through, its values *)
(* sent as they come.                                                      *)
(*                                                                         *)
(* All of it belongs to the thread of the loop.  The delayed calls are on  *)
(* its heap, in the exact order of Heapq; the output queue and its flushes *)
(* are those of Connection, but for a message that is sent in two.         *)
(***************************************************************************)
EXTENDS Heapq, SequencesExt, FiniteSetsExt

CONSTANTS Encodings,       \* of the server
          HttpRequests,    \* [keep, v11, gzip]
          HttpResponses,   \* [length, whole, parts]: no length is -1
          MaxAsked,
          Crossed          \* if a request may cross the response before it

ASSUME WsgiAssumption ==
    /\ Encodings \subseteq {"plain", "chunked", "gzip"}
    /\ MaxAsked \in Nat /\ Crossed \in BOOLEAN

VARIABLES
    serverEncoding,  \* `encoding`
    asked,           \* history: each request, and what the application answers
    session          \* the connection, its futures, the loop, and histories

wsgiVars == <<serverEncoding, asked, session>>

\* a future of ensure(): if its callbacks are still registered, its child and
\* what that came to, and what its coroutine is still to give
NoFuture == [state |-> "none", bound |-> FALSE, child |-> "none",
             fate |-> "done", values |-> <<>>]

WsgiInit ==
    /\ serverEncoding \in Encodings
    /\ asked = <<>>
    /\ session =
         [open |-> TRUE, why |-> "", keep |-> FALSE, current |-> serverEncoding,
          iterator |-> 0, environ |-> 0, future |-> 0, queue |-> <<>>,
          gzip |-> FALSE, out |-> <<>>, wready |-> TRUE,
          calls |-> <<>>, aside |-> <<>>, serving |-> FALSE,
          at |-> <<>>, futures |-> <<>>,
          inputs |-> {}, closings |-> <<>>, wire |-> <<>>]

-----------------------------------------------------------------------------
(* The loop: delay(), immediately or for the next tick.                    *)

Soon(c, call, n, fate) ==
    [c EXCEPT !.calls = HeapPush(@, [target |-> -1, call |-> call, of |-> n,
                                     fate |-> fate])]

NextTurn(c, call, n) ==
    LET x == [target |-> 0, call |-> call, of |-> n, fate |-> "self"]
    IN  IF c.serving THEN [c EXCEPT !.aside = Append(@, x)]
                     ELSE [c EXCEPT !.calls = HeapPush(@, x)]

FlushDelayed(c) == \E i \in DOMAIN c.calls : c.calls[i].call = "flush"

-----------------------------------------------------------------------------
(* Futures.  A child that ends has the step of its parent called.          *)

Ended(c, n, state) ==
    IF c.futures[n].state # "running" THEN c
    ELSE LET d == [c EXCEPT !.futures[n].state = state]
         IN  IF c.futures[n].bound THEN Soon(d, "done", n, "self") ELSE d

ChildEnded(c, n, fate) ==
    Soon([c EXCEPT !.futures[n].child = "none", !.futures[n].fate = fate],
         "step", n, fate)

-----------------------------------------------------------------------------
(* The connection.                                                         *)

ReleaseFuture(c) ==
    IF c.future = 0 THEN c ELSE [Ended(c, c.future, "cancelled") EXCEPT
                                     !.future = 0]

ReleaseIterator(c) ==
    IF c.iterator = 0 THEN c
    ELSE [c EXCEPT !.closings[c.iterator] = @ + 1, !.iterator = 0]

ReleaseEnviron(c) == [c EXCEPT !.inputs = @ \ {c.environ}, !.environ = 0]

\* mutant of Release: the future is left to itself
ReleaseNoFuture(c) == ReleaseEnviron(ReleaseIterator(c))

\* _release(): the future is cancelled, the iterator closed, the input freed
Release(c) == ReleaseEnviron(ReleaseIterator(ReleaseFuture(c)))

ReleaseQueue(c) == [c EXCEPT !.inputs = @ \ Range(c.queue), !.queue = <<>>]

\* close(), with on_connection_d() of the server
CloseSession(c, why) ==
    IF ~c.open THEN c
    ELSE LET d == [c EXCEPT !.open = FALSE, !.why = why, !.wready = FALSE,
                            !.out = <<>>, !.gzip = FALSE]
         IN  ReleaseQueue(Release(d))

\* send(): the flush is delayed once, or comes when the socket can be written
Out(c, n, kind, then) ==
    IF ~c.open THEN c
    ELSE LET d == [c EXCEPT !.out = Append(@, [of |-> n, kind |-> kind,
                                               then |-> then])]
         IN  IF d.wready /\ ~FlushDelayed(d) THEN Soon(d, "flush", 0, "self")
                                             ELSE d

\* send_part() of data, in the encoding that is current
SendData(c, n, then) ==
    CASE c.current = "plain" -> Out(c, n, "raw", then)
      [] c.current = "chunked" -> Out(c, n, "chunk", then)
      [] c.current = "gzip" -> Out([c EXCEPT !.gzip = TRUE], n, "gzip", then)

\* what the compressor still has, if it was used, and no compressor any more
FlushGzip(c, n) ==
    IF c.gzip THEN [Out(c, n, "finish", "none") EXCEPT !.gzip = FALSE] ELSE c

\* flush_s(): the end of the response, after which the encoding is that of the
\* server
FlushHttp(c, n) ==
    LET d == CASE c.current = "plain" -> Out(c, n, "empty", "final")
               [] c.current = "chunked" -> Out(c, n, "last", "final")
               [] c.current = "gzip" -> Out(FlushGzip(c, n), n, "last", "final")
    IN  [d EXCEPT !.current = serverEncoding]

\* resolve_encoding()
ResolveEncoding(request) ==
    IF ~request.v11 THEN "plain"
    ELSE IF serverEncoding = "gzip" /\ ~request.gzip THEN "chunked"
    ELSE serverEncoding

\* _start_response(): the encoding of this response, if it ends by the close
\* of the connection, and the head
StartResponse(c, n) ==
    LET r == asked'[n].response
        current == IF r.length = 0 THEN "plain"
                   ELSE IF r.whole /\ c.current # "plain" THEN "chunked"
                   ELSE c.current
        keep == IF r.length = -1 THEN current # "plain" ELSE c.keep
        framing == IF current # "plain" THEN current
                   ELSE IF r.length = -1 THEN "close" ELSE "length"
        d == [c EXCEPT !.current = current, !.keep = keep]
    IN  Out(d, n, framing, "none")

\* ensure(): a future whose coroutine takes its first step soon
Ensure(c, n, values) ==
    Soon([c EXCEPT !.futures[n] = [NoFuture EXCEPT !.state = "running",
                                                   !.values = values]],
         "step", n, "self")

\* the application gave a coroutine to ensure(), and its future as this part,
\* on which the connection has its callbacks
StartFuture(c, n, values) ==
    [Ensure(c, n, values) EXCEPT !.future = n, !.futures[n].bound = TRUE]

\* _send_part(): with no iterator, or at its end, the response ends; what the
\* iterator raises closes the connection, unless the loop called it
SendPart(c, handled) ==
    LET n == c.iterator
        parts == asked'[n].response.parts
        d == [c EXCEPT !.at[n] = @ + 1]
    IN  IF n = 0 THEN FlushHttp(c, c.environ)
        ELSE IF c.at[n] > Len(parts) THEN FlushHttp(ReleaseIterator(c), n)
        ELSE LET part == parts[c.at[n]]
             IN  CASE part.kind = "data" -> SendData(d, n, "part")
                   [] part.kind = "return" ->
                          SendData(ReleaseIterator(d), n, "part")
                   [] part.kind = "future" -> StartFuture(d, n, part.values)
                   [] part.kind = "raise" ->
                          IF handled THEN CloseSession(d, "error") ELSE d

\* on_environ()
OnEnviron(c, n) ==
    SendPart([StartResponse(c, n) EXCEPT !.iterator = n, !.environ = n], TRUE)

\* _next_queue()
NextQueue(c) ==
    IF c.queue = <<>> THEN c
    ELSE OnEnviron([c EXCEPT !.queue = Tail(@)], Head(c.queue))

\* _final(), after which the next request of the queue has its turn
Final(c) ==
    IF ~c.keep THEN Out(c, c.environ, "empty", "close") ELSE NextQueue(Release(c))

\* _send(): k messages are taken before the socket refuses one; nothing is
\* written of an empty one.  A callback may add to the queue, or close.
RECURSIVE Sent(_, _)
Sent(c, k) ==
    IF c.out = <<>> THEN c
    ELSE LET m == Head(c.out)
             empty == m.kind = "empty"
             popped == [c EXCEPT !.out = Tail(@),
                                 !.wire = IF empty THEN @
                                          ELSE Append(@, [of |-> m.of,
                                                          kind |-> m.kind])]
             called == CASE m.then = "part" -> SendPart(popped, TRUE)
                         [] m.then = "final" -> Final(popped)
                         [] m.then = "close" -> CloseSession(popped, "done")
                         [] m.then = "none" -> popped
         IN  IF k = 0 /\ ~empty THEN [c EXCEPT !.wready = FALSE]
             ELSE Sent(called, IF empty THEN k ELSE k - 1)

Write(c, k) == IF c.open THEN Sent([c EXCEPT !.wready = TRUE], k) ELSE c

-----------------------------------------------------------------------------
(* The step of ensure(), called of a child that ended or of the future     *)
(* itself: when it is closed nothing more is taken, and when it is not     *)
(* ready the step comes again, of itself, in the next tick.                *)

ConnectionClosed(c, n) == c.futures[n].bound /\ ~c.open

RECURSIVE Step(_, _, _)
Step(c, n, fate) ==
    LET future == c.futures[n]
        outcome == IF fate = "self" THEN future.state ELSE fate
        d == [c EXCEPT !.futures[n].values = Tail(@)]
    IN  IF ConnectionClosed(c, n)
        THEN Ended([c EXCEPT !.futures[n].values = <<>>], n, "cancelled")
        ELSE IF future.bound /\ ~c.wready THEN NextTurn(c, "step", n)
        ELSE IF outcome \in {"failed", "cancelled"} THEN Ended(c, n, outcome)
        ELSE IF future.values = <<>> THEN Ended(c, n, "done")
        ELSE IF future.fate # "done" \/ Head(future.values) = "raise"
        THEN Ended([d EXCEPT !.futures[n].values = <<>>], n, "failed")
        ELSE IF Head(future.values) = "wait"
        THEN [d EXCEPT !.futures[n].child = "running"]
        ELSE Step(IF future.bound THEN Soon(d, "partial", n, "self") ELSE d,
                  n, fate)

\* mutant of Done: what failed is only told to the log
DoneLogged(c, n) ==
    LET future == c.futures[n]
        d == IF future.state = "cancelled" /\ future.child = "running"
             THEN ChildEnded(c, n, "cancelled") ELSE c
    IN  IF future.state = "done"
        THEN Soon([d EXCEPT !.future = 0, !.futures[n].bound = FALSE],
                  "part", n, "self")
        ELSE [d EXCEPT !.future = 0]

\* The callbacks of a future that ended: a child still runs if its parent is
\* cancelled; on_done() closes the connection of what failed, and raises, so
\* that the callbacks stay
Done(c, n) ==
    LET future == c.futures[n]
        d == IF future.state = "cancelled" /\ future.child = "running"
             THEN ChildEnded(c, n, "cancelled") ELSE c
    IN  IF future.state = "done"
        THEN Soon([d EXCEPT !.future = 0, !.futures[n].bound = FALSE],
                  "part", n, "self")
        ELSE CloseSession([d EXCEPT !.future = 0], "error")

\* on_partial()
Partial(c, n) ==
    IF c.futures[n].bound THEN SendData(c, n, "none") ELSE c

-----------------------------------------------------------------------------
Becomes(c) == session' = c

\* _delays() begins
ServeCalls ==
    /\ ~session.serving /\ session.calls # <<>>
    /\ Becomes([session EXCEPT !.serving = TRUE])
    /\ UNCHANGED <<serverEncoding, asked>>

\* it calls one, and what was set aside goes back at its end
CallNext(k) ==
    /\ session.serving
    /\ UNCHANGED <<serverEncoding, asked>>
    /\ LET x == Head(session.calls)
           c == [session EXCEPT !.calls = HeapPop(@)]
           d == CASE x.call = "flush" -> Write(c, k)
                  [] x.call = "step" -> Step(c, x.of, x.fate)
                  [] x.call = "done" -> Done(c, x.of)
                  [] x.call = "partial" -> Partial(c, x.of)
                  [] x.call = "part" -> SendPart(c, FALSE)
       IN  /\ x.call # "flush" => k = 0
           /\ Becomes(IF d.calls # <<>> THEN d
                      ELSE [d EXCEPT !.calls = PushAll(<<>>, d.aside),
                                     !.aside = <<>>, !.serving = FALSE])

\* on_write()
OnWrite(k) ==
    /\ ~session.serving /\ session.open /\ ~session.wready
    /\ UNCHANGED <<serverEncoding, asked>>
    /\ Becomes(Write(session, k))

\* what a coroutine waits for ends: another connection, a timer, a file
ChildEnds(n, fate) ==
    /\ ~session.serving /\ session.futures[n].child = "running"
    /\ UNCHANGED <<serverEncoding, asked>>
    /\ Becomes(ChildEnded(session, n, fate))

-----------------------------------------------------------------------------
(* The client.                                                             *)

Of(n) == SelectSeq(session.wire, LAMBDA m : m.of = n)

\* what the application gives of data: parts, and values of coroutines
Count(parts) ==
    FoldLeft(LAMBDA s, part : s + (CASE part.kind = "future" ->
                 Len(SelectSeq(part.values, LAMBDA v : v = "value"))
               [] part.kind = "raise" -> 0 [] OTHER -> 1), 0, parts)

Data(kind) == IF kind \in {"length", "close"} THEN "raw"
              ELSE IF kind = "chunked" THEN "chunk" ELSE "gzip"

\* a response that is whole, to who reads it as its head says
Complete(n) ==
    LET got == Of(n)
        count == Count(asked[n].response.parts)
        body == [i \in 1 .. count |-> Data(got[1].kind)]
    IN  /\ got # <<>>
        /\ [i \in 1 .. Len(got) - 1 |-> got[i + 1].kind] =
               CASE got[1].kind \in {"length", "close"} -> body
                 [] got[1].kind = "gzip" /\ count > 0 ->
                        body \o <<"finish", "last">>
                 [] OTHER -> Append(body, "last")
        /\ got[1].kind = "close" => ~session.open

\* the parser has a request; while a response goes on it waits in the queue
Ask(request, response) ==
    LET n == Len(asked) + 1
        c == [session EXCEPT !.keep = request.keep,
                             !.current = ResolveEncoding(request),
                             !.inputs = @ \cup {n}, !.at = Append(@, 1),
                             !.closings = Append(@, 0),
                             !.futures = Append(@, NoFuture)]
    IN  /\ ~session.serving /\ session.open /\ n <= MaxAsked
        /\ Crossed \/ \A i \in DOMAIN asked : Complete(i) /\ session.keep
        /\ asked' = Append(asked, [request |-> request, response |-> response])
        /\ Becomes(IF c.iterator # 0
                   THEN [c EXCEPT !.queue = Append(@, n)]
                   ELSE OnEnviron(c, n))
        /\ UNCHANGED serverEncoding

\* the client closes, or is lost
ClientLeaves ==
    /\ ~session.serving /\ session.open
    /\ Becomes(CloseSession(session, "client"))
    /\ UNCHANGED <<serverEncoding, asked>>

WsgiNext ==
    \/ ServeCalls
    \/ \E k \in 0 .. 3 : CallNext(k)
    \/ \E k \in 0 .. 3 : OnWrite(k)
    \/ \E n \in DOMAIN asked, fate \in {"done", "failed"} : ChildEnds(n, fate)
    \/ \E q \in HttpRequests, r \in HttpResponses : Ask(q, r)
    \/ ClientLeaves

-----------------------------------------------------------------------------
(* Properties.                                                             *)

\* Each response is sent as its head says, none before the one before it is
\* whole, and the server closes only after a whole response or a failure
\* (_send_part(), _final(), send_base(), flush()).
InFrames ==
    /\ \A i \in DOMAIN session.wire :
           LET n == session.wire[i].of
           IN  \A m \in 1 .. n - 1 : Complete(m)
    /\ session.why = "done" => \A n \in DOMAIN asked : Complete(n)

\* An iterator is closed once, when it is left, and the inputs that are open
\* are those of the request that is answered and of the ones that wait; of a
\* closed connection nothing is left, and no future runs (_release()).
Freed ==
    /\ \A n \in DOMAIN session.closings :
           session.closings[n] =
               IF n = session.iterator \/ n \in Range(session.queue)
               THEN 0 ELSE 1
    /\ session.inputs = ({session.environ} \ {0}) \cup Range(session.queue)
    /\ ~session.open =>
           /\ session.inputs = {} /\ session.iterator = 0
           /\ \A n \in DOMAIN session.futures :
                  session.futures[n].state # "running"

\* Both of them.
WsgiSafety == InFrames /\ Freed

\* The calls of one target are served "fifo like": no value of a coroutine is
\* yet to be passed on when its future has let go of its callbacks (delay()).
ValuesKept ==
    \A i \in DOMAIN session.calls :
        session.calls[i].call = "partial" =>
            session.futures[session.calls[i].of].bound

\* Every request is answered, unless the connection closes (_final()).
EveryAnswer ==
    (\E n \in DOMAIN asked : ~Complete(n)) ~>
        ~session.open \/ \A n \in DOMAIN asked : Complete(n)
=============================================================================
