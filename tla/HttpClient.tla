----------------------------- MODULE HttpClient -----------------------------
(***************************************************************************)
(* The synchronous HTTP client (clients/http.py): method() runs the loop   *)
(* until the answer comes or the connection ends, and keeps the protocol   *)
(* of a connection that stays open in `available`, by host, to be used     *)
(* again.  Servers and the network answer, close and stall as they like;   *)
(* they do not send what nobody asked for.                                 *)
(*                                                                         *)
(* The loop runs only inside of method(), and a step is one event of it.   *)
(***************************************************************************)
EXTENDS Integers, FiniteSets, Sequences

CONSTANTS Hosts,         \* the keys of `available`
          MaxProtocols,  \* bound: protocols that are made
          MaxCalls,      \* bound: calls of method()
          AutoRelease    \* auto_release of the client

ASSUME ClientAssumption ==
    MaxProtocols \in Nat /\ MaxCalls \in Nat /\ AutoRelease \in BOOLEAN

Protocols == 1 .. MaxProtocols
Calls == 1 .. MaxCalls

\* How a response ends: by its length, with the connection kept open or not, or
\* by the end of the connection alone.
Kinds == {"keep", "close", "open"}

VARIABLES
    protocols,  \* see ProtocolOf; 0 is no request
    wire,       \* of each connection, requests to the server, items to the client
    timers,     \* of protocols that wait to fire: of a request, or 0 for connecting
    available,  \* the pooled protocol of a host, or 0
    call,       \* the call of method() in progress: request, host, protocol
    asked,      \* the hosts of the calls so far
    stopping,   \* stop() of the loop was called
    results,    \* the request maps: whose answer it is, and the error
    released    \* cleanup() was called

clientVars == <<protocols, wire, timers, available, call, asked, stopping,
                results, released>>

ProtocolOf == [status: {"new", "connecting", "open", "lost", "closing", "closed"},
               host: Hosts \cup {"-"}, request: 0 .. MaxCalls,
               sending: 0 .. MaxCalls, head: {<<>>} \cup (Calls \X Kinds)]
NoCall == [request |-> 0, host |-> "-", protocol |-> 0]

ClientInit ==
    /\ protocols = [c \in Protocols |->
          [status |-> "new", host |-> "-", request |-> 0, sending |-> 0,
           head |-> <<>>]]
    /\ wire = [c \in Protocols |-> [up |-> <<>>, down |-> <<>>]]
    /\ timers = {} /\ available = [h \in Hosts |-> 0]
    /\ call = NoCall /\ asked = <<>> /\ stopping = FALSE /\ released = FALSE
    /\ results = [r \in Calls |-> [code |-> 0, error |-> "none"]]

Running == call # NoCall
Loop(c) == Running /\ c \in Protocols
Status(c) == protocols[c].status

\* set_error() does not replace an error.
WithError(result, error) ==
    IF result.error = "none" THEN [result EXCEPT !.error = error] ELSE result

-----------------------------------------------------------------------------
(* Closing a protocol.                                                     *)

\* What remains of the results when c closes: parse_closed() may give the
\* message, and a request that has no code then gets the error.
ResultsClosed(c, rs) ==
    LET p == protocols[c]
        message == p.head # <<>> /\ p.head[2] = "open"
        r == p.request
    IN  IF r = 0 THEN rs
        ELSE IF message THEN [rs EXCEPT ![r].code = p.head[1]]
        ELSE IF rs[r].code # 0 THEN rs
        ELSE [rs EXCEPT ![r] = WithError(@, "closed")]

\* close() of c: close_c(), and the "close" event, whose handler stops the loop
\* if the host has no pooled protocol.  rs are the results before.
Close(c, rs) ==
    LET h == protocols[c].host
    IN  /\ protocols' = [protocols EXCEPT ![c].status = "closing",
                                          ![c].head = <<>>, ![c].sending = 0]
        /\ wire' = [wire EXCEPT ![c] = [up |-> <<>>, down |-> <<>>]]
        /\ results' = ResultsClosed(c, rs)
        /\ stopping' = (stopping \/ available[h] = 0)
        /\ available' = [available EXCEPT ![h] = 0]

Closing(c) == Status(c) \in {"connecting", "open", "lost"}

-----------------------------------------------------------------------------
(* method().                                                               *)

\* the next one that is made
Fresh == {c \in Protocols : /\ Status(c) = "new"
                            /\ \A d \in 1 .. c - 1 : Status(d) # "new"}

\* a call that has nothing to use again: a new protocol, and its connect timer
Connecting(c, r, h) ==
    /\ protocols' = [protocols EXCEPT ![c] =
          [status |-> "connecting", host |-> h, request |-> r, sending |-> 0,
           head |-> <<>>]]
    /\ timers' = timers \cup {<<c, 0>>}
    /\ call' = [request |-> r, host |-> h, protocol |-> c]

Calling(h) ==
    /\ ~Running /\ ~released /\ Len(asked) < MaxCalls
    /\ asked' = Append(asked, h) /\ stopping' = FALSE

MethodNew(h, c) ==
    /\ Calling(h) /\ available[h] = 0 /\ c \in Fresh
    /\ Connecting(c, Len(asked'), h)
    /\ UNCHANGED <<wire, available, results, released>>

\* set() of the pooled protocol, and connection_made() at once
MethodReused(h) ==
    LET c == available[h]
        r == Len(asked')
    IN  /\ Calling(h) /\ c # 0 /\ Status(c) = "open"
        /\ available' = [available EXCEPT ![h] = 0]
        /\ protocols' = [protocols EXCEPT ![c].request = r, ![c].sending = r,
                                          ![c].head = <<>>]
        /\ call' = [request |-> r, host |-> h, protocol |-> c]
        /\ UNCHANGED <<wire, timers, results, released>>

\* The connection of the pooled protocol was closed and the protocol does not
\* know yet: it is closed, and another made.
MethodStale(h, c) ==
    LET stale == available[h]
        r == Len(asked')
    IN  /\ Calling(h) /\ stale # 0 /\ Status(stale) = "lost" /\ c \in Fresh
        /\ protocols' = [protocols EXCEPT
              ![stale].status = "closing",
              ![c] = [status |-> "connecting", host |-> h, request |-> r,
                      sending |-> 0, head |-> <<>>]]
        /\ wire' = [wire EXCEPT ![stale] = [up |-> <<>>, down |-> <<>>]]
        /\ timers' = timers \cup {<<c, 0>>}
        /\ available' = [available EXCEPT ![h] = 0]
        /\ call' = [request |-> r, host |-> h, protocol |-> c]
        /\ UNCHANGED <<results, released>>

\* run_forever() ends, and method() returns the request
Return ==
    /\ Running /\ stopping /\ call' = NoCall
    /\ UNCHANGED <<protocols, wire, timers, available, asked, stopping, results,
                   released>>

\* closes the pooled protocols, and the loop, which closes what it has
Cleanup ==
    /\ ~Running /\ ~released /\ released' = TRUE
    /\ protocols' = [c \in Protocols |->
          IF \E h \in Hosts : available[h] = c
          THEN [protocols[c] EXCEPT !.status = "closing"] ELSE protocols[c]]
    /\ available' = [h \in Hosts |-> 0]
    /\ UNCHANGED <<wire, timers, call, asked, stopping, results>>

-----------------------------------------------------------------------------
(* Events of the loop.                                                     *)

\* on_connect() of connect_stream(): connection_made() sends the request, or
\* the protocol was closed meanwhile and the connection is of no use
Connected(c) ==
    /\ Loop(c) /\ Status(c) = "connecting"
    /\ protocols' = [protocols EXCEPT ![c].status = "open",
                                      ![c].sending = protocols[c].request]
    /\ UNCHANGED <<wire, timers, available, call, asked, stopping, results,
                   released>>

ConnectFailed(c) ==
    /\ Loop(c) /\ Status(c) = "connecting" /\ Close(c, results)
    /\ UNCHANGED <<timers, call, asked, released>>

\* the request was handed on: the callback of send_request() sets the timer
Sent(c) ==
    /\ Loop(c) /\ Status(c) = "open" /\ protocols[c].sending # 0
    /\ wire' = [wire EXCEPT ![c].up = Append(@, protocols[c].sending)]
    /\ timers' = timers \cup {<<c, protocols[c].sending>>}
    /\ protocols' = [protocols EXCEPT ![c].sending = 0]
    /\ UNCHANGED <<available, call, asked, stopping, results, released>>

Read(c, item) ==
    /\ Loop(c) /\ Status(c) = "open" /\ wire[c].down # <<>>
    /\ wire[c].down[1][1] = item

\* the first part of a response; on_headers() and on_partial()
ReadHead(c) ==
    /\ Read(c, "head")
    /\ protocols' = [protocols EXCEPT ![c].head =
                        <<wire[c].down[1][2], wire[c].down[1][3]>>]
    /\ wire' = [wire EXCEPT ![c].down = Tail(@)]
    /\ UNCHANGED <<timers, available, call, asked, stopping, results, released>>

Answered(c) ==
    [results EXCEPT ![protocols[c].request].code = protocols[c].head[1]]

\* the message is complete, and the connection is not to be kept
MessageLast(c) ==
    /\ Read(c, "end") /\ (AutoRelease \/ protocols[c].head[2] = "close")
    /\ Close(c, Answered(c))
    /\ UNCHANGED <<timers, call, asked, released>>

\* or it is pooled
MessageKept(c) ==
    LET h == protocols[c].host
    IN  /\ Read(c, "end") /\ ~AutoRelease /\ protocols[c].head[2] = "keep"
        /\ results' = Answered(c)
        /\ protocols' = [q \in Protocols |->
              IF q = c THEN [protocols[c] EXCEPT !.head = <<>>]
              ELSE IF q = available[h]
              THEN [protocols[q] EXCEPT !.status = "closing"] ELSE protocols[q]]
        /\ wire' = [wire EXCEPT ![c].down = Tail(@)]
        /\ available' = [available EXCEPT ![h] = c] /\ stopping' = TRUE
        /\ UNCHANGED <<timers, call, asked, released>>

\* the connection closes, and connection_lost() is called in a later tick
ReadEnd(c) ==
    /\ Read(c, "eof")
    /\ protocols' = [protocols EXCEPT ![c].status = "lost"]
    /\ UNCHANGED <<wire, timers, available, call, asked, stopping, results,
                   released>>

ConnectionLost(c) ==
    /\ Loop(c) /\ Status(c) = "lost" /\ Close(c, results)
    /\ UNCHANGED <<timers, call, asked, released>>

Finish(c) ==
    /\ Loop(c) /\ Status(c) = "closing"
    /\ protocols' = [protocols EXCEPT ![c].status = "closed"]
    /\ UNCHANGED <<wire, timers, available, call, asked, stopping, results,
                   released>>

\* connect_timeout(): of a protocol that is not open, which may be one that was
\* and has closed
ConnectTimeout(c) ==
    LET r == protocols[c].request
        late == [results EXCEPT ![r] = WithError(@, "timeout")]
    IN  /\ Loop(c) /\ <<c, 0>> \in timers /\ timers' = timers \ {<<c, 0>>}
        /\ \/ /\ Status(c) \in {"open", "lost", "closing"}
              /\ UNCHANGED <<protocols, wire, results, stopping, available>>
           \/ Status(c) = "connecting" /\ Close(c, late)
           \/ /\ Status(c) = "closed" /\ results' = late
              /\ UNCHANGED <<protocols, wire, stopping, available>>
        /\ UNCHANGED <<call, asked, released>>

\* mutant of ReceiveTimeout: the protocol goes back to the pool
ReceiveTimeoutPooled(c, r) ==
    /\ Loop(c) /\ <<c, r>> \in timers /\ timers' = timers \ {<<c, r>>}
    /\ results' = [results EXCEPT ![r] = WithError(@, "timeout")]
    /\ IF protocols[c].request = r /\ Status(c) = "open" /\ results[r].code = 0
       THEN /\ available' = [available EXCEPT ![protocols[c].host] = c]
            /\ stopping' = TRUE
       ELSE UNCHANGED <<available, stopping>>
    /\ UNCHANGED <<protocols, wire, call, asked, released>>

\* mutant of ReceiveTimeout: the loop waits for the connection to end
ReceiveTimeoutWaits(c, r) ==
    /\ Loop(c) /\ <<c, r>> \in timers /\ timers' = timers \ {<<c, r>>}
    /\ results' = [results EXCEPT ![r] = WithError(@, "timeout")]
    /\ UNCHANGED <<protocols, wire, available, stopping, call, asked, released>>

\* receive_timeout() that does not start again
ReceiveTimeout(c, r) ==
    LET late == [results EXCEPT ![r] = WithError(@, "timeout")]
        gone == \/ Status(c) \notin {"open", "lost"} \/ protocols[c].request # r
                \/ results[r].code # 0
    IN  /\ Loop(c) /\ <<c, r>> \in timers /\ timers' = timers \ {<<c, r>>}
        /\ \/ /\ gone /\ UNCHANGED <<protocols, wire, results, stopping, available>>
           \/ ~gone /\ Close(c, late)
        /\ UNCHANGED <<call, asked, released>>

-----------------------------------------------------------------------------
(* The servers.                                                            *)

Connection(c) == Status(c) \in {"open", "lost"}
Ended(c) == \E i \in DOMAIN wire[c].down : wire[c].down[i][1] = "eof"

ServerAnswer(c, kind) ==
    LET r == wire[c].up[1]
        head == <<"head", r, kind>>
        items == CASE kind = "keep" -> <<head, <<"end">>>>
                   [] kind = "close" -> <<head, <<"end">>, <<"eof">>>>
                   [] kind = "open" -> <<head, <<"eof">>>>
    IN  /\ c \in Protocols /\ Connection(c) /\ wire[c].up # <<>> /\ ~Ended(c)
        /\ wire' = [wire EXCEPT ![c] = [up |-> Tail(@.up), down |-> @.down \o items]]
        /\ UNCHANGED <<protocols, timers, available, call, asked, stopping,
                       results, released>>

\* at any time, with requests that were not answered or none
ServerClose(c) ==
    /\ c \in Protocols /\ Connection(c) /\ ~Ended(c)
    /\ wire' = [wire EXCEPT ![c].down = Append(@, <<"eof">>)]
    /\ UNCHANGED <<protocols, timers, available, call, asked, stopping, results,
                   released>>

LoopStep(c) ==
    \/ Connected(c) \/ Sent(c) \/ ReadHead(c) \/ MessageLast(c)
    \/ MessageKept(c) \/ ReadEnd(c) \/ ConnectionLost(c) \/ Finish(c)
    \/ ConnectTimeout(c) \/ \E r \in Calls : ReceiveTimeout(c, r)

ClientNext ==
    \/ \E h \in Hosts : \/ MethodReused(h)
                        \/ \E c \in Protocols : MethodNew(h, c) \/ MethodStale(h, c)
    \/ Return \/ Cleanup
    \/ \E c \in Protocols :
          \/ LoopStep(c) \/ ConnectFailed(c) \/ ServerClose(c)
          \/ \E kind \in Kinds : ServerAnswer(c, kind)

ClientSpec == ClientInit /\ [][ClientNext]_clientVars

-----------------------------------------------------------------------------
(* Properties.                                                             *)

ReturnsResult ==
    \A r \in 1 .. Len(asked) :
        call.request # r \/ stopping =>
            results[r].code # 0 \/ results[r].error # "none"

\* No call gets the answer to another one or of another host, although
\* protocols are used again, answers come late and timers outlive requests;
\* and what is pooled owes no answer.  A call that returned has an answer or an
\* error: events of other protocols in the same loop, pooled or closing, do not
\* end it.
OwnAnswer ==
    /\ ReturnsResult
    /\ \A r \in Calls : results[r].code \in {0, r}
    /\ \A c \in Protocols : LET r == protocols[c].request IN
          /\ r # 0 => asked[r] = protocols[c].host
          /\ protocols[c].head # <<>> => protocols[c].head[1] = r
    /\ \A h \in Hosts : available[h] # 0 =>
          LET p == protocols[available[h]] IN
              /\ p.host = h /\ p.sending = 0 /\ p.head = <<>>
              /\ wire[available[h]].up = <<>>

\* A protocol that is not closed is in the pool, once, or the one of the call.
NoOrphan ==
    \A c \in Protocols :
        Closing(c) => \/ c = call.protocol
                      \/ available[protocols[c].host] = c

\* Calls and connections of the client belong together, and none is forgotten.
ClientSafety == OwnAnswer /\ NoOrphan
=============================================================================
