----------------------------- MODULE WebProofs -----------------------------
(***************************************************************************)
(* What the run of MCWeb checks on small instances is an invariant for any *)
(* values of the constants: in the HTTP client no call gets another's      *)
(* answer and no connection is forgotten; the reverse proxy pairs each     *)
(* answer with its request and counts its connections; no peer waits for   *)
(* a process that was already told of it; the parent of a preforked server *)
(* never blocks on its pipe.                                               *)
(***************************************************************************)
EXTENDS HttpClient, ReverseProxy, Listener, Prefork, SequenceTheorems,
        FiniteSetTheorems, TLAPS

-----------------------------------------------------------------------------
(* The HTTP client.                                                        *)

\* what a server puts on the wire
Items == {<<"end">>, <<"eof">>} \cup {<<"head", r, k>> : r \in Calls, k \in Kinds}
Wires == [up : Seq(Calls), down : Seq(Items)]

\* only the end of the connection is to come
OnlyEnd(down) == \A i \in 1 .. Len(down) : down[i][1] = "eof"

\* no request is in progress between p and w
Quiet(p, w) ==
    p.sending = 0 /\ p.head = <<>> /\ w.up = <<>> /\ OnlyEnd(w.down)

\* A request is to be sent, or on its way, or its answer is, or is being read;
\* and an answer begins at the front of what is on the wire, nothing before it.
Fits(p, w) ==
    /\ p.status \in {"new", "connecting"} => Quiet(p, w) /\ w.down = <<>>
    /\ p.sending # 0 \/ w.up # <<>> => p.head = <<>> /\ OnlyEnd(w.down)
    /\ p.sending # 0 => p.sending = p.request /\ w.up = <<>>
    /\ w.up # <<>> => w.up = <<p.request>>
    /\ p.head # <<>> => p.head[1] = p.request
    /\ \A i \in 1 .. Len(w.down) :
          /\ w.down[i][1] = "head" =>
                 i = 1 /\ w.down[i][2] = p.request /\ p.head = <<>>
          /\ w.down[i][1] = "end" => \/ i = 1 /\ p.head # <<>>
                                     \/ i = 2 /\ w.down[1][1] = "head"

\* the request of a protocol is one that was asked of its host
Known(p) ==
    IF p.status = "new" THEN p.request = 0
    ELSE p.request \in 1 .. Len(asked) /\ p.host = asked[p.request]

HasResult(x) == x.code # 0 \/ x.error # "none"
Results == [code : 0 .. MaxCalls, error : {"none", "closed", "timeout"}]

ClientTypes ==
    /\ protocols \in [Protocols -> ProtocolOf]
    /\ wire \in [Protocols -> Wires]
    /\ available \in [Hosts -> 0 .. MaxProtocols]
    /\ asked \in Seq(Hosts) /\ Len(asked) <= MaxCalls
    /\ stopping \in BOOLEAN
    /\ results \in [Calls -> Results]
    /\ call.request \in Nat /\ call.protocol \in Nat

\* A protocol is in the pool while it is open, between requests.
Pooled ==
    \A h \in Hosts : available[h] # 0 =>
        LET c == available[h]
        IN  /\ Status(c) \in {"open", "lost"} /\ protocols[c].host = h
            /\ Quiet(protocols[c], wire[c])

\* The host of the call has no other protocol in the pool; and when the loop
\* is told to stop the protocol of the call is in the pool, if it is open.
CallHolds ==
    Running =>
        LET c == call.protocol
        IN  /\ c \in Protocols /\ Status(c) # "new"
            /\ call.request \in 1 .. Len(asked)
            /\ protocols[c].request = call.request
            /\ available[protocols[c].host] \in {0, c}
            /\ stopping /\ Closing(c) => available[protocols[c].host] = c

ClientInv ==
    /\ ClientTypes /\ Pooled /\ CallHolds /\ NoOrphan /\ ReturnsResult
    /\ \A c \in Protocols : Fits(protocols[c], wire[c]) /\ Known(protocols[c])
    /\ \A r \in Calls : results[r].code \in {0, r}

Frame == <<available, call, asked, stopping, results>>

\* Constants and values.
LEMMA ClientConstants ==
    /\ MaxProtocols \in Nat /\ MaxCalls \in Nat
    /\ \A c \in Protocols : c \in Nat /\ c # 0 /\ c \in 0 .. MaxProtocols
    /\ \A r \in Calls : r \in Nat /\ r # 0 /\ r \in 0 .. MaxCalls
    /\ \A c \in 0 .. MaxProtocols : c # 0 => c \in Protocols
    /\ \A r \in 0 .. MaxCalls : r # 0 => r \in Calls
  BY ClientAssumption DEF Protocols, Calls

Heads == {<<>>} \cup (Calls \X Kinds)

LEMMA ItemFacts ==
    ASSUME NEW x \in Items
    PROVE  /\ x[1] \in {"head", "end", "eof"}
           /\ x[1] = "head" => x[2] \in Calls /\ x[3] \in Kinds
  BY DEF Items

\* One protocol changes, and what is on its wire, and nothing else.
LEMMA LocalStep ==
    ASSUME ClientInv, NEW c \in Protocols, Status(c) # "new",
           NEW p \in ProtocolOf, NEW w \in Wires,
           p.status # "new", p.request = protocols[c].request,
           p.host = protocols[c].host, Fits(p, w),
           p.status \in {"connecting", "open", "lost"} => Closing(c),
           available[protocols[c].host] = c =>
               p.status \in {"open", "lost"} /\ Quiet(p, w),
           protocols' = [protocols EXCEPT ![c] = p],
           wire' = [wire EXCEPT ![c] = w], UNCHANGED Frame
    PROVE  ClientInv'
<1>1. /\ protocols'[c] = p /\ wire'[c] = w
      /\ \A d \in Protocols \ {c} : protocols'[d] = protocols[d] /\ wire'[d] = wire[d]
      /\ protocols' \in [Protocols -> ProtocolOf] /\ wire' \in [Protocols -> Wires]
  BY DEF ClientInv, ClientTypes
<1>2. UNCHANGED <<available, call, asked, stopping, results>>
  BY DEF Frame
<1>3. \A d \in Protocols :
          /\ protocols'[d].request = protocols[d].request
          /\ protocols'[d].host = protocols[d].host
          /\ (protocols'[d].status = "new") <=> (protocols[d].status = "new")
          /\ Closing(d)' => Closing(d)
  BY <1>1 DEF Closing, Status
<1>4. ClientTypes' /\ ReturnsResult' /\ \A r \in Calls : results'[r].code \in {0, r}
  BY <1>1, <1>2 DEF ClientInv, ClientTypes, ReturnsResult
<1>5. \A d \in Protocols : Fits(protocols'[d], wire'[d])
  BY <1>1 DEF ClientInv
<1>6. \A d \in Protocols : Known(protocols[d])'
  BY <1>2, <1>3 DEF ClientInv, Known
<1>7. NoOrphan'
  BY <1>2, <1>3 DEF ClientInv, NoOrphan
<1>8. CallHolds'
  BY <1>2, <1>3 DEF ClientInv, CallHolds, Running, Status
<1>9. Pooled'
  <2> SUFFICES ASSUME NEW h \in Hosts, available'[h] # 0
               PROVE  /\ protocols'[available'[h]].status \in {"open", "lost"}
                      /\ protocols'[available'[h]].host = h
                      /\ Quiet(protocols'[available'[h]], wire'[available'[h]])
    BY DEF Pooled, Status
  <2>1. available'[h] \in Protocols /\ available'[h] = available[h]
    BY <1>2, ClientConstants DEF ClientInv, ClientTypes
  <2>2. CASE available[h] = c
    BY <1>1, <2>1, <2>2 DEF ClientInv, Pooled, Status
  <2>3. CASE available[h] # c
    BY <1>1, <2>1, <2>3 DEF ClientInv, Pooled, Status
  <2> QED BY <2>2, <2>3
<1> QED BY <1>4, <1>5, <1>6, <1>7, <1>8, <1>9 DEF ClientInv

\* More results, each of its own request.
More(rs) ==
    /\ rs \in [Calls -> Results]
    /\ \A r \in Calls : /\ HasResult(results[r]) => HasResult(rs[r])
                        /\ rs[r].code \in {0, r}

LEMMA ResultStep ==
    ASSUME ClientInv, More(results'),
           UNCHANGED <<protocols, wire, available, call, asked, stopping>>
    PROVE  ClientInv'
<1>1. ReturnsResult'
  <2> SUFFICES ASSUME NEW r \in 1 .. Len(asked), call.request # r \/ stopping
               PROVE  HasResult(results'[r])
    BY DEF ReturnsResult, HasResult
  <2>1. r \in Calls
    BY ClientConstants, LenProperties DEF ClientInv, ClientTypes, Calls
  <2>2. HasResult(results[r])
    BY DEF ClientInv, ReturnsResult, HasResult
  <2> QED BY <2>1, <2>2 DEF More
<1>2. ClientTypes' /\ \A r \in Calls : results'[r].code \in {0, r}
  BY DEF ClientInv, ClientTypes, More
<1>3. Pooled' /\ CallHolds' /\ NoOrphan'
  BY DEF ClientInv, Pooled, CallHolds, NoOrphan, Status, Running, Closing
<1>4. \A c \in Protocols : Fits(protocols'[c], wire'[c]) /\ Known(protocols[c])'
  BY DEF ClientInv, Known
<1> QED BY <1>1, <1>2, <1>3, <1>4 DEF ClientInv

\* What is known of a protocol that is not new.
LEMMA MadeFacts ==
    ASSUME ClientInv, NEW c \in Protocols, Status(c) # "new"
    PROVE  /\ protocols[c].host \in Hosts /\ protocols[c].request \in Calls
           /\ protocols[c].request \in 1 .. Len(asked)
           /\ protocols[c].head # <<>> =>
                  /\ protocols[c].head[1] = protocols[c].request
                  /\ protocols[c].head[2] \in Kinds
<1>1. protocols[c].request \in 1 .. Len(asked) /\ protocols[c].host = asked[protocols[c].request]
  BY DEF ClientInv, Known, Status
<1>2. Len(asked) \in Nat /\ Len(asked) <= MaxCalls /\ asked \in Seq(Hosts)
  BY LenProperties DEF ClientInv, ClientTypes
<1>3. protocols[c].head \in {<<>>} \cup (Calls \X Kinds)
  BY DEF ClientInv, ClientTypes, ProtocolOf
<1>4. protocols[c].host \in Hosts
  BY <1>1, <1>2, ElementOfSeq
<1>5. protocols[c].request \in Calls
  BY <1>1, <1>2, ClientConstants DEF Calls
<1>6. protocols[c].head # <<>> => protocols[c].head[1] = protocols[c].request
  BY DEF ClientInv, Fits
<1> QED BY <1>1, <1>3, <1>4, <1>5, <1>6

LEMMA ClosedResults ==
    ASSUME ClientInv, NEW c \in Protocols, Closing(c), NEW rs, More(rs)
    PROVE  /\ More(ResultsClosed(c, rs))
           /\ HasResult(ResultsClosed(c, rs)[protocols[c].request])
<1>1. Status(c) # "new"
  BY DEF Closing
<1>2. PICK r \in Calls : r = protocols[c].request
  BY <1>1, MadeFacts
<1>3. r # 0 /\ r \in Nat /\ r \in 0 .. MaxCalls
  BY ClientConstants
<1>4. rs \in [Calls -> Results] /\ rs[r] \in Results
  BY DEF More
<1>5. CASE protocols[c].head # <<>> /\ protocols[c].head[2] = "open"
  <2>1. ResultsClosed(c, rs) = [rs EXCEPT ![r].code = r]
    BY <1>1, <1>2, <1>3, <1>5, MadeFacts DEF ResultsClosed
  <2>2. [rs[r] EXCEPT !.code = r] \in Results
    BY <1>3, <1>4 DEF Results
  <2> QED BY <1>2, <1>3, <1>4, <2>1, <2>2 DEF More, HasResult, Results
<1>6. CASE ~(protocols[c].head # <<>> /\ protocols[c].head[2] = "open") /\ rs[r].code # 0
  <2>1. ResultsClosed(c, rs) = rs
    BY <1>2, <1>3, <1>6 DEF ResultsClosed
  <2> QED BY <1>2, <1>6, <2>1 DEF More, HasResult
<1>7. CASE ~(protocols[c].head # <<>> /\ protocols[c].head[2] = "open") /\ rs[r].code = 0
  <2>1. ResultsClosed(c, rs) = [rs EXCEPT ![r] = WithError(rs[r], "closed")]
    BY <1>2, <1>3, <1>4, <1>7 DEF ResultsClosed
  <2>2. /\ WithError(rs[r], "closed") \in Results
        /\ WithError(rs[r], "closed").code = rs[r].code
        /\ WithError(rs[r], "closed").error # "none"
    BY <1>4 DEF WithError, Results
  <2> QED BY <1>2, <1>4, <2>1, <2>2 DEF More, HasResult
<1> QED BY <1>5, <1>6, <1>7

\* A protocol closes: if it is not the one of the call it leaves the pool, and
\* the loop is not told to stop.
LEMMA CloseStep ==
    ASSUME ClientInv, NEW c \in Protocols, Running, Closing(c), NEW rs, More(rs),
           Close(c, rs), UNCHANGED <<call, asked>>
    PROVE  ClientInv'
<1>1. Status(c) # "new"
  BY DEF Closing
<1>2. PICK h \in Hosts : h = protocols[c].host
  BY <1>1, MadeFacts
<1>3. /\ protocols' = [protocols EXCEPT ![c].status = "closing",
                                       ![c].head = <<>>, ![c].sending = 0]
      /\ wire' = [wire EXCEPT ![c] = [up |-> <<>>, down |-> <<>>]]
      /\ results' = ResultsClosed(c, rs)
      /\ stopping' = (stopping \/ available[h] = 0)
      /\ available' = [available EXCEPT ![h] = 0]
  BY <1>2 DEF Close
<1>4. /\ protocols \in [Protocols -> ProtocolOf] /\ wire \in [Protocols -> Wires]
      /\ available \in [Hosts -> 0 .. MaxProtocols] /\ stopping \in BOOLEAN
      /\ protocols[c] \in ProtocolOf
  BY DEF ClientInv, ClientTypes
<1>5. /\ protocols'[c] = [protocols[c] EXCEPT !.status = "closing", !.head = <<>>,
                                             !.sending = 0]
      /\ wire'[c] = [up |-> <<>>, down |-> <<>>]
      /\ \A d \in Protocols \ {c} : protocols'[d] = protocols[d] /\ wire'[d] = wire[d]
  BY <1>3, <1>4
<1>6. /\ protocols'[c] \in ProtocolOf /\ protocols'[c].status = "closing"
      /\ protocols'[c].request = protocols[c].request
      /\ protocols'[c].host = protocols[c].host
      /\ protocols'[c].head = <<>> /\ protocols'[c].sending = 0
  <2>1. 0 \in 0 .. MaxCalls /\ <<>> \in Heads
    BY ClientConstants DEF Heads
  <2>2. PICK p \in ProtocolOf : p = protocols[c]
    BY <1>4
  <2>3. PICK q : q = protocols'[c]
    OBVIOUS
  <2>4. q = [p EXCEPT !.status = "closing", !.head = <<>>, !.sending = 0]
    BY <1>5, <2>2, <2>3
  <2>5. /\ q \in ProtocolOf /\ q.status = "closing" /\ q.head = <<>>
        /\ q.sending = 0 /\ q.request = p.request /\ q.host = p.host
    BY <2>1, <2>4 DEF ProtocolOf, Heads
  <2> QED BY <2>2, <2>3, <2>5
<1>7. <<>> \in Seq(Calls) /\ <<>> \in Seq(Items) /\ wire'[c] \in Wires
  BY <1>5 DEF Wires
<1>8. /\ available'[h] = 0 /\ \A g \in Hosts \ {h} : available'[g] = available[g]
      /\ available' \in [Hosts -> 0 .. MaxProtocols]
  BY <1>3, <1>4, ClientConstants
<1>9. c = call.protocol \/ available[h] = c
  BY <1>2 DEF ClientInv, NoOrphan
<1>10. More(results') /\ HasResult(results'[protocols[c].request])
  BY <1>3, ClosedResults
<1>11. available[h] \in {0, c}
  BY <1>2, <1>9 DEF ClientInv, CallHolds
<1>12. protocols' \in [Protocols -> ProtocolOf] /\ wire' \in [Protocols -> Wires]
  BY <1>3, <1>4, <1>5, <1>6, <1>7
<1>13. ClientTypes'
  BY <1>3, <1>4, <1>8, <1>10, <1>12 DEF ClientInv, ClientTypes, More
<1>14. \A d \in Protocols : Fits(protocols'[d], wire'[d])
  <2>1. Fits(protocols'[c], wire'[c])
    BY <1>5, <1>6 DEF Fits, Quiet, OnlyEnd
  <2> QED BY <1>5, <2>1 DEF ClientInv
<1>15. \A d \in Protocols : Known(protocols[d])'
  <2>1. Known(protocols[c])'
    BY <1>1, <1>6 DEF ClientInv, Known, Status
  <2>2. \A d \in Protocols \ {c} : Known(protocols[d])'
    BY <1>5 DEF ClientInv, Known
  <2> QED BY <2>1, <2>2
<1>16. \A d \in Protocols : Closing(d)' => d # c /\ Closing(d)
  BY <1>5, <1>6 DEF Closing, Status
<1>17. NoOrphan'
  <2> SUFFICES ASSUME NEW d \in Protocols, Closing(d)', d # call.protocol
               PROVE  available'[protocols'[d].host] = d
    BY DEF NoOrphan
  <2>1. d # c /\ Closing(d) /\ protocols'[d] = protocols[d]
    BY <1>5, <1>16
  <2>2. available[protocols[d].host] = d /\ d # 0
    BY <2>1, ClientConstants DEF ClientInv, NoOrphan
  <2>3. protocols[d].host # h /\ protocols[d].host \in Hosts
    BY <1>11, <2>1, <2>2, MadeFacts DEF Closing
  <2> QED BY <1>8, <2>1, <2>2, <2>3
<1>18. Pooled'
  <2> SUFFICES ASSUME NEW g \in Hosts, available'[g] # 0
               PROVE  /\ protocols'[available'[g]].status \in {"open", "lost"}
                      /\ protocols'[available'[g]].host = g
                      /\ Quiet(protocols'[available'[g]], wire'[available'[g]])
    BY DEF Pooled, Status
  <2>1. g # h /\ available'[g] = available[g] /\ available[g] \in Protocols
    BY <1>4, <1>8, ClientConstants
  <2>2. /\ protocols[available[g]].status \in {"open", "lost"}
        /\ protocols[available[g]].host = g
        /\ Quiet(protocols[available[g]], wire[available[g]])
    BY <2>1 DEF ClientInv, Pooled, Status
  <2>3. available[g] # c
    BY <1>2, <2>1, <2>2
  <2> QED BY <1>5, <2>1, <2>2, <2>3
<1>19. CallHolds'
  <2> DEFINE d == call.protocol
  <2>1. /\ d \in Protocols /\ Status(d) # "new" /\ call.request \in 1 .. Len(asked)
        /\ protocols[d].request = call.request
        /\ available[protocols[d].host] \in {0, d}
        /\ stopping /\ Closing(d) => available[protocols[d].host] = d
    BY DEF ClientInv, CallHolds
  <2>2. protocols[d].host \in Hosts
    BY <2>1, MadeFacts
  <2>3. /\ protocols'[d].status # "new" /\ protocols'[d].host = protocols[d].host
        /\ protocols'[d].request = call.request
    BY <1>5, <1>6, <2>1 DEF Status
  <2>4. available'[protocols'[d].host] \in {0, d}
    BY <1>8, <2>1, <2>2, <2>3
  <2>5. ASSUME stopping', Closing(d)'
        PROVE  available'[protocols'[d].host] = d
    <3>1. d # c /\ Closing(d)
      BY <1>16, <2>1, <2>5
    <3>2. available[h] = c /\ c # 0
      BY <1>9, <3>1, ClientConstants
    <3>3. stopping /\ available[protocols[d].host] = d
      BY <1>3, <2>1, <2>5, <3>1, <3>2
    <3> QED BY <1>8, <2>2, <2>3, <3>1, <3>2, <3>3
  <2> QED BY <2>1, <2>3, <2>4, <2>5 DEF CallHolds, Status
<1>20. ReturnsResult'
  <2> SUFFICES ASSUME NEW r \in 1 .. Len(asked), call.request # r \/ stopping'
               PROVE  HasResult(results'[r])
    BY DEF ReturnsResult, HasResult
  <2>1. r \in Calls
    BY <1>13, LenProperties, ClientConstants DEF ClientTypes, Calls
  <2>2. CASE call.request # r \/ stopping
    BY <1>10, <2>1, <2>2 DEF ClientInv, ReturnsResult, HasResult, More
  <2>3. CASE call.request = r /\ ~stopping
    <3>1. available[h] = 0 /\ c = call.protocol
      BY <1>3, <1>9, <2>3, ClientConstants
    <3>2. protocols[c].request = r
      BY <2>3, <3>1 DEF ClientInv, CallHolds
    <3> QED BY <1>10, <3>2
  <2> QED BY <2>2, <2>3
<1> QED BY <1>10, <1>13, <1>14, <1>15, <1>17, <1>18, <1>19, <1>20 DEF ClientInv, More

LEMMA PooledFacts ==
    ASSUME ClientInv, NEW c \in Protocols, Status(c) # "new",
           available[protocols[c].host] = c
    PROVE  Status(c) \in {"open", "lost"} /\ Quiet(protocols[c], wire[c])
  BY MadeFacts, ClientConstants DEF ClientInv, Pooled

LEMMA WireFacts ==
    ASSUME ClientInv, NEW c \in Protocols
    PROVE  /\ protocols[c] \in ProtocolOf /\ wire[c] \in Wires
           /\ wire[c].up \in Seq(Calls) /\ wire[c].down \in Seq(Items)
           /\ Len(wire[c].down) \in Nat
           /\ \A i \in 1 .. Len(wire[c].down) : wire[c].down[i] \in Items
           /\ wire[c].down # <<>> => 1 \in 1 .. Len(wire[c].down)
           /\ Fits(protocols[c], wire[c])
<1>1. /\ protocols[c] \in ProtocolOf /\ wire[c] \in Wires
      /\ wire[c].up \in Seq(Calls) /\ wire[c].down \in Seq(Items)
      /\ Fits(protocols[c], wire[c])
  BY DEF ClientInv, ClientTypes, Wires
<1>2. PICK d \in Seq(Items) : d = wire[c].down
  BY <1>1
<1>3. Len(d) \in Nat /\ \A i \in 1 .. Len(d) : d[i] \in Items
  BY LenProperties, ElementOfSeq
<1>4. d # <<>> => 1 \in 1 .. Len(d)
  BY <1>3, EmptySeq
<1> QED BY <1>1, <1>2, <1>3, <1>4

LEMMA ConnectedStep ==
    ASSUME ClientInv, NEW c \in Protocols, Connected(c)
    PROVE  ClientInv'
<1>1. Status(c) = "connecting" /\ Status(c) # "new" /\ UNCHANGED Frame
  BY DEF Connected, Frame
<1>2. PICK p : p = [protocols[c] EXCEPT !.status = "open",
                                        !.sending = protocols[c].request]
  OBVIOUS
<1>3. PICK w : w = wire[c]
  OBVIOUS
<1>4. protocols' = [protocols EXCEPT ![c] = p] /\ wire' = [wire EXCEPT ![c] = w]
  BY <1>2, <1>3 DEF Connected, ClientInv, ClientTypes
<1>5. protocols[c] \in ProtocolOf /\ w \in Wires /\ Fits(protocols[c], w)
  BY <1>3, WireFacts
<1>6. /\ p \in ProtocolOf /\ p.status = "open" /\ p.sending = protocols[c].request
      /\ p.request = protocols[c].request /\ p.host = protocols[c].host
      /\ p.head = protocols[c].head
  BY <1>2, <1>5 DEF ProtocolOf
<1>7. Quiet(protocols[c], w) /\ w.down = <<>>
  BY <1>1, <1>5 DEF Fits, Status
<1>8. Fits(p, w)
  BY <1>6, <1>7 DEF Fits, Quiet, OnlyEnd
<1>9. available[protocols[c].host] # c
  BY <1>1, PooledFacts
<1>10. Closing(c)
  BY <1>1 DEF Closing
<1> QED BY <1>1, <1>4, <1>5, <1>6, <1>8, <1>9, <1>10, LocalStep

LEMMA SentStep ==
    ASSUME ClientInv, NEW c \in Protocols, Sent(c)
    PROVE  ClientInv'
<1>1. /\ Status(c) = "open" /\ Status(c) # "new" /\ UNCHANGED Frame
      /\ protocols[c].sending # 0
  BY DEF Sent, Frame
<1>2. PICK p : p = [protocols[c] EXCEPT !.sending = 0]
  OBVIOUS
<1>3. PICK w : w = [wire[c] EXCEPT !.up = Append(@, protocols[c].sending)]
  OBVIOUS
<1>4. protocols' = [protocols EXCEPT ![c] = p] /\ wire' = [wire EXCEPT ![c] = w]
  BY <1>2, <1>3 DEF Sent, ClientInv, ClientTypes
<1>5. /\ protocols[c] \in ProtocolOf /\ wire[c] \in Wires
      /\ Fits(protocols[c], wire[c])
  BY WireFacts
<1>6. /\ wire[c].up = <<>> /\ protocols[c].sending = protocols[c].request
      /\ protocols[c].head = <<>> /\ OnlyEnd(wire[c].down)
  BY <1>1, <1>5 DEF Fits
<1>7. PICK r \in Calls : r = protocols[c].request
  BY <1>1, MadeFacts
<1>8. /\ Append(<<>>, r) = <<r>> /\ <<r>> \in Seq(Calls) /\ <<r>> # <<>>
  OBVIOUS
<1>9. w \in Wires /\ w.up = <<r>> /\ w.down = wire[c].down
  BY <1>3, <1>5, <1>6, <1>7, <1>8 DEF Wires
<1>10. /\ p \in ProtocolOf /\ p.status = "open" /\ p.sending = 0
       /\ p.request = protocols[c].request /\ p.host = protocols[c].host
       /\ p.head = protocols[c].head
  BY <1>1, <1>2, <1>5, ClientConstants DEF ProtocolOf, Status
<1>11. Fits(p, w)
  BY <1>5, <1>6, <1>7, <1>8, <1>9, <1>10 DEF Fits
<1>12. available[protocols[c].host] # c
  BY <1>1, PooledFacts DEF Quiet
<1>13. Closing(c)
  BY <1>1 DEF Closing
<1> QED BY <1>1, <1>4, <1>9, <1>10, <1>11, <1>12, <1>13, LocalStep

LEMMA ReadHeadStep ==
    ASSUME ClientInv, NEW c \in Protocols, ReadHead(c)
    PROVE  ClientInv'
<1>1. /\ Status(c) = "open" /\ Status(c) # "new" /\ UNCHANGED Frame
      /\ wire[c].down # <<>> /\ wire[c].down[1][1] = "head"
  BY DEF ReadHead, Read, Frame
<1>2. /\ protocols[c] \in ProtocolOf /\ wire[c] \in Wires
      /\ Fits(protocols[c], wire[c]) /\ wire[c].down \in Seq(Items)
      /\ wire[c].down[1] \in Items /\ 1 \in 1 .. Len(wire[c].down)
  BY <1>1, WireFacts
<1>3. PICK x : x = <<wire[c].down[1][2], wire[c].down[1][3]>>
  OBVIOUS
<1>4. PICK p : p = [protocols[c] EXCEPT !.head = x]
  OBVIOUS
<1>5. PICK w : w = [wire[c] EXCEPT !.down = Tail(@)]
  OBVIOUS
<1>6. protocols' = [protocols EXCEPT ![c] = p] /\ wire' = [wire EXCEPT ![c] = w]
  BY <1>3, <1>4, <1>5 DEF ReadHead, ClientInv, ClientTypes
<1>7. wire[c].down[1][2] \in Calls /\ wire[c].down[1][3] \in Kinds
  BY <1>1, <1>2, ItemFacts
<1>8. x \in Heads /\ x # <<>> /\ x[1] = protocols[c].request
  <2>1. wire[c].down[1][2] = protocols[c].request
    BY <1>1, <1>2 DEF Fits
  <2> QED BY <1>3, <1>7, <2>1 DEF Heads
<1>9. PICK d \in Seq(Items) : d = wire[c].down
  BY <1>2
<1>10. /\ Tail(d) \in Seq(Items) /\ Len(d) \in Nat /\ Len(Tail(d)) = Len(d) - 1
       /\ \A i \in 1 .. Len(Tail(d)) : Tail(d)[i] = d[i + 1]
  BY <1>1, <1>9, HeadTailProperties, LenProperties
<1>11. w \in Wires /\ w.up = wire[c].up /\ w.down = Tail(d)
  BY <1>2, <1>5, <1>9, <1>10 DEF Wires
<1>12. /\ p \in ProtocolOf /\ p.status = "open" /\ p.sending = protocols[c].sending
       /\ p.request = protocols[c].request /\ p.host = protocols[c].host /\ p.head = x
  BY <1>1, <1>2, <1>4, <1>8 DEF ProtocolOf, Status, Heads
<1>13. ~OnlyEnd(d)
  BY <1>1, <1>2, <1>9 DEF OnlyEnd
<1>14. protocols[c].sending = 0 /\ wire[c].up = <<>>
  BY <1>2, <1>9, <1>13 DEF Fits
<1>15. ASSUME NEW i \in 1 .. Len(Tail(d))
       PROVE  /\ Tail(d)[i][1] # "head"
              /\ Tail(d)[i][1] = "end" => i = 1
  <2>1. i + 1 \in 1 .. Len(d) /\ i + 1 # 1 /\ Tail(d)[i] = d[i + 1]
    BY <1>10
  <2>2. /\ d[i + 1][1] = "head" => i + 1 = 1
        /\ d[i + 1][1] = "end" => i + 1 = 1 \/ i + 1 = 2
    BY <1>2, <1>9, <2>1 DEF Fits
  <2> QED BY <1>10, <2>1, <2>2
<1>16. Fits(p, w)
  BY <1>8, <1>11, <1>12, <1>14, <1>15 DEF Fits
<1>17. available[protocols[c].host] # c
  BY <1>1, <1>9, <1>13, PooledFacts DEF Quiet
<1>18. Closing(c)
  BY <1>1 DEF Closing
<1> QED BY <1>1, <1>6, <1>11, <1>12, <1>16, <1>17, <1>18, LocalStep

\* Only the status changes: the connection ends, or the protocol is done with.
LEMMA StatusStep ==
    ASSUME ClientInv, NEW c \in Protocols, ReadEnd(c) \/ Finish(c)
    PROVE  ClientInv'
<1>1. PICK s : s = IF Status(c) = "open" THEN "lost" ELSE "closed"
  OBVIOUS
<1>2. /\ Status(c) # "new" /\ UNCHANGED Frame /\ s \in {"lost", "closed"}
      /\ s = "lost" => Status(c) = "open"
      /\ s = "closed" => Status(c) = "closing"
  BY <1>1 DEF ReadEnd, Finish, Read, Frame
<1>3. PICK p : p = [protocols[c] EXCEPT !.status = s]
  OBVIOUS
<1>4. PICK w : w = wire[c]
  OBVIOUS
<1>5. protocols' = [protocols EXCEPT ![c] = p] /\ wire' = [wire EXCEPT ![c] = w]
  BY <1>1, <1>3, <1>4 DEF ReadEnd, Finish, Read, ClientInv, ClientTypes
<1>6. protocols[c] \in ProtocolOf /\ w \in Wires /\ Fits(protocols[c], w)
  BY <1>4, WireFacts
<1>7. /\ p \in ProtocolOf /\ p.status = s /\ p.sending = protocols[c].sending
      /\ p.request = protocols[c].request /\ p.host = protocols[c].host
      /\ p.head = protocols[c].head
  BY <1>2, <1>3, <1>6 DEF ProtocolOf
<1>8. Fits(p, w)
  BY <1>2, <1>6, <1>7 DEF Fits
<1>9. available[protocols[c].host] = c =>
          p.status \in {"open", "lost"} /\ Quiet(p, w)
  BY <1>2, <1>4, <1>7, PooledFacts DEF Quiet
<1>10. p.status \in {"connecting", "open", "lost"} => Closing(c)
  BY <1>2, <1>7 DEF Closing
<1>11. p.status # "new"
  BY <1>2, <1>7
<1> QED BY <1>2, <1>5, <1>6, <1>7, <1>8, <1>9, <1>10, <1>11, LocalStep

LEMMA ServerCloseStep ==
    ASSUME ClientInv, NEW c \in Protocols, ServerClose(c)
    PROVE  ClientInv'
<1>1. Status(c) \in {"open", "lost"} /\ Status(c) # "new" /\ UNCHANGED Frame
  BY DEF ServerClose, Connection, Frame
<1>2. PICK p : p = protocols[c]
  OBVIOUS
<1>3. PICK w : w = [wire[c] EXCEPT !.down = Append(@, <<"eof">>)]
  OBVIOUS
<1>4. protocols' = [protocols EXCEPT ![c] = p] /\ wire' = [wire EXCEPT ![c] = w]
  BY <1>2, <1>3 DEF ServerClose, ClientInv, ClientTypes
<1>5. /\ p \in ProtocolOf /\ wire[c] \in Wires
      /\ Fits(p, wire[c]) /\ wire[c].down \in Seq(Items)
  BY <1>2, WireFacts
<1>6. PICK d \in Seq(Items) : d = wire[c].down
  BY <1>5
<1>7. <<"eof">> \in Items
  BY DEF Items
<1>8. PICK e : e = Append(d, <<"eof">>)
  OBVIOUS
<1>9. /\ e \in Seq(Items) /\ Len(d) \in Nat /\ Len(e) = Len(d) + 1
      /\ e[Len(d) + 1] = <<"eof">> /\ \A i \in 1 .. Len(d) : e[i] = d[i]
  BY <1>7, <1>8, AppendProperties, LenProperties
<1>10. w \in Wires /\ w.up = wire[c].up /\ w.down = e
  BY <1>3, <1>5, <1>6, <1>8, <1>9 DEF Wires
<1>11. \A i \in 1 .. Len(e) : e[i][1] = "eof" \/ (i \in 1 .. Len(d) /\ e[i] = d[i])
  BY <1>9
<1>12. OnlyEnd(d) => OnlyEnd(e)
  BY <1>11 DEF OnlyEnd
<1>13. Fits(p, w)
  <2>1. p.status \notin {"new", "connecting"}
    BY <1>1, <1>2 DEF Status
  <2>2. ASSUME NEW i \in 1 .. Len(e)
        PROVE  /\ e[i][1] = "head" => i = 1 /\ e[i][2] = p.request /\ p.head = <<>>
               /\ e[i][1] = "end" => (i = 1 /\ p.head # <<>>) \/ (i = 2 /\ e[1][1] = "head")
    <3>1. CASE e[i][1] = "eof"
      BY <3>1
    <3>2. CASE i \in 1 .. Len(d) /\ e[i] = d[i]
      <4>1. 1 \in 1 .. Len(d) /\ e[1] = d[1]
        BY <1>9, <3>2
      <4> QED BY <1>5, <1>6, <3>2, <4>1 DEF Fits
    <3> QED BY <1>11, <3>1, <3>2
  <2>3. /\ p.sending # 0 \/ w.up # <<>> => p.head = <<>> /\ OnlyEnd(w.down)
        /\ p.sending # 0 => p.sending = p.request /\ w.up = <<>>
        /\ w.up # <<>> => w.up = <<p.request>>
        /\ p.head # <<>> => p.head[1] = p.request
    BY <1>5, <1>6, <1>10, <1>12 DEF Fits
  <2> QED BY <1>10, <2>1, <2>2, <2>3 DEF Fits
<1>14. available[protocols[c].host] = c =>
           p.status \in {"open", "lost"} /\ Quiet(p, w)
  BY <1>1, <1>2, <1>6, <1>10, <1>12, PooledFacts DEF Quiet, Status
<1>15. Closing(c) /\ p.status # "new"
  BY <1>1, <1>2 DEF Closing, Status
<1> QED BY <1>1, <1>2, <1>4, <1>5, <1>10, <1>13, <1>14, <1>15, LocalStep

LEMMA ServerAnswerStep ==
    ASSUME ClientInv, NEW c \in Protocols, NEW kind \in Kinds, ServerAnswer(c, kind)
    PROVE  ClientInv'
<1>1. /\ Status(c) \in {"open", "lost"} /\ Status(c) # "new" /\ UNCHANGED Frame
      /\ wire[c].up # <<>> /\ ~Ended(c)
  BY DEF ServerAnswer, Connection, Frame
<1>2. PICK p : p = protocols[c]
  OBVIOUS
<1>3. /\ p \in ProtocolOf /\ wire[c] \in Wires /\ Fits(p, wire[c])
      /\ wire[c].down # <<>> => 1 \in 1 .. Len(wire[c].down)
      /\ wire[c].down \in Seq(Items)
  BY <1>2, WireFacts
<1>4. PICK r \in Calls : r = p.request
  BY <1>1, <1>2, MadeFacts
<1>5. /\ wire[c].up = <<r>> /\ p.head = <<>> /\ p.sending = 0
      /\ OnlyEnd(wire[c].down) /\ p.status \in {"open", "lost"}
  BY <1>1, <1>2, <1>3, <1>4 DEF Fits, Status
<1>6. wire[c].down = <<>>
  <2> SUFFICES ASSUME wire[c].down # <<>>  PROVE FALSE
    OBVIOUS
  <2>1. 1 \in DOMAIN wire[c].down
    BY <1>3
  <2>2. wire[c].down[1][1] = "eof"
    BY <1>3, <1>5 DEF OnlyEnd
  <2> QED BY <1>1, <2>1, <2>2 DEF Ended
<1>7. PICK items : items =
          CASE kind = "keep" -> <<<<"head", r, kind>>, <<"end">>>>
            [] kind = "close" -> <<<<"head", r, kind>>, <<"end">>, <<"eof">>>>
            [] kind = "open" -> <<<<"head", r, kind>>, <<"eof">>>>
  OBVIOUS
<1>8. <<"head", r, kind>> \in Items /\ <<"end">> \in Items /\ <<"eof">> \in Items
  BY DEF Items
<1>9. kind \in {"keep", "close", "open"}
  BY DEF Kinds
<1>10. /\ items \in Seq(Items)
       /\ Len(items) \in {2, 3}
       /\ items[1] = <<"head", r, kind>>
       /\ items[2] = <<"end">> \/ items[2] = <<"eof">>
       /\ Len(items) = 3 => items[3] = <<"eof">>
  BY <1>7, <1>8, <1>9
<1>11. <<>> \o items = items
  BY <1>10, ConcatEmptySeq
<1>12. Tail(<<r>>) = <<>> /\ <<r>>[1] = r
  OBVIOUS
<1>13. PICK w : w = [up |-> <<>>, down |-> items]
  OBVIOUS
<1>14. wire' = [wire EXCEPT ![c] = w]
  <2>1. wire[c].up[1] = r
    BY <1>5, <1>12
  <2>2. wire' = [wire EXCEPT ![c] = [up |-> Tail(wire[c].up),
                                     down |-> wire[c].down \o items]]
    BY <1>7, <2>1 DEF ServerAnswer
  <2>3. Tail(wire[c].up) = <<>> /\ wire[c].down \o items = items
    BY <1>5, <1>6, <1>11, <1>12
  <2> QED BY <1>13, <2>2, <2>3
<1>15. protocols' = [protocols EXCEPT ![c] = p]
  BY <1>2 DEF ServerAnswer, ClientInv, ClientTypes
<1>16. w \in Wires /\ w.up = <<>> /\ w.down = items
  BY <1>10, <1>13 DEF Wires
<1>17. \A i \in 1 .. Len(items) :
           /\ i = 1 \/ i = 2 \/ i = 3
           /\ i = 3 => items[i][1] = "eof"
           /\ i = 2 => items[i][1] # "head"
           /\ i = 1 => items[i][1] = "head" /\ items[i][2] = r
  <2>1. ASSUME NEW i \in 1 .. Len(items)
        PROVE  i = 1 \/ i = 2 \/ (i = 3 /\ Len(items) = 3)
    <3>1. PICK n : n = Len(items)
      OBVIOUS
    <3>2. (n = 2 \/ n = 3) /\ i \in 1 .. n
      BY <1>10, <3>1
    <3>3. i = 1 \/ i = 2 \/ (i = 3 /\ n = 3)
      BY ONLY <3>2
    <3> QED BY <3>1, <3>3
  <2>2. items[1][1] = "head" /\ items[1][2] = r /\ items[2][1] # "head"
    BY <1>10
  <2>3. Len(items) = 3 => items[3][1] = "eof"
    BY <1>10
  <2> QED BY <2>1, <2>2, <2>3
<1>18. Fits(p, w)
  BY <1>4, <1>5, <1>10, <1>16, <1>17 DEF Fits, Quiet
<1>19. available[protocols[c].host] # c
  BY <1>1, PooledFacts DEF Quiet
<1>20. Closing(c) /\ p.status # "new"
  BY <1>1, <1>2 DEF Closing, Status
<1> QED BY <1>1, <1>2, <1>3, <1>14, <1>15, <1>16, <1>18, <1>19, <1>20, LocalStep

\* What the end of a message finds: its head was read, nothing else is to come
\* but the end of the connection, and the protocol is that of the call.
LEMMA EndFacts ==
    ASSUME ClientInv, NEW c \in Protocols, Read(c, "end")
    PROVE  /\ Status(c) = "open" /\ Closing(c) /\ Running /\ c = call.protocol
           /\ protocols[c].head # <<>> /\ protocols[c].head[1] = protocols[c].request
           /\ protocols[c].request \in Calls /\ protocols[c].host \in Hosts
           /\ protocols[c].sending = 0 /\ wire[c].up = <<>>
           /\ available[protocols[c].host] = 0
           /\ Tail(wire[c].down) \in Seq(Items) /\ OnlyEnd(Tail(wire[c].down))
<1>1. /\ Status(c) = "open" /\ Status(c) # "new" /\ Closing(c) /\ Running
      /\ wire[c].down # <<>> /\ wire[c].down[1][1] = "end"
  BY DEF Read, Loop, Closing
<1>2. Fits(protocols[c], wire[c]) /\ 1 \in 1 .. Len(wire[c].down)
  BY <1>1, WireFacts
<1>3. PICK d \in Seq(Items) : d = wire[c].down
  BY WireFacts
<1>4. /\ Tail(d) \in Seq(Items) /\ Len(d) \in Nat /\ Len(Tail(d)) = Len(d) - 1
      /\ \A i \in 1 .. Len(Tail(d)) : Tail(d)[i] = d[i + 1]
      /\ \A i \in 1 .. Len(d) : d[i] \in Items
  BY <1>1, <1>3, HeadTailProperties, LenProperties, ElementOfSeq
<1>5. ~OnlyEnd(d)
  BY <1>1, <1>2, <1>3 DEF OnlyEnd
<1>6. protocols[c].sending = 0 /\ wire[c].up = <<>> /\ protocols[c].head # <<>>
  BY <1>1, <1>2, <1>3, <1>5 DEF Fits
<1>7. OnlyEnd(Tail(d))
  <2> SUFFICES ASSUME NEW i \in 1 .. Len(Tail(d))  PROVE Tail(d)[i][1] = "eof"
    BY DEF OnlyEnd
  <2>1. i + 1 \in 1 .. Len(d) /\ i + 1 # 1 /\ Tail(d)[i] = d[i + 1]
    BY <1>4
  <2>2. d[i + 1][1] # "head" /\ d[i + 1][1] # "end"
    BY <1>1, <1>2, <1>3, <2>1 DEF Fits
  <2>3. d[i + 1][1] \in {"head", "end", "eof"}
    BY <1>4, <2>1, ItemFacts
  <2> QED BY <2>1, <2>2, <2>3
<1>8. available[protocols[c].host] # c
  BY <1>1, <1>3, <1>5, PooledFacts DEF Quiet
<1>9. c = call.protocol
  BY <1>1, <1>8 DEF ClientInv, NoOrphan
<1>10. available[protocols[c].host] = 0
  BY <1>1, <1>8, <1>9 DEF ClientInv, CallHolds
<1> QED BY <1>1, <1>3, <1>4, <1>6, <1>7, <1>9, <1>10, MadeFacts

LEMMA AnsweredMore ==
    ASSUME ClientInv, NEW c \in Protocols, Read(c, "end")
    PROVE  More(Answered(c)) /\ HasResult(Answered(c)[protocols[c].request])
<1>1. PICK r \in Calls : r = protocols[c].request
  BY EndFacts
<1>2. Answered(c) = [results EXCEPT ![r].code = r]
  BY <1>1, EndFacts DEF Answered
<1>3. results \in [Calls -> Results] /\ \A q \in Calls : results[q].code \in {0, q}
  BY DEF ClientInv, ClientTypes
<1>4. r # 0 /\ r \in 0 .. MaxCalls
  BY ClientConstants
<1>5. PICK x : x = [results[r] EXCEPT !.code = r]
  OBVIOUS
<1>6. x \in Results /\ x.code = r
  BY <1>3, <1>4, <1>5 DEF Results
<1>7. Answered(c) = [results EXCEPT ![r] = x]
  BY <1>2, <1>3, <1>5
<1> QED BY <1>1, <1>3, <1>4, <1>6, <1>7 DEF More, HasResult

LEMMA MessageLastStep ==
    ASSUME ClientInv, NEW c \in Protocols, MessageLast(c)
    PROVE  ClientInv'
<1>1. Read(c, "end") /\ Close(c, Answered(c)) /\ UNCHANGED <<call, asked>>
  BY DEF MessageLast
<1>2. PICK rs : rs = Answered(c)
  OBVIOUS
<1>3. More(rs) /\ Running /\ Closing(c) /\ Close(c, rs)
  BY <1>1, <1>2, AnsweredMore, EndFacts
<1> QED BY <1>1, <1>3, CloseStep

LEMMA LateMore ==
    ASSUME ClientInv, NEW r \in Calls
    PROVE  More([results EXCEPT ![r] = WithError(@, "timeout")])
<1>1. results \in [Calls -> Results] /\ \A q \in Calls : results[q].code \in {0, q}
  BY DEF ClientInv, ClientTypes
<1>2. /\ WithError(results[r], "timeout") \in Results
      /\ WithError(results[r], "timeout").code = results[r].code
      /\ WithError(results[r], "timeout").error # "none"
  BY <1>1 DEF WithError, Results
<1> QED BY <1>1, <1>2 DEF More, HasResult

\* The answer is complete, and the protocol of the call goes to the pool, where
\* its host has no other: the loop is told to stop.
LEMMA MessageKeptStep ==
    ASSUME ClientInv, NEW c \in Protocols, MessageKept(c)
    PROVE  ClientInv'
<1>1. Read(c, "end") /\ stopping' = TRUE /\ UNCHANGED <<call, asked>>
  BY DEF MessageKept
<1>2. PICK h \in Hosts : h = protocols[c].host
  BY <1>1, EndFacts
<1>3. /\ Status(c) = "open" /\ Running /\ c = call.protocol
      /\ protocols[c].head # <<>> /\ protocols[c].request \in Calls
      /\ protocols[c].sending = 0 /\ wire[c].up = <<>> /\ available[h] = 0
      /\ Tail(wire[c].down) \in Seq(Items) /\ OnlyEnd(Tail(wire[c].down))
  BY <1>1, <1>2, EndFacts
<1>4. /\ protocols \in [Protocols -> ProtocolOf] /\ wire \in [Protocols -> Wires]
      /\ available \in [Hosts -> 0 .. MaxProtocols]
      /\ protocols[c] \in ProtocolOf /\ wire[c] \in Wires
      /\ c # 0 /\ c \in 0 .. MaxProtocols /\ \A d \in Protocols : d # 0
  BY ClientConstants DEF ClientInv, ClientTypes
<1>5. /\ protocols'[c] = [protocols[c] EXCEPT !.head = <<>>]
      /\ \A d \in Protocols \ {c} : protocols'[d] = protocols[d]
  BY <1>2, <1>3, <1>4 DEF MessageKept
<1>6. /\ wire'[c] = [wire[c] EXCEPT !.down = Tail(@)]
      /\ \A d \in Protocols \ {c} : wire'[d] = wire[d]
      /\ wire' = [wire EXCEPT ![c].down = Tail(@)]
  BY <1>4 DEF MessageKept
<1>7. /\ protocols'[c] \in ProtocolOf /\ protocols'[c].status = "open"
      /\ protocols'[c].request = protocols[c].request /\ protocols'[c].host = h
      /\ protocols'[c].head = <<>> /\ protocols'[c].sending = 0
  <2>1. PICK p : p = protocols[c]
    OBVIOUS
  <2>2. PICK q : q = protocols'[c]
    OBVIOUS
  <2>3. p \in ProtocolOf /\ q = [p EXCEPT !.head = <<>>]
    BY <1>4, <1>5, <2>1, <2>2
  <2>4. q \in ProtocolOf /\ q.head = <<>> /\ q.status = p.status /\ q.sending = p.sending
        /\ q.request = p.request /\ q.host = p.host
    BY <2>3 DEF ProtocolOf
  <2> QED BY <1>2, <1>3, <2>1, <2>2, <2>4 DEF Status
<1>8. /\ wire'[c] \in Wires /\ wire'[c].up = <<>>
      /\ wire'[c].down = Tail(wire[c].down)
  BY <1>3, <1>4, <1>6 DEF Wires
<1>9. /\ available'[h] = c /\ \A g \in Hosts \ {h} : available'[g] = available[g]
      /\ available' \in [Hosts -> 0 .. MaxProtocols]
  BY <1>2, <1>4 DEF MessageKept
<1>10. More(results') /\ HasResult(results'[protocols[c].request])
  BY <1>1, AnsweredMore DEF MessageKept
<1>11. protocols' \in [Protocols -> ProtocolOf] /\ wire' \in [Protocols -> Wires]
  <2>1. DOMAIN protocols' = Protocols /\ protocols' = [d \in Protocols |-> protocols'[d]]
    BY DEF MessageKept
  <2> QED BY <1>4, <1>5, <1>6, <1>7, <1>8, <2>1
<1>12. ClientTypes'
  BY <1>1, <1>9, <1>10, <1>11 DEF ClientInv, ClientTypes, More
<1>13. Quiet(protocols'[c], wire'[c])
  BY <1>3, <1>7, <1>8 DEF Quiet
<1>14. \A d \in Protocols : Fits(protocols'[d], wire'[d])
  <2>1. \A i \in 1 .. Len(wire'[c].down) : wire'[c].down[i][1] = "eof"
    BY <1>13 DEF Quiet, OnlyEnd
  <2>2. Fits(protocols'[c], wire'[c])
    BY <1>7, <1>13, <2>1 DEF Fits, Quiet
  <2> QED BY <1>5, <1>6, <2>2 DEF ClientInv
<1>15. \A d \in Protocols : Known(protocols[d])'
  <2>1. Known(protocols[c])'
    BY <1>1, <1>2, <1>3, <1>7 DEF ClientInv, Known, Status
  <2>2. \A d \in Protocols \ {c} : Known(protocols[d])'
    BY <1>1, <1>5 DEF ClientInv, Known
  <2> QED BY <2>1, <2>2
<1>16. NoOrphan'
  <2> SUFFICES ASSUME NEW d \in Protocols, Closing(d)', d # call.protocol
               PROVE  available'[protocols'[d].host] = d
    BY <1>1 DEF NoOrphan
  <2>1. d # c /\ protocols'[d] = protocols[d] /\ Closing(d)
    BY <1>3, <1>5 DEF Closing, Status
  <2>2. available[protocols[d].host] = d /\ d # 0
    BY <1>4, <2>1 DEF ClientInv, NoOrphan
  <2>3. protocols[d].host # h /\ protocols[d].host \in Hosts
    BY <1>3, <2>1, <2>2, MadeFacts DEF Closing
  <2> QED BY <1>9, <2>1, <2>2, <2>3
<1>17. Pooled'
  <2> SUFFICES ASSUME NEW g \in Hosts, available'[g] # 0
               PROVE  /\ protocols'[available'[g]].status \in {"open", "lost"}
                      /\ protocols'[available'[g]].host = g
                      /\ Quiet(protocols'[available'[g]], wire'[available'[g]])
    BY DEF Pooled, Status
  <2>1. CASE g = h
    BY <1>7, <1>9, <1>13, <2>1
  <2>2. CASE g # h
    <3>1. available'[g] = available[g] /\ available[g] \in Protocols
      BY <1>4, <1>9, <2>2, ClientConstants
    <3>2. /\ protocols[available[g]].status \in {"open", "lost"}
          /\ protocols[available[g]].host = g
          /\ Quiet(protocols[available[g]], wire[available[g]])
      BY <3>1 DEF ClientInv, Pooled, Status
    <3>3. available[g] # c
      BY <1>2, <2>2, <3>2
    <3> QED BY <1>5, <1>6, <3>1, <3>2, <3>3
  <2> QED BY <2>1, <2>2
<1>18. CallHolds'
  BY <1>1, <1>2, <1>3, <1>7, <1>9 DEF ClientInv, CallHolds, Status
<1>19. ReturnsResult'
  <2> SUFFICES ASSUME NEW r \in 1 .. Len(asked)
               PROVE  HasResult(results'[r])
    BY <1>1 DEF ReturnsResult, HasResult
  <2>1. r \in Calls
    BY <1>1, <1>12, LenProperties, ClientConstants DEF ClientTypes, Calls
  <2>2. CASE call.request # r
    BY <1>10, <2>1, <2>2 DEF ClientInv, ReturnsResult, HasResult, More
  <2>3. CASE call.request = r
    BY <1>3, <1>10, <2>3 DEF ClientInv, CallHolds
  <2> QED BY <2>2, <2>3
<1> QED BY <1>10, <1>12, <1>14, <1>15, <1>16, <1>17, <1>18, <1>19 DEF ClientInv, More

\* Nothing of what the invariant says changes.
LEMMA IdleStep ==
    ASSUME ClientInv,
           UNCHANGED <<protocols, wire, available, call, asked, stopping, results>>
    PROVE  ClientInv'
<1>1. More(results')
  BY DEF More, ClientInv, ClientTypes
<1> QED BY <1>1, ResultStep

LEMMA TimeoutStep ==
    ASSUME ClientInv, NEW c \in Protocols,
           ConnectTimeout(c) \/ \E r \in Calls : ReceiveTimeout(c, r)
    PROVE  ClientInv'
<1>1. CASE ConnectTimeout(c)
  <2>1. Running /\ UNCHANGED <<call, asked>>
    BY <1>1 DEF ConnectTimeout, Loop
  <2>2. CASE UNCHANGED <<protocols, wire, results, stopping, available>>
    BY <2>1, <2>2, IdleStep
  <2>3. CASE Status(c) \in {"connecting", "closed"}
    <3>1. PICK r \in Calls : r = protocols[c].request
      BY <2>3, MadeFacts
    <3>2. PICK late : late = [results EXCEPT ![r] = WithError(@, "timeout")]
      OBVIOUS
    <3>3. More(late)
      BY <3>2, LateMore
    <3>4. CASE Status(c) = "connecting"
      <4>1. Close(c, late)
        BY <1>1, <3>1, <3>2, <3>4 DEF ConnectTimeout
      <4> QED BY <2>1, <3>3, <3>4, <4>1, CloseStep DEF Closing
    <3>5. CASE Status(c) = "closed"
      <4>1. results' = late /\ UNCHANGED <<protocols, wire, stopping, available>>
        BY <1>1, <3>1, <3>2, <3>5 DEF ConnectTimeout
      <4> QED BY <2>1, <3>3, <4>1, ResultStep
    <3> QED BY <2>3, <3>4, <3>5
  <2> QED BY <1>1, <2>2, <2>3 DEF ConnectTimeout
<1>2. CASE \E r \in Calls : ReceiveTimeout(c, r)
  <2>1. PICK r \in Calls : ReceiveTimeout(c, r)
    BY <1>2
  <2>2. Running /\ UNCHANGED <<call, asked>>
    BY <2>1 DEF ReceiveTimeout, Loop
  <2>3. PICK late : late = [results EXCEPT ![r] = WithError(@, "timeout")]
    OBVIOUS
  <2>4. More(late)
    BY <2>3, LateMore
  <2>5. \/ UNCHANGED <<protocols, wire, results, stopping, available>>
        \/ Status(c) \in {"open", "lost"} /\ Close(c, late)
    BY <2>1, <2>3 DEF ReceiveTimeout
  <2>6. CASE UNCHANGED <<protocols, wire, results, stopping, available>>
    BY <2>2, <2>6, IdleStep
  <2>7. CASE Status(c) \in {"open", "lost"} /\ Close(c, late)
    BY <2>2, <2>4, <2>7, CloseStep DEF Closing
  <2> QED BY <2>5, <2>6, <2>7
<1> QED BY <1>1, <1>2

\* A call takes c, which is new or the pooled protocol of its host; any other
\* pooled protocol of the host closes.
LEMMA CallStep ==
    ASSUME ClientInv, ~Running, NEW h \in Hosts, Len(asked) < MaxCalls,
           NEW c \in Protocols, Status(c) = "new" \/ available[h] = c,
           NEW r, r = Len(asked) + 1,
           asked' = Append(asked, h), stopping' = FALSE, results' = results,
           available' = [available EXCEPT ![h] = 0],
           call' = [request |-> r, host |-> h, protocol |-> c],
           protocols' \in [Protocols -> ProtocolOf], wire' \in [Protocols -> Wires],
           protocols'[c].status # "new", protocols'[c].request = r,
           protocols'[c].host = h, Fits(protocols'[c], wire'[c]),
           \A d \in Protocols \ {c} :
               IF d = available[h]
               THEN /\ protocols'[d].status = "closing"
                    /\ protocols'[d].request = protocols[d].request
                    /\ protocols'[d].host = protocols[d].host
                    /\ Fits(protocols'[d], wire'[d])
               ELSE protocols'[d] = protocols[d] /\ wire'[d] = wire[d]
    PROVE  ClientInv'
<1>1. /\ call.request = 0 /\ call.protocol = 0 /\ call'.request = r
      /\ call'.protocol = c /\ call'.host = h
  BY DEF Running, NoCall
<1>2. /\ asked \in Seq(Hosts) /\ Len(asked) \in Nat /\ asked' \in Seq(Hosts)
      /\ Len(asked') = r /\ asked'[r] = h /\ r \in Nat \ {0} /\ r <= MaxCalls
      /\ \A i \in 1 .. Len(asked) : asked'[i] = asked[i] /\ i \in 1 .. r /\ i # r
  <2>1. asked \in Seq(Hosts) /\ Len(asked) \in Nat
    BY LenProperties DEF ClientInv, ClientTypes
  <2> QED BY <2>1, AppendProperties, ClientConstants
<1>3. /\ available \in [Hosts -> 0 .. MaxProtocols] /\ available'[h] = 0
      /\ \A g \in Hosts \ {h} : available'[g] = available[g]
      /\ available' \in [Hosts -> 0 .. MaxProtocols] /\ c # 0
      /\ \A d \in Protocols : d # 0 /\ d \in Nat
  BY ClientConstants DEF ClientInv, ClientTypes
<1>4. ClientTypes'
  BY <1>1, <1>2, <1>3 DEF ClientInv, ClientTypes
<1>5. \A d \in Protocols : Fits(protocols'[d], wire'[d])
  BY DEF ClientInv
<1>6. \A d \in Protocols : Known(protocols[d])'
  <2>1. Known(protocols[c])'
    BY <1>2 DEF Known
  <2>2. ASSUME NEW d \in Protocols \ {c}  PROVE Known(protocols[d])'
    <3>1. CASE d = available[h]
      <4>1. Status(d) # "new"
        BY <3>1, <1>3 DEF ClientInv, Pooled
      <4> QED BY <1>2, <2>2, <3>1, <4>1 DEF ClientInv, Known, Status
    <3>2. CASE d # available[h]
      BY <1>2, <2>2, <3>2 DEF ClientInv, Known
    <3> QED BY <3>1, <3>2
  <2> QED BY <2>1, <2>2
<1>7. ASSUME NEW d \in Protocols, Closing(d)', d # c
      PROVE  d # available[h] /\ Closing(d) /\ protocols'[d] = protocols[d]
  BY <1>7 DEF Closing, Status
<1>8. NoOrphan'
  <2> SUFFICES ASSUME NEW d \in Protocols, Closing(d)', d # c
               PROVE  available'[protocols'[d].host] = d
    BY <1>1 DEF NoOrphan
  <2>1. d # available[h] /\ Closing(d) /\ protocols'[d] = protocols[d]
    BY <1>7
  <2>2. available[protocols[d].host] = d
    BY <1>1, <1>3, <2>1 DEF ClientInv, NoOrphan
  <2>3. protocols[d].host \in Hosts
    BY <2>1, MadeFacts DEF Closing
  <2> QED BY <1>3, <2>1, <2>2, <2>3
<1>9. Pooled'
  <2> SUFFICES ASSUME NEW g \in Hosts, available'[g] # 0
               PROVE  /\ protocols'[available'[g]].status \in {"open", "lost"}
                      /\ protocols'[available'[g]].host = g
                      /\ Quiet(protocols'[available'[g]], wire'[available'[g]])
    BY DEF Pooled, Status
  <2>1. g # h /\ available'[g] = available[g] /\ available[g] \in Protocols
    BY <1>3, ClientConstants
  <2>2. /\ protocols[available[g]].status \in {"open", "lost"}
        /\ protocols[available[g]].host = g
        /\ Quiet(protocols[available[g]], wire[available[g]])
    BY <2>1 DEF ClientInv, Pooled, Status
  <2>3. available[h] # 0 => protocols[available[h]].host = h
    BY DEF ClientInv, Pooled
  <2>4. available[g] # c /\ available[g] # available[h]
    BY <1>3, <2>1, <2>2, <2>3 DEF Status
  <2> QED BY <2>1, <2>2, <2>4
<1>10. CallHolds'
  BY <1>1, <1>2, <1>3 DEF CallHolds, Status
<1>11. ReturnsResult'
  <2> SUFFICES ASSUME NEW q \in 1 .. r, q # r
               PROVE  HasResult(results[q])
    BY <1>1, <1>2 DEF ReturnsResult, HasResult
  <2>1. q \in 1 .. Len(asked) /\ q # 0
    BY <1>2
  <2> QED BY <1>1, <2>1 DEF ClientInv, ReturnsResult, HasResult
<1>12. \A q \in Calls : results'[q].code \in {0, q}
  BY DEF ClientInv
<1> QED BY <1>4, <1>5, <1>6, <1>8, <1>9, <1>10, <1>11, <1>12 DEF ClientInv

LEMMA MadeProtocol ==
    ASSUME ClientInv, NEW h \in Hosts, Len(asked) < MaxCalls, NEW c \in Protocols,
           Status(c) = "new",
           protocols'[c] = [status |-> "connecting", host |-> h,
                            request |-> Len(asked) + 1, sending |-> 0, head |-> <<>>],
           wire'[c] = wire[c]
    PROVE  /\ protocols'[c] \in ProtocolOf /\ protocols'[c].status # "new"
           /\ protocols'[c].request = Len(asked) + 1 /\ protocols'[c].host = h
           /\ Fits(protocols'[c], wire'[c])
<1>1. Len(asked) \in Nat
  BY LenProperties DEF ClientInv, ClientTypes
<1>2. PICK r : r = Len(asked) + 1
  OBVIOUS
<1>3. r \in 0 .. MaxCalls /\ 0 \in 0 .. MaxCalls
  BY <1>1, <1>2, ClientConstants
<1>4. Quiet(protocols[c], wire[c]) /\ wire[c].down = <<>>
  BY DEF ClientInv, Fits, Status
<1>5. protocols'[c] \in ProtocolOf
  BY <1>2, <1>3 DEF ProtocolOf
<1>6. Fits(protocols'[c], wire'[c])
  BY <1>4 DEF Fits, Quiet, OnlyEnd
<1> QED BY <1>5, <1>6

LEMMA MethodNewStep ==
    ASSUME ClientInv, NEW h \in Hosts, NEW c \in Protocols, MethodNew(h, c)
    PROVE  ClientInv'
<1>1. /\ ~Running /\ Len(asked) < MaxCalls /\ asked' = Append(asked, h)
      /\ stopping' = FALSE /\ available[h] = 0 /\ Status(c) = "new"
      /\ UNCHANGED <<wire, available, results>>
  BY DEF MethodNew, Calling, Fresh
<1>2. /\ protocols \in [Protocols -> ProtocolOf] /\ wire \in [Protocols -> Wires]
      /\ available \in [Hosts -> 0 .. MaxProtocols] /\ asked \in Seq(Hosts)
      /\ \A d \in Protocols : d # 0
  BY ClientConstants DEF ClientInv, ClientTypes
<1>3. PICK r : r = Len(asked) + 1
  OBVIOUS
<1>4. Len(asked') = r
  BY <1>1, <1>2, <1>3, AppendProperties
<1>5. /\ protocols' = [protocols EXCEPT ![c] =
             [status |-> "connecting", host |-> h, request |-> r, sending |-> 0,
              head |-> <<>>]]
      /\ call' = [request |-> r, host |-> h, protocol |-> c]
  BY <1>4 DEF MethodNew, Connecting
<1>6. /\ protocols'[c] = [status |-> "connecting", host |-> h, request |-> r,
                         sending |-> 0, head |-> <<>>]
      /\ \A d \in Protocols \ {c} : protocols'[d] = protocols[d]
  BY <1>2, <1>5
<1>7. /\ protocols'[c] \in ProtocolOf /\ protocols'[c].status # "new"
      /\ protocols'[c].request = r /\ protocols'[c].host = h
      /\ Fits(protocols'[c], wire'[c])
  BY <1>1, <1>3, <1>6, MadeProtocol
<1>8. protocols' \in [Protocols -> ProtocolOf] /\ wire' \in [Protocols -> Wires]
  BY <1>1, <1>2, <1>5, <1>6, <1>7
<1>9. available' = [available EXCEPT ![h] = 0]
  BY <1>1, <1>2
<1>10. \A d \in Protocols \ {c} :
           d # available[h] /\ protocols'[d] = protocols[d] /\ wire'[d] = wire[d]
  BY <1>1, <1>2, <1>6
<1> QED BY <1>1, <1>3, <1>5, <1>7, <1>8, <1>9, <1>10, CallStep

LEMMA MethodReusedStep ==
    ASSUME ClientInv, NEW h \in Hosts, MethodReused(h)
    PROVE  ClientInv'
<1>1. PICK c : c = available[h]
  OBVIOUS
<1>2. /\ ~Running /\ Len(asked) < MaxCalls /\ asked' = Append(asked, h)
      /\ stopping' = FALSE /\ c # 0 /\ Status(c) = "open"
      /\ available' = [available EXCEPT ![h] = 0] /\ UNCHANGED <<wire, results>>
  BY <1>1 DEF MethodReused, Calling
<1>3. /\ protocols \in [Protocols -> ProtocolOf] /\ wire \in [Protocols -> Wires]
      /\ available \in [Hosts -> 0 .. MaxProtocols] /\ asked \in Seq(Hosts)
      /\ Len(asked) \in Nat
  BY LenProperties DEF ClientInv, ClientTypes
<1>4. c \in Protocols
  BY <1>1, <1>2, <1>3, ClientConstants
<1>5. PICK r : r = Len(asked) + 1
  OBVIOUS
<1>6. Len(asked') = r /\ r \in 0 .. MaxCalls /\ r # 0
  BY <1>2, <1>3, <1>5, AppendProperties, ClientConstants
<1>7. /\ protocols' = [protocols EXCEPT ![c].request = r, ![c].sending = r,
                                       ![c].head = <<>>]
      /\ call' = [request |-> r, host |-> h, protocol |-> c]
  BY <1>1, <1>6 DEF MethodReused
<1>8. PICK p : p = protocols[c]
  OBVIOUS
<1>9. PICK q : q = [p EXCEPT !.request = r, !.sending = r, !.head = <<>>]
  OBVIOUS
<1>10. protocols' = [protocols EXCEPT ![c] = q] /\ protocols'[c] = q
  BY <1>3, <1>4, <1>7, <1>8, <1>9
<1>11. p \in ProtocolOf /\ <<>> \in Heads
  BY <1>3, <1>4, <1>8 DEF Heads
<1>12. /\ q \in ProtocolOf /\ q.status = p.status /\ q.host = p.host
       /\ q.request = r /\ q.sending = r /\ q.head = <<>>
  BY <1>6, <1>9, <1>11 DEF ProtocolOf, Heads
<1>13. p.host = h /\ p.status = "open" /\ Quiet(p, wire[c])
  BY <1>1, <1>2, <1>8 DEF ClientInv, Pooled, Status
<1>14. Fits(q, wire[c])
  BY <1>6, <1>12, <1>13 DEF Fits, Quiet, OnlyEnd
<1>15. protocols' \in [Protocols -> ProtocolOf] /\ wire' \in [Protocols -> Wires]
  BY <1>2, <1>3, <1>10, <1>12
<1>16. \A d \in Protocols \ {c} :
           d # available[h] /\ protocols'[d] = protocols[d] /\ wire'[d] = wire[d]
  BY <1>1, <1>2, <1>3, <1>10
<1>17. /\ protocols'[c].status # "new" /\ protocols'[c].request = r
       /\ protocols'[c].host = h /\ Fits(protocols'[c], wire'[c])
  BY <1>2, <1>10, <1>12, <1>13, <1>14
<1> QED BY <1>1, <1>2, <1>4, <1>5, <1>7, <1>15, <1>16, <1>17, CallStep

LEMMA MethodStaleStep ==
    ASSUME ClientInv, NEW h \in Hosts, NEW c \in Protocols, MethodStale(h, c)
    PROVE  ClientInv'
<1>1. PICK e : e = available[h]
  OBVIOUS
<1>2. /\ ~Running /\ Len(asked) < MaxCalls /\ asked' = Append(asked, h)
      /\ stopping' = FALSE /\ e # 0 /\ Status(e) = "lost" /\ Status(c) = "new"
      /\ available' = [available EXCEPT ![h] = 0] /\ UNCHANGED results
  BY <1>1 DEF MethodStale, Calling, Fresh
<1>3. /\ protocols \in [Protocols -> ProtocolOf] /\ wire \in [Protocols -> Wires]
      /\ available \in [Hosts -> 0 .. MaxProtocols] /\ asked \in Seq(Hosts)
  BY DEF ClientInv, ClientTypes
<1>4. e \in Protocols /\ e # c
  BY <1>1, <1>2, <1>3, ClientConstants
<1>5. PICK r : r = Len(asked) + 1
  OBVIOUS
<1>6. Len(asked') = r
  BY <1>2, <1>3, <1>5, AppendProperties
<1>7. /\ protocols' = [protocols EXCEPT
             ![e].status = "closing",
             ![c] = [status |-> "connecting", host |-> h, request |-> r,
                     sending |-> 0, head |-> <<>>]]
      /\ wire' = [wire EXCEPT ![e] = [up |-> <<>>, down |-> <<>>]]
      /\ call' = [request |-> r, host |-> h, protocol |-> c]
  BY <1>1, <1>6 DEF MethodStale
<1>8. PICK p : p = protocols[e]
  OBVIOUS
<1>9. PICK q : q = [p EXCEPT !.status = "closing"]
  OBVIOUS
<1>10. /\ protocols'[c] = [status |-> "connecting", host |-> h, request |-> r,
                          sending |-> 0, head |-> <<>>]
       /\ protocols'[e] = q /\ wire'[e] = [up |-> <<>>, down |-> <<>>]
       /\ wire'[c] = wire[c]
       /\ \A d \in Protocols \ {c, e} : protocols'[d] = protocols[d] /\ wire'[d] = wire[d]
  BY <1>3, <1>4, <1>7, <1>8, <1>9
<1>11. /\ protocols'[c] \in ProtocolOf /\ protocols'[c].status # "new"
       /\ protocols'[c].request = r /\ protocols'[c].host = h
       /\ Fits(protocols'[c], wire'[c])
  BY <1>2, <1>5, <1>10, MadeProtocol
<1>12. p \in ProtocolOf
  BY <1>3, <1>4, <1>8
<1>13. /\ q \in ProtocolOf /\ q.status = "closing" /\ q.host = p.host
       /\ q.request = p.request /\ q.sending = p.sending /\ q.head = p.head
  BY <1>9, <1>12 DEF ProtocolOf
<1>14. Quiet(p, wire[e])
  BY <1>1, <1>2, <1>8 DEF ClientInv, Pooled
<1>15. Fits(q, wire'[e])
  BY <1>10, <1>13, <1>14 DEF Fits, Quiet
<1>16. <<>> \in Seq(Calls) /\ <<>> \in Seq(Items) /\ wire'[e] \in Wires
  BY <1>10 DEF Wires
<1>17. protocols' \in [Protocols -> ProtocolOf] /\ wire' \in [Protocols -> Wires]
  <2>1. \A d \in Protocols : protocols'[d] \in ProtocolOf /\ wire'[d] \in Wires
    BY <1>3, <1>10, <1>11, <1>13, <1>16
  <2>2. /\ protocols' = [d \in Protocols |-> protocols'[d]]
        /\ wire' = [d \in Protocols |-> wire'[d]]
    BY <1>3, <1>7
  <2> QED BY <2>1, <2>2
<1>18. \A d \in Protocols \ {c} :
           IF d = available[h]
           THEN /\ protocols'[d].status = "closing"
                /\ protocols'[d].request = protocols[d].request
                /\ protocols'[d].host = protocols[d].host
                /\ Fits(protocols'[d], wire'[d])
           ELSE protocols'[d] = protocols[d] /\ wire'[d] = wire[d]
  BY <1>1, <1>8, <1>10, <1>13, <1>15
<1> QED BY <1>2, <1>5, <1>7, <1>11, <1>17, <1>18, CallStep

LEMMA ReturnStep ==
    ASSUME ClientInv, Return
    PROVE  ClientInv'
<1>1. /\ Running /\ stopping /\ call' = NoCall
      /\ UNCHANGED <<protocols, wire, available, asked, stopping, results>>
  BY DEF Return
<1>2. NoOrphan'
  <2> SUFFICES ASSUME NEW c \in Protocols, Closing(c)
               PROVE  available[protocols[c].host] = c
    BY <1>1 DEF NoOrphan, Closing, Status
  <2> QED BY <1>1 DEF ClientInv, NoOrphan, CallHolds
<1>3. ClientTypes' /\ ReturnsResult' /\ CallHolds'
  BY <1>1 DEF ClientInv, ClientTypes, ReturnsResult, CallHolds, Running, NoCall
<1>4. Pooled'
  BY <1>1 DEF ClientInv, Pooled, Status
<1>5. /\ \A c \in Protocols : Fits(protocols'[c], wire'[c]) /\ Known(protocols[c])'
      /\ \A r \in Calls : results'[r].code \in {0, r}
  BY <1>1 DEF ClientInv, Known
<1> QED BY <1>2, <1>3, <1>4, <1>5 DEF ClientInv

LEMMA CleanupStep ==
    ASSUME ClientInv, Cleanup
    PROVE  ClientInv'
<1>1. /\ ~Running /\ UNCHANGED <<wire, call, asked, stopping, results>>
      /\ available' = [h \in Hosts |-> 0] /\ call.protocol = 0
  BY DEF Cleanup, Running, NoCall
<1>2. /\ protocols \in [Protocols -> ProtocolOf] /\ 0 \in 0 .. MaxProtocols
      /\ \A d \in Protocols : d # 0
  BY ClientConstants DEF ClientInv, ClientTypes
<1>3. \A c \in Protocols :
          protocols'[c] = IF \E h \in Hosts : available[h] = c
                          THEN [protocols[c] EXCEPT !.status = "closing"]
                          ELSE protocols[c]
  BY DEF Cleanup
<1>4. ASSUME NEW c \in Protocols
      PROVE  /\ protocols'[c] \in ProtocolOf
             /\ Fits(protocols'[c], wire'[c]) /\ Known(protocols[c])'
             /\ ~Closing(c)'
  <2>1. CASE \E h \in Hosts : available[h] = c
    <3>1. Status(c) # "new"
      BY <1>2, <2>1 DEF ClientInv, Pooled
    <3>2. PICK p \in ProtocolOf : p = protocols[c]
      BY <1>2
    <3>3. PICK q : q = [p EXCEPT !.status = "closing"]
      OBVIOUS
    <3>4. /\ q \in ProtocolOf /\ q.status = "closing" /\ q.host = p.host
          /\ q.request = p.request /\ q.sending = p.sending /\ q.head = p.head
      BY <3>2, <3>3 DEF ProtocolOf
    <3>5. protocols'[c] = q
      BY <1>3, <2>1, <3>2, <3>3
    <3>6. Fits(p, wire[c]) /\ Known(p)
      BY <3>2 DEF ClientInv
    <3>7. Fits(q, wire[c])
      BY <3>4, <3>6 DEF Fits
    <3>8. Known(q) /\ Known(q)'
      BY <1>1, <3>1, <3>2, <3>4, <3>6 DEF Known, Status
    <3> QED BY <1>1, <3>4, <3>5, <3>7, <3>8 DEF Closing, Status, Known
  <2>2. CASE ~\E h \in Hosts : available[h] = c
    <3>1. protocols'[c] = protocols[c]
      BY <1>3, <2>2
    <3>2. ~Closing(c)
      <4> SUFFICES ASSUME Closing(c)  PROVE FALSE
        OBVIOUS
      <4>1. available[protocols[c].host] = c
        BY <1>1, <1>2 DEF ClientInv, NoOrphan
      <4> QED BY <2>2, <4>1, MadeFacts DEF Closing
    <3> QED BY <1>1, <1>2, <3>1, <3>2 DEF ClientInv, Closing, Status, Known
  <2> QED BY <2>1, <2>2
<1>5. protocols' \in [Protocols -> ProtocolOf]
  <2>1. protocols' = [c \in Protocols |-> protocols'[c]]
    BY DEF Cleanup
  <2> QED BY <1>4, <2>1
<1>6. ClientTypes'
  BY <1>1, <1>2, <1>5 DEF ClientInv, ClientTypes
<1>7. Pooled' /\ CallHolds' /\ NoOrphan' /\ ReturnsResult'
  BY <1>1, <1>4 DEF ClientInv, Pooled, CallHolds, NoOrphan, ReturnsResult, Running
<1> QED BY <1>1, <1>4, <1>6, <1>7 DEF ClientInv

LEMMA ClientInvInit == ClientInit => ClientInv
<1> SUFFICES ASSUME ClientInit  PROVE ClientInv
  OBVIOUS
<1>1. /\ 0 \in 0 .. MaxCalls /\ 0 \in 0 .. MaxProtocols /\ <<>> \in Heads
      /\ <<>> \in Seq(Calls) /\ <<>> \in Seq(Items) /\ <<>> \in Seq(Hosts)
      /\ Len(<<>>) = 0 /\ MaxCalls >= 0
  BY ClientConstants DEF Heads
<1>2. \A c \in Protocols :
          /\ protocols[c] = [status |-> "new", host |-> "-", request |-> 0,
                            sending |-> 0, head |-> <<>>]
          /\ wire[c] = [up |-> <<>>, down |-> <<>>]
          /\ protocols[c] \in ProtocolOf /\ wire[c] \in Wires
  BY <1>1 DEF ClientInit, ProtocolOf, Wires, Heads
<1>3. protocols \in [Protocols -> ProtocolOf] /\ wire \in [Protocols -> Wires]
  BY <1>2 DEF ClientInit
<1>4. \A c \in Protocols : Fits(protocols[c], wire[c]) /\ Known(protocols[c]) /\ ~Closing(c)
  BY <1>1, <1>2 DEF Fits, Quiet, OnlyEnd, Known, Closing, Status
<1>5. results \in [Calls -> Results] /\ \A r \in Calls : results[r].code \in {0, r}
  BY <1>1 DEF ClientInit, Results
<1>6. ClientTypes
  BY <1>1, <1>3, <1>5 DEF ClientTypes, ClientInit, NoCall
<1>7. Pooled /\ CallHolds /\ NoOrphan /\ ReturnsResult
  BY <1>1, <1>4 DEF Pooled, CallHolds, NoOrphan, ReturnsResult, ClientInit, Running
<1> QED BY <1>4, <1>5, <1>6, <1>7 DEF ClientInv

LEMMA ClientInvStep == ClientInv /\ [ClientNext]_clientVars => ClientInv'
<1> SUFFICES ASSUME ClientInv, [ClientNext]_clientVars  PROVE ClientInv'
  OBVIOUS
<1>1. ASSUME NEW h \in Hosts, NEW c \in Protocols, MethodNew(h, c) \/ MethodStale(h, c)
      PROVE  ClientInv'
  BY <1>1, MethodNewStep, MethodStaleStep
<1>2. ASSUME NEW h \in Hosts, MethodReused(h)  PROVE ClientInv'
  BY <1>2, MethodReusedStep
<1>3. CASE Return \/ Cleanup
  BY <1>3, ReturnStep, CleanupStep
<1>4. ASSUME NEW c \in Protocols, LoopStep(c)  PROVE ClientInv'
  <2>1. CASE ConnectionLost(c)
    <3>1. PICK rs : rs = results
      OBVIOUS
    <3>2. More(rs)
      BY <3>1 DEF More, ClientInv, ClientTypes
    <3>3. Running /\ Closing(c) /\ Close(c, rs) /\ UNCHANGED <<call, asked>>
      BY <2>1, <3>1 DEF ConnectionLost, Loop, Closing
    <3> QED BY <3>2, <3>3, CloseStep
  <2>2. CASE ~ConnectionLost(c)
    BY <1>4, <2>2, ConnectedStep, SentStep, ReadHeadStep, MessageLastStep,
       MessageKeptStep, StatusStep, TimeoutStep DEF LoopStep
  <2> QED BY <2>1, <2>2
<1>5. ASSUME NEW c \in Protocols, ConnectFailed(c)  PROVE ClientInv'
  <2>1. PICK rs : rs = results
    OBVIOUS
  <2>2. More(rs)
    BY <2>1 DEF More, ClientInv, ClientTypes
  <2>3. Running /\ Closing(c) /\ Close(c, rs) /\ UNCHANGED <<call, asked>>
    BY <1>5, <2>1 DEF ConnectFailed, Loop, Closing
  <2> QED BY <2>2, <2>3, CloseStep
<1>6. ASSUME NEW c \in Protocols,
             ServerClose(c) \/ \E kind \in Kinds : ServerAnswer(c, kind)
      PROVE  ClientInv'
  BY <1>6, ServerCloseStep, ServerAnswerStep
<1>7. CASE UNCHANGED clientVars
  BY <1>7, IdleStep DEF clientVars
<1> QED BY <1>1, <1>2, <1>3, <1>4, <1>5, <1>6, <1>7 DEF ClientNext

LEMMA ClientInvSafe == ClientInv => ClientSafety
<1> SUFFICES ASSUME ClientInv  PROVE ClientSafety
  OBVIOUS
<1>1. \A c \in Protocols :
          /\ protocols[c].request # 0 =>
                 asked[protocols[c].request] = protocols[c].host
          /\ protocols[c].head # <<>> => protocols[c].head[1] = protocols[c].request
  BY DEF ClientInv, Known, Fits
<1>2. \A h \in Hosts : available[h] # 0 =>
          /\ protocols[available[h]].host = h /\ protocols[available[h]].sending = 0
          /\ protocols[available[h]].head = <<>> /\ wire[available[h]].up = <<>>
  BY DEF ClientInv, Pooled, Quiet
<1> QED BY <1>1, <1>2 DEF ClientInv, ClientSafety, OwnAnswer

\* Whatever answers, ends of connections and timeouts come, and in any order,
\* a call that returned has its own answer or an error, what is pooled owes
\* no answer, and every open protocol is in the pool or that of the call
\* (method(), on_message(), on_close(), receive_timeout() of clients/http.py).
THEOREM ClientSafe == ClientSpec => []ClientSafety
<1>1. ClientSpec => []ClientInv
  BY ClientInvInit, ClientInvStep, PTL DEF ClientSpec
<1> QED BY <1>1, ClientInvSafe, PTL

-----------------------------------------------------------------------------
(* The reverse proxy.                                                      *)

Parts == {"head", "end", "error"} \X (0 .. MaxRequests)
Counters == [UrlPrefixes -> [busy : Int, last : Int]]
Queues == [sorter : Counters, heap : Seq(UrlPrefixes) \ {<<>>}, clock : Int]

ProxyTypes ==
    /\ fronts \in [Fronts -> FrontOf]
    /\ relayed \in [Fronts -> Seq(Parts)]
    /\ upstreams \in [Upstreams -> UpstreamOf]
    /\ connMap \in [Upstreams -> 0 .. MaxFronts]
    /\ \A f \in Fronts : fronts[f].asked > 0 => fronts[f].state \in UrlPrefixes

\* A back end has one request, or none, and then no state.
Loaded(v) ==
    /\ v.owed = <<>> => v.busy = 0 /\ v.state = 0 /\ ~v.head
    /\ v.owed # <<>> => /\ v.busy = 1 /\ v.state # 0 /\ Len(v.owed) = 1
                        /\ v.status \in {"connecting", "open", "lost"}

\* conn_map and proxy_c; what is in neither was left by an upgrade.
Linked ==
    /\ \A f \in Fronts : fronts[f].proxy # 0 =>
          /\ fronts[f].status = "open" /\ Alive(fronts[f].proxy)
          /\ connMap[fronts[f].proxy] = f
    /\ \A u \in Upstreams : connMap[u] # 0 => fronts[connMap[u]].proxy = u
    /\ \A u \in Upstreams : Alive(u) /\ connMap[u] = 0 =>
          upstreams[u].owed = <<>> /\ \E f \in Fronts : fronts[f].status # "open"

Owing(f) == fronts[f].proxy # 0 /\ upstreams[fronts[f].proxy].owed # <<>>

\* the part a front was sent as its i-th
PartIs(f, i) ==
    LET x == relayed[f][i]
    IN  \/ \E n \in 1 .. fronts[f].asked :
              \/ i = 2 * n - 1 /\ x = <<"head", n>>
              \/ i = 2 * n /\ x = <<"end", n>>
        \/ x = <<"error", 0>> /\ i = Len(relayed[f]) /\ fronts[f].status = "closed"

\* A front that is open was sent all its answers, or has one to get, of which
\* the head may have come.
Told(f) ==
    /\ \A i \in 1 .. Len(relayed[f]) : PartIs(f, i)
    /\ fronts[f].status = "open" /\ ~Owing(f) =>
           Len(relayed[f]) = 2 * fronts[f].asked
    /\ Owing(f) =>
           LET v == upstreams[fronts[f].proxy]
           IN  /\ v.owed[1] = fronts[f].asked
               /\ Len(relayed[f]) = 2 * fronts[f].asked - (IF v.head THEN 1 ELSE 2)

RequestedOf(a) == UNION {{u} \X (1 .. a[u].busy) : u \in Upstreams}
LoadsOf(a, k) == {u \in Upstreams : a[u].state = k}

\* fronts and back ends belong together
Paired ==
    /\ ProxyTypes /\ Linked
    /\ \A u \in Upstreams : Loaded(upstreams[u])
    /\ \A f \in Fronts : Told(f)

\* busy_conn and the PriorityDict count what the back ends have
Counts ==
    /\ busyConn = Cardinality(RequestedOf(upstreams))
    /\ smart \in Queues
    /\ \A k \in UrlPrefixes :
          smart.sorter[k].busy = Cardinality(LoadsOf(upstreams, k))

ProxyInv == Paired /\ Counts

LEMMA ProxyConstants ==
    /\ MaxFronts \in Nat /\ MaxUpstreams \in Nat /\ MaxRequests \in Nat
    /\ \A u \in Upstreams : u \in Nat /\ u # 0 /\ u \in 0 .. MaxUpstreams
    /\ \A u \in 0 .. MaxUpstreams : u # 0 => u \in Upstreams
    /\ \A f \in Fronts : f \in Nat /\ f # 0 /\ f \in 0 .. MaxFronts
    /\ \A f \in 0 .. MaxFronts : f # 0 => f \in Fronts
    /\ IsFiniteSet(Upstreams)
<1>1. MaxFronts \in Nat /\ MaxUpstreams \in Nat /\ MaxRequests \in Nat
  BY ProxyAssumption
<1>2. IsFiniteSet(1 .. MaxUpstreams)
  BY <1>1, FS_Interval
<1> QED BY <1>1, <1>2 DEF Upstreams, Fronts

\* heappush() and heapify() leave a heap of prefixes that is not empty.
LEMMA PutFacts ==
    ASSUME NEW q \in Queues, NEW sorter \in Counters, NEW k \in UrlPrefixes
    PROVE  /\ Put(q, sorter, k) \in Queues /\ Put(q, sorter, k).sorter = sorter
<1>1. q.heap \in Seq(UrlPrefixes) /\ q.heap # <<>> /\ q.clock \in Int
  BY DEF Queues
<1>2. PICK heap : heap = q.heap
  OBVIOUS
<1>3. Len(heap) \in Nat \ {0} /\ \A i \in 1 .. Len(heap) : heap[i] \in UrlPrefixes
  BY <1>1, <1>2, LenProperties, ElementOfSeq, EmptySeq
<1>4. PICK n : n = Len(heap) + 1
  OBVIOUS
<1>5. n \in Nat /\ n >= 2
  BY <1>3, <1>4
<1>6. Pushed(heap, sorter, k) \in [1 .. n -> UrlPrefixes]
  <2> DEFINE way == {n, n \div 2, n \div 4} \ {0}
             passed == {i \in way \ {n} :
                           \A j \in way \ {n} : j >= i => Less(sorter, k, heap[j])}
             Lands(i) == i \in passed \cup {n} /\ \A j \in passed : i <= j
             Item(i) == IF Lands(i) THEN k
                        ELSE IF i = n \/ i \in passed THEN heap[i \div 2]
                        ELSE heap[i]
  <2>1. Pushed(heap, sorter, k) = [i \in 1 .. n |-> Item(i)]
    BY <1>4 DEF Pushed
  <2>2. ASSUME NEW i \in 1 .. n  PROVE Item(i) \in UrlPrefixes
    <3>1. CASE Lands(i)
      BY <3>1
    <3>2. CASE ~Lands(i) /\ (i = n \/ i \in passed)
      <4>1. i # 1
        <5>1. \A j \in passed : 1 <= j
          BY <1>5
        <5> QED BY <1>5, <3>2, <5>1
      <4>2. i \div 2 \in 1 .. Len(heap)
        BY <1>3, <1>4, <2>2, <4>1
      <4> QED BY <1>3, <3>2, <4>2
    <3>3. CASE ~Lands(i) /\ ~(i = n \/ i \in passed)
      <4>1. i \in 1 .. Len(heap)
        BY <1>3, <1>4, <2>2, <3>3
      <4> QED BY <1>3, <3>3, <4>1
    <3> QED BY <3>1, <3>2, <3>3
  <2> HIDE DEF Item
  <2> QED BY <2>1, <2>2
<1>7. Pushed(heap, sorter, k) \in Seq(UrlPrefixes) /\ Pushed(heap, sorter, k) # <<>>
  <2>1. \A x \in [1 .. n -> UrlPrefixes] : x \in Seq(UrlPrefixes) /\ x # <<>>
    BY <1>5
  <2> QED BY <1>6, <2>1
<1>8. Rebuilt(sorter) \in Seq(UrlPrefixes) /\ Rebuilt(sorter) # <<>>
  <2>1. <<1, 2>> \in Seq({1, 2}) /\ <<2, 1>> \in Seq({1, 2})
    OBVIOUS
  <2>2. <<1, 2>> # <<>> /\ <<2, 1>> # <<>>
    OBVIOUS
  <2> QED BY <2>1, <2>2 DEF Rebuilt, UrlPrefixes
<1>9. PICK x : x = IF Len(heap) < 2 * Cardinality(UrlPrefixes)
                   THEN Pushed(heap, sorter, k) ELSE Rebuilt(sorter)
  OBVIOUS
<1>10. x \in Seq(UrlPrefixes) \ {<<>>}
  BY <1>7, <1>8, <1>9
<1>11. Put(q, sorter, k) = [q EXCEPT !.sorter = sorter, !.heap = x]
  BY <1>2, <1>9 DEF Put
<1> QED BY <1>10, <1>11 DEF Queues

LEMMA AcquireFacts ==
    ASSUME NEW q \in Queues, NEW k \in UrlPrefixes
    PROVE  /\ Acquire(q, k) \in Queues
           /\ \A j \in UrlPrefixes :
                  Acquire(q, k).sorter[j].busy
                      = q.sorter[j].busy + (IF j = k THEN 1 ELSE 0)
<1>1. PICK sorter : sorter = [q.sorter EXCEPT ![k].busy = @ + 1]
  OBVIOUS
<1>2. q.sorter \in Counters
  BY DEF Queues
<1>3. sorter \in Counters
  BY <1>1, <1>2 DEF Counters
<1>4. \A j \in UrlPrefixes :
          sorter[j].busy = q.sorter[j].busy + (IF j = k THEN 1 ELSE 0)
  BY <1>1, <1>2 DEF Counters
<1>5. Acquire(q, k) = Put(q, sorter, k)
  BY <1>1 DEF Acquire
<1> QED BY <1>3, <1>4, <1>5, PutFacts

LEMMA ReleaseFacts ==
    ASSUME NEW q \in Queues, NEW k \in {0} \cup UrlPrefixes
    PROVE  /\ Release(q, k) \in Queues
           /\ \A j \in UrlPrefixes :
                  Release(q, k).sorter[j].busy
                      = q.sorter[j].busy - (IF j = k THEN 1 ELSE 0)
<1>0. q.sorter \in Counters /\ q.clock \in Int
  BY DEF Queues
<1>1. CASE k = 0
  <2>1. Release(q, k) = q /\ \A j \in UrlPrefixes : j # k
    BY <1>1 DEF Release, UrlPrefixes
  <2>2. \A j \in UrlPrefixes : q.sorter[j].busy \in Int
    BY <1>0 DEF Counters
  <2> QED BY <2>1, <2>2
<1>2. CASE k # 0
  <2>1. k \in UrlPrefixes
    BY <1>2
  <2>2. PICK idle : idle = (q.sorter[k].busy = 1)
    OBVIOUS
  <2>3. PICK r : r = [q EXCEPT !.clock = IF idle THEN @ - 1 ELSE @]
    OBVIOUS
  <2>4. r \in Queues
    BY <1>0, <2>3 DEF Queues
  <2>5. PICK last : last = IF idle THEN q.clock - 1 ELSE q.sorter[k].last
    OBVIOUS
  <2>6. PICK sorter : sorter = [q.sorter EXCEPT ![k].busy = @ - 1, ![k].last = last]
    OBVIOUS
  <2>7. last \in Int
    BY <1>0, <2>1, <2>5 DEF Counters
  <2>8. sorter \in Counters
    BY <1>0, <2>1, <2>6, <2>7 DEF Counters
  <2>9. \A j \in UrlPrefixes :
            sorter[j].busy = q.sorter[j].busy - (IF j = k THEN 1 ELSE 0)
    BY <1>0, <2>1, <2>6 DEF Counters
  <2>10. Release(q, k) = Put(r, sorter, k)
    <3>1. sorter = [q.sorter EXCEPT ![k].busy = @ - 1,
                                    ![k].last = IF idle THEN q.clock - 1 ELSE @]
      BY <1>0, <2>1, <2>5, <2>6 DEF Counters
    <3> QED BY <1>2, <2>2, <2>3, <3>1 DEF Release
  <2> QED BY <2>1, <2>4, <2>8, <2>9, <2>10, PutFacts
<1> QED BY <1>1, <1>2

-----------------------------------------------------------------------------
(* What is counted.                                                        *)

LEMMA OneMore ==
    ASSUME NEW S, IsFiniteSet(S), NEW x, x \notin S, NEW T, T = S \cup {x}
    PROVE  Cardinality(T) = Cardinality(S) + 1
  BY FS_AddElement

LEMMA OneLess ==
    ASSUME NEW S, IsFiniteSet(S), NEW x, x \in S, NEW T, T = S \ {x}
    PROVE  Cardinality(T) = Cardinality(S) - 1
  BY FS_RemoveElement

\* The requests that back ends have, if each has one at most.
LEMMA CountedType ==
    ASSUME NEW x, \A v \in Upstreams : x[v].busy \in {0, 1}
    PROVE  /\ IsFiniteSet(RequestedOf(x)) /\ Cardinality(RequestedOf(x)) \in Nat
           /\ \A y : y \in RequestedOf(x) <=>
                  \E v \in Upstreams : x[v].busy = 1 /\ y = <<v, 1>>
<1>1. 1 .. 0 = {} /\ 1 .. 1 = {1}
  OBVIOUS
<1>2. ASSUME NEW v \in Upstreams, NEW y
      PROVE  y \in {v} \X (1 .. x[v].busy) <=> x[v].busy = 1 /\ y = <<v, 1>>
  <2>1. CASE x[v].busy = 1
    BY <1>1, <2>1
  <2>2. CASE x[v].busy = 0
    BY <1>1, <2>2
  <2> QED BY <2>1, <2>2
<1>3. \A y : y \in RequestedOf(x) <=>
          \E v \in Upstreams : x[v].busy = 1 /\ y = <<v, 1>>
  <2>1. \A y : y \in RequestedOf(x) <=>
            \E v \in Upstreams : y \in {v} \X (1 .. x[v].busy)
    BY DEF RequestedOf
  <2> QED BY <1>2, <2>1
<1>4. RequestedOf(x) \subseteq Upstreams \X {1}
  BY <1>3
<1>5. IsFiniteSet(Upstreams \X {1})
  BY ProxyConstants, FS_Singleton, FS_Product
<1> QED BY <1>3, <1>4, <1>5, FS_Subset, FS_CardinalityType

\* One back end changes, with one request at most before and after.
OneChanges(a, b, u) ==
    /\ \A v \in Upstreams \ {u} : b[v] = a[v]
    /\ \A v \in Upstreams : a[v].busy \in {0, 1} /\ b[v].busy \in {0, 1}
Recounted(a, b, u) ==
    /\ Cardinality(RequestedOf(b))
           = Cardinality(RequestedOf(a)) - a[u].busy + b[u].busy
    /\ \A k \in UrlPrefixes :
           Cardinality(LoadsOf(b, k))
               = Cardinality(LoadsOf(a, k)) - (IF a[u].state = k THEN 1 ELSE 0)
                 + (IF b[u].state = k THEN 1 ELSE 0)

LEMMA Counted ==
    ASSUME NEW a, NEW b, NEW u \in Upstreams, OneChanges(a, b, u)
    PROVE  Recounted(a, b, u)
<1>1. /\ \A v \in Upstreams \ {u} : b[v] = a[v]
      /\ \A v \in Upstreams : a[v].busy \in {0, 1} /\ b[v].busy \in {0, 1}
  BY DEF OneChanges
<1>2. /\ IsFiniteSet(RequestedOf(a)) /\ Cardinality(RequestedOf(a)) \in Nat
      /\ \A y : y \in RequestedOf(a) <=>
             \E v \in Upstreams : a[v].busy = 1 /\ y = <<v, 1>>
      /\ \A y : y \in RequestedOf(b) <=>
             \E v \in Upstreams : b[v].busy = 1 /\ y = <<v, 1>>
  BY <1>1, CountedType
<1>3. PICK x : x = <<u, 1>>
  OBVIOUS
<1>4. /\ \A y : y # x => (y \in RequestedOf(b) <=> y \in RequestedOf(a))
      /\ x \in RequestedOf(a) <=> a[u].busy = 1
      /\ x \in RequestedOf(b) <=> b[u].busy = 1
  <2>1. \A v : <<v, 1>> = x <=> v = u
    BY <1>3
  <2> QED BY <1>1, <1>2, <2>1
<1>5. Cardinality(RequestedOf(b)) = Cardinality(RequestedOf(a)) - a[u].busy + b[u].busy
  <2>1. CASE a[u].busy = b[u].busy
    <3>1. RequestedOf(b) = RequestedOf(a)
      BY <1>4, <2>1
    <3> QED BY <1>1, <1>2, <2>1, <3>1
  <2>2. CASE a[u].busy = 0 /\ b[u].busy = 1
    <3>1. RequestedOf(b) = RequestedOf(a) \cup {x} /\ x \notin RequestedOf(a)
      BY <1>4, <2>2
    <3>2. Cardinality(RequestedOf(b)) = Cardinality(RequestedOf(a)) + 1
      BY <1>2, <3>1, OneMore
    <3> QED BY <1>2, <2>2, <3>2
  <2>3. CASE a[u].busy = 1 /\ b[u].busy = 0
    <3>1. RequestedOf(b) = RequestedOf(a) \ {x} /\ x \in RequestedOf(a)
      BY <1>4, <2>3
    <3>2. Cardinality(RequestedOf(b)) = Cardinality(RequestedOf(a)) - 1
      BY <1>2, <3>1, OneLess
    <3> QED BY <1>2, <2>3, <3>2
  <2> QED BY <1>1, <2>1, <2>2, <2>3
<1>6. ASSUME NEW k \in UrlPrefixes
      PROVE  Cardinality(LoadsOf(b, k))
                 = Cardinality(LoadsOf(a, k)) - (IF a[u].state = k THEN 1 ELSE 0)
                   + (IF b[u].state = k THEN 1 ELSE 0)
  <2>1. IsFiniteSet(LoadsOf(a, k)) /\ Cardinality(LoadsOf(a, k)) \in Nat
    <3>1. LoadsOf(a, k) \in SUBSET Upstreams
      BY DEF LoadsOf
    <3> QED BY <3>1, ProxyConstants, FS_Subset, FS_CardinalityType
  <2>2. /\ \A y : y # u => (y \in LoadsOf(b, k) <=> y \in LoadsOf(a, k))
        /\ u \in LoadsOf(a, k) <=> a[u].state = k
        /\ u \in LoadsOf(b, k) <=> b[u].state = k
    BY <1>1 DEF LoadsOf
  <2>3. CASE (a[u].state = k) <=> (b[u].state = k)
    <3>1. LoadsOf(b, k) = LoadsOf(a, k)
      BY <2>2, <2>3
    <3> QED BY <2>1, <2>3, <3>1
  <2>4. CASE a[u].state # k /\ b[u].state = k
    <3>1. LoadsOf(b, k) = LoadsOf(a, k) \cup {u} /\ u \notin LoadsOf(a, k)
      BY <2>2, <2>4
    <3>2. Cardinality(LoadsOf(b, k)) = Cardinality(LoadsOf(a, k)) + 1
      BY <2>1, <3>1, OneMore
    <3> QED BY <2>1, <2>4, <3>2
  <2>5. CASE a[u].state = k /\ b[u].state # k
    <3>1. LoadsOf(b, k) = LoadsOf(a, k) \ {u} /\ u \in LoadsOf(a, k)
      BY <2>2, <2>5
    <3>2. Cardinality(LoadsOf(b, k)) = Cardinality(LoadsOf(a, k)) - 1
      BY <2>1, <3>1, OneLess
    <3> QED BY <2>1, <2>5, <3>2
  <2> QED BY <2>3, <2>4, <2>5
<1> QED BY <1>5, <1>6 DEF Recounted

-----------------------------------------------------------------------------
(* Fronts and back ends.                                                    *)

Lives == {"connecting", "open", "lost"}

\* A front whose own fields, and those of its back end, did not change.
LEMMA ToldStays ==
    ASSUME NEW f \in Fronts, Told(f),
           fronts'[f] = fronts[f], relayed'[f] = relayed[f],
           fronts[f].proxy # 0 =>
               /\ upstreams'[fronts[f].proxy].owed = upstreams[fronts[f].proxy].owed
               /\ upstreams'[fronts[f].proxy].head = upstreams[fronts[f].proxy].head
    PROVE  Told(f)'
<1>1. Owing(f)' <=> Owing(f)
  BY DEF Owing
<1>2. Owing(f) => fronts[f].proxy # 0
  BY DEF Owing
<1>3. \A i : PartIs(f, i)' <=> PartIs(f, i)
  BY DEF PartIs
<1> QED BY <1>1, <1>2, <1>3 DEF Told

\* One front, and its back ends of before and after, change; every other front
\* and back end is what it was.
LEMMA PairedStep ==
    ASSUME Paired, NEW f \in Fronts, NEW W \in SUBSET Upstreams,
           fronts' \in [Fronts -> FrontOf], relayed' \in [Fronts -> Seq(Parts)],
           upstreams' \in [Upstreams -> UpstreamOf],
           connMap' \in [Upstreams -> 0 .. MaxFronts],
           \A g \in Fronts \ {f} :
               fronts'[g] = fronts[g] /\ relayed'[g] = relayed[g],
           \A v \in Upstreams \ W :
               upstreams'[v] = upstreams[v] /\ connMap'[v] = connMap[v],
           fronts[f].proxy \in {0} \cup W,
           fronts'[f].asked > 0 => fronts'[f].state \in UrlPrefixes,
           fronts[f].status # "open" => fronts'[f].status # "open",
           \A w \in W :
               /\ connMap[w] \in {0, f} /\ Loaded(upstreams'[w])
               /\ \/ connMap'[w] = f /\ fronts'[f].proxy = w
                  \/ /\ connMap'[w] = 0 /\ upstreams'[w].owed = <<>>
                     /\ upstreams'[w].status \in Lives => fronts'[f].status # "open",
           fronts'[f].proxy # 0 =>
               /\ fronts'[f].status = "open" /\ fronts'[f].proxy \in W
               /\ upstreams'[fronts'[f].proxy].status \in Lives
               /\ connMap'[fronts'[f].proxy] = f,
           Told(f)'
    PROVE  Paired'
<1>0. /\ \A u \in Upstreams : u # 0
      /\ \A h \in 0 .. MaxFronts : h # 0 => h \in Fronts
      /\ \A h \in Fronts : h # 0
      /\ \A u \in 0 .. MaxUpstreams : u # 0 => u \in Upstreams
  BY ProxyConstants
<1>1. /\ fronts \in [Fronts -> FrontOf] /\ connMap \in [Upstreams -> 0 .. MaxFronts]
      /\ Linked /\ \A g \in Fronts : Told(g)
      /\ \A u \in Upstreams : Loaded(upstreams[u])
  BY DEF Paired, ProxyTypes
<1>2. \A g \in Fronts : fronts[g].proxy \in 0 .. MaxUpstreams
  BY <1>1 DEF FrontOf
<1>3. ASSUME NEW g \in Fronts \ {f}, fronts[g].proxy # 0
      PROVE  /\ fronts[g].proxy \in Upstreams \ W
             /\ fronts[g].status = "open" /\ upstreams[fronts[g].proxy].status \in Lives
             /\ connMap[fronts[g].proxy] = g
  <2>1. /\ fronts[g].proxy \in Upstreams /\ connMap[fronts[g].proxy] = g
        /\ fronts[g].status = "open" /\ upstreams[fronts[g].proxy].status \in Lives
    BY <1>0, <1>1, <1>2, <1>3 DEF Linked, Alive, Up, Lives
  <2> QED BY <1>0, <2>1
<1>4. ProxyTypes'
  <2>1. \A g \in Fronts : fronts'[g].asked > 0 => fronts'[g].state \in UrlPrefixes
    BY DEF Paired, ProxyTypes
  <2> QED BY <2>1 DEF ProxyTypes
<1>5. Linked'
  <2>1. ASSUME NEW g \in Fronts, fronts'[g].proxy # 0
        PROVE  /\ fronts'[g].status = "open"
               /\ upstreams'[fronts'[g].proxy].status \in Lives
               /\ connMap'[fronts'[g].proxy] = g
    <3>1. CASE g = f
      BY <2>1, <3>1
    <3>2. CASE g # f
      <4>1. fronts'[g] = fronts[g] /\ fronts[g].proxy # 0
        BY <2>1, <3>2
      <4>2. PICK u : u = fronts[g].proxy
        OBVIOUS
      <4>3. /\ u \in Upstreams \ W /\ fronts[g].status = "open"
            /\ upstreams[u].status \in Lives /\ connMap[u] = g
        BY <1>3, <3>2, <4>1, <4>2
      <4>4. upstreams'[u] = upstreams[u] /\ connMap'[u] = connMap[u]
        BY <4>3
      <4> QED BY <4>1, <4>2, <4>3, <4>4
    <3> QED BY <3>1, <3>2
  <2>2. ASSUME NEW u \in Upstreams, connMap'[u] # 0
        PROVE  fronts'[connMap'[u]].proxy = u
    <3>1. CASE u \in W
      BY <2>2, <3>1
    <3>2. CASE u \notin W
      <4>1. connMap'[u] = connMap[u] /\ connMap[u] \in Fronts
        BY <1>0, <1>1, <2>2, <3>2
      <4>2. fronts[connMap[u]].proxy = u
        BY <1>1, <2>2, <4>1 DEF Linked
      <4>3. connMap[u] # f
        BY <1>0, <3>2, <4>2
      <4> QED BY <4>1, <4>2, <4>3
    <3> QED BY <3>1, <3>2
  <2>3. ASSUME NEW u \in Upstreams, upstreams'[u].status \in Lives, connMap'[u] = 0
        PROVE  upstreams'[u].owed = <<>> /\ \E g \in Fronts : fronts'[g].status # "open"
    <3>1. CASE u \in W
      BY <1>0, <2>3, <3>1
    <3>2. CASE u \notin W
      <4>1. upstreams'[u] = upstreams[u] /\ connMap[u] = 0
        BY <2>3, <3>2
      <4>2. upstreams[u].owed = <<>> /\ \E g \in Fronts : fronts[g].status # "open"
        BY <1>1, <2>3, <4>1 DEF Linked, Alive, Up, Lives
      <4> QED BY <4>1, <4>2
    <3> QED BY <3>1, <3>2
  <2> QED BY <2>1, <2>2, <2>3 DEF Linked, Alive, Up, Lives
<1>6. \A u \in Upstreams : Loaded(upstreams'[u])
  BY <1>1
<1>7. ASSUME NEW g \in Fronts  PROVE Told(g)'
  <2>1. CASE g = f
    BY <2>1
  <2>2. CASE g # f
    BY <1>1, <1>3, <2>2, ToldStays
  <2> QED BY <2>1, <2>2
<1> QED BY <1>4, <1>5, <1>6, <1>7 DEF Paired

\* The counts after one back end has changed.
LEMMA CountsOne ==
    ASSUME Paired, Counts, NEW u \in Upstreams,
           \A v \in Upstreams \ {u} : upstreams'[v] = upstreams[v],
           upstreams'[u].busy \in {0, 1},
           busyConn' = busyConn - upstreams[u].busy + upstreams'[u].busy,
           smart' \in Queues,
           \A k \in UrlPrefixes :
               smart'.sorter[k].busy
                   = smart.sorter[k].busy - (IF upstreams[u].state = k THEN 1 ELSE 0)
                     + (IF upstreams'[u].state = k THEN 1 ELSE 0)
    PROVE  Counts'
<1>1. PICK a : a = upstreams
  OBVIOUS
<1>2. PICK b : b = upstreams'
  OBVIOUS
<1>3. \A v \in Upstreams : a[v].busy \in {0, 1} /\ b[v].busy \in {0, 1}
  BY <1>1, <1>2 DEF Paired, Loaded
<1>4. /\ Cardinality(RequestedOf(b))
             = Cardinality(RequestedOf(a)) - a[u].busy + b[u].busy
      /\ \A k \in UrlPrefixes :
             Cardinality(LoadsOf(b, k))
                 = Cardinality(LoadsOf(a, k)) - (IF a[u].state = k THEN 1 ELSE 0)
                   + (IF b[u].state = k THEN 1 ELSE 0)
  <2>1. \A v \in Upstreams \ {u} : b[v] = a[v]
    BY <1>1, <1>2
  <2>2. OneChanges(a, b, u)
    BY <1>3, <2>1 DEF OneChanges
  <2>3. Recounted(a, b, u)
    BY <2>2, Counted
  <2> QED BY <2>3 DEF Recounted
<1>5. /\ busyConn = Cardinality(RequestedOf(a))
      /\ \A k \in UrlPrefixes : smart.sorter[k].busy = Cardinality(LoadsOf(a, k))
  BY <1>1 DEF Counts
<1>6. busyConn' = Cardinality(RequestedOf(b))
  BY <1>1, <1>2, <1>4, <1>5
<1>7. \A k \in UrlPrefixes : smart'.sorter[k].busy = Cardinality(LoadsOf(b, k))
  BY <1>1, <1>2, <1>4, <1>5
<1> QED BY <1>2, <1>6, <1>7 DEF Counts

\* The fields of a front and of its back end.
LEMMA PairFacts ==
    ASSUME Paired, NEW f \in Fronts
    PROVE  /\ fronts[f] \in FrontOf /\ relayed[f] \in Seq(Parts)
           /\ fronts[f].asked \in 0 .. MaxRequests
           /\ Len(relayed[f]) \in Nat
           /\ fronts[f].proxy # 0 =>
                  /\ fronts[f].proxy \in Upstreams /\ fronts[f].status = "open"
                  /\ upstreams[fronts[f].proxy].status \in Lives
                  /\ connMap[fronts[f].proxy] = f
<1>1. fronts[f] \in FrontOf /\ relayed[f] \in Seq(Parts) /\ Linked
  BY DEF Paired, ProxyTypes
<1>2. Len(relayed[f]) \in Nat
  BY <1>1, LenProperties
<1>3. fronts[f].asked \in 0 .. MaxRequests /\ fronts[f].proxy \in 0 .. MaxUpstreams
  BY <1>1 DEF FrontOf
<1> QED BY <1>1, <1>2, <1>3, ProxyConstants DEF Linked, Alive, Up, Lives

\* The front that a back end in progress is linked to, or one that does not
\* care.
LEMMA FrontFor ==
    ASSUME Paired, NEW u \in Upstreams, Alive(u)
    PROVE  \E f \in Fronts :
               /\ connMap[u] \in {0, f} /\ fronts[f].proxy \in {0, u}
               /\ fronts[f].proxy = u <=> connMap[u] = f
               /\ connMap[u] = f <=> fronts[f].status = "open"
               /\ connMap[u] = 0 => upstreams[u].owed = <<>>
<1>1. CASE connMap[u] # 0
  <2>1. connMap[u] \in Fronts /\ fronts[connMap[u]].proxy = u /\ u # 0
    BY <1>1, ProxyConstants DEF Paired, ProxyTypes, Linked
  <2>2. fronts[connMap[u]].status = "open"
    BY <2>1, PairFacts
  <2> QED BY <1>1, <2>1, <2>2
<1>2. CASE connMap[u] = 0
  <2>1. upstreams[u].owed = <<>>
    BY <1>2 DEF Paired, Linked
  <2>2. PICK f \in Fronts : fronts[f].status # "open"
    BY <1>2 DEF Paired, Linked
  <2>3. fronts[f].proxy = 0 /\ f # 0 /\ u # 0
    BY <2>2, PairFacts, ProxyConstants
  <2> QED BY <1>2, <2>1, <2>2, <2>3
<1> QED BY <1>1, <1>2

\* A back end that is not in progress owes nothing and has no front.
LEMMA DeadFacts ==
    ASSUME Paired, NEW u \in Upstreams, ~Alive(u)
    PROVE  /\ upstreams[u].owed = <<>> /\ connMap[u] = 0
<1>1. upstreams[u].owed = <<>>
  BY DEF Paired, Loaded, Alive, Up
<1>2. connMap[u] = 0
  <2> SUFFICES ASSUME connMap[u] # 0  PROVE FALSE
    OBVIOUS
  <2>1. connMap[u] \in Fronts /\ fronts[connMap[u]].proxy = u /\ u # 0
    BY ProxyConstants DEF Paired, ProxyTypes, Linked
  <2> QED BY <2>1, PairFacts DEF Alive, Up, Lives
<1> QED BY <1>1, <1>2

LEMMA ClosedFacts ==
    ASSUME Paired, NEW u \in Upstreams
    PROVE  /\ ClosedUp(u) \in UpstreamOf /\ Loaded(ClosedUp(u))
           /\ ClosedUp(u).owed = <<>> /\ ClosedUp(u).status = "closed"
           /\ ClosedUp(u).busy = 0 /\ ClosedUp(u).state = 0
<1>1. PICK y : y = upstreams[u]
  OBVIOUS
<1>2. PICK e : e = <<>>
  OBVIOUS
<1>3. y \in UpstreamOf /\ e \in Seq(1 .. MaxRequests)
  BY <1>1, <1>2, EmptySeq DEF Paired, ProxyTypes
<1>4. PICK z : z = [y EXCEPT !.status = "closed", !.waiting = FALSE, !.busy = 0,
                             !.state = 0, !.owed = e, !.head = FALSE]
  OBVIOUS
<1>5. /\ z \in UpstreamOf /\ z.owed = e /\ z.status = "closed" /\ z.busy = 0
      /\ z.state = 0 /\ z.head = FALSE
  BY <1>3, <1>4 DEF UpstreamOf
<1>6. ClosedUp(u) = z
  BY <1>1, <1>2, <1>4 DEF ClosedUp
<1>7. Loaded(z)
  BY <1>2, <1>5 DEF Loaded
<1> QED BY <1>2, <1>5, <1>6, <1>7

LEMMA UpstreamFacts ==
    ASSUME Paired, NEW u \in Upstreams
    PROVE  /\ upstreams[u] \in UpstreamOf /\ Loaded(upstreams[u])
           /\ upstreams[u].owed = <<>> => upstreams[u].busy = 0 /\ upstreams[u].state = 0
           /\ upstreams[u].owed # <<>> =>
                  upstreams[u].busy = 1 /\ upstreams[u].state \in UrlPrefixes
           /\ upstreams[u].state \in {0} \cup UrlPrefixes
<1>1. upstreams[u] \in UpstreamOf /\ Loaded(upstreams[u])
  BY DEF Paired, ProxyTypes
<1>2. upstreams[u].state \in {0} \cup UrlPrefixes
  BY <1>1 DEF UpstreamOf
<1> QED BY <1>1, <1>2 DEF Loaded

\* A front that has all its answers has none to get.
LEMMA CaughtUpIdle ==
    ASSUME Paired, NEW f \in Fronts, fronts[f].status = "open", CaughtUp(f)
    PROVE  ~Owing(f)
<1> SUFFICES ASSUME Owing(f)  PROVE FALSE
  OBVIOUS
<1>1. PICK n : n = fronts[f].asked
  OBVIOUS
<1>2. PICK s : s = relayed[f]
  OBVIOUS
<1>3. n \in Nat /\ s \in Seq(Parts) /\ Len(s) \in Nat /\ DOMAIN s = 1 .. Len(s)
  BY <1>1, <1>2, PairFacts, ProxyConstants, LenProperties
<1>4. Told(f)
  BY DEF Paired
<1>5. Len(s) <= 2 * n - 1
  BY <1>1, <1>2, <1>3, <1>4 DEF Told
<1>6. \A i \in 1 .. Len(s) : s[i][1] = "end" => \E m \in 1 .. n : i = 2 * m
  BY <1>1, <1>2, <1>4 DEF Told, PartIs
<1>7. PICK E : E = {i \in DOMAIN s : s[i][1] = "end"}
  OBVIOUS
<1>8. PICK g : g = [i \in E |-> i \div 2]
  OBVIOUS
<1>9. \A i \in E : /\ \E m \in 1 .. n : i = 2 * m
                   /\ i \in 1 .. Len(s)
  BY <1>3, <1>6, <1>7
<1>10. \A i \in E : i \in Int /\ i = 2 * (i \div 2) /\ i \div 2 \in 1 .. n - 1
  BY <1>3, <1>5, <1>9
<1>11. g \in Injection(E, 1 .. n - 1)
  <2>1. g \in [E -> 1 .. n - 1]
    BY <1>8, <1>10
  <2>2. \A x, y \in E : g[x] = g[y] => x = y
    BY <1>8, <1>10
  <2> QED BY <2>1, <2>2 DEF Injection, IsInjective
<1>12. n >= 1
  BY <1>3, <1>5
<1>13. IsFiniteSet(1 .. n - 1) /\ Cardinality(1 .. n - 1) = n - 1
  BY <1>3, <1>12, FS_Interval
<1>14. Cardinality(E) <= n - 1
  BY <1>11, <1>13, FS_Injection
<1>15. Cardinality(E) = n
  BY <1>1, <1>2, <1>7 DEF CaughtUp, Finished
<1> QED BY <1>3, <1>14, <1>15

\* What a front was sent stays right if only more requests follow.
LEMMA PartsSame ==
    ASSUME Paired, NEW f \in Fronts, relayed'[f] = relayed[f],
           fronts'[f].asked \in Nat, fronts'[f].asked >= fronts[f].asked,
           fronts[f].status = "closed" => fronts'[f].status = "closed"
    PROVE  \A i \in 1 .. Len(relayed'[f]) : PartIs(f, i)'
<1>1. \A i \in 1 .. Len(relayed[f]) : PartIs(f, i)
  BY DEF Paired, Told
<1>2. fronts[f].asked \in Nat
  BY PairFacts, ProxyConstants
<1>3. \A n \in 1 .. fronts[f].asked : n \in 1 .. fronts'[f].asked
  BY <1>2
<1> QED BY <1>1, <1>3 DEF PartIs

\* One more part.
LEMMA PartsMore ==
    ASSUME Paired, NEW f \in Fronts, fronts[f].status = "open", NEW x \in Parts,
           relayed' = [relayed EXCEPT ![f] = Append(@, x)],
           fronts'[f].asked = fronts[f].asked,
           \/ \E n \in 1 .. fronts[f].asked :
                 \/ Len(relayed[f]) + 1 = 2 * n - 1 /\ x = <<"head", n>>
                 \/ Len(relayed[f]) + 1 = 2 * n /\ x = <<"end", n>>
           \/ x = <<"error", 0>> /\ fronts'[f].status = "closed"
    PROVE  /\ relayed' \in [Fronts -> Seq(Parts)]
           /\ \A g \in Fronts \ {f} : relayed'[g] = relayed[g]
           /\ Len(relayed'[f]) = Len(relayed[f]) + 1
           /\ \A i \in 1 .. Len(relayed'[f]) : PartIs(f, i)'
<1>1. relayed \in [Fronts -> Seq(Parts)]
  BY DEF Paired, ProxyTypes
<1>2. PICK s : s = relayed[f]
  OBVIOUS
<1>3. PICK t : t = Append(s, x)
  OBVIOUS
<1>4. s \in Seq(Parts) /\ Len(s) \in Nat
  BY <1>1, <1>2, LenProperties
<1>5. /\ t \in Seq(Parts) /\ Len(t) = Len(s) + 1
      /\ \A i \in 1 .. Len(s) : t[i] = s[i]
      /\ t[Len(s) + 1] = x
  BY <1>3, <1>4, AppendProperties
<1>6. relayed' = [relayed EXCEPT ![f] = t] /\ relayed'[f] = t
  BY <1>1, <1>2, <1>3
<1>7. relayed' \in [Fronts -> Seq(Parts)] /\ \A g \in Fronts \ {f} : relayed'[g] = relayed[g]
  BY <1>1, <1>5, <1>6
<1>8. ASSUME NEW i \in 1 .. Len(t)  PROVE PartIs(f, i)'
  <2>1. CASE i = Len(s) + 1
    BY <1>2, <1>5, <1>6, <2>1 DEF PartIs
  <2>2. CASE i # Len(s) + 1
    <3>1. i \in 1 .. Len(s)
      BY <1>4, <1>5, <2>2
    <3>2. PartIs(f, i)
      BY <1>2, <3>1 DEF Paired, Told
    <3>3. t[i] = s[i]
      BY <1>5, <3>1
    <3> QED BY <1>2, <1>6, <3>2, <3>3 DEF PartIs
  <2> QED BY <2>1, <2>2
<1> QED BY <1>2, <1>5, <1>6, <1>7, <1>8

-----------------------------------------------------------------------------
(* Requests.                                                                *)

LEMMA StateOfPrefix ==
    ASSUME ProxyInv, NEW f \in Fronts
    PROVE  StateOf(f) \in UrlPrefixes
<1>1. smart \in Queues
  BY DEF ProxyInv, Counts
<1>2. smart.heap \in Seq(UrlPrefixes) /\ smart.heap # <<>>
  BY <1>1 DEF Queues
<1>3. Head(smart.heap) \in UrlPrefixes
  BY <1>2, HeadTailProperties
<1>4. fronts[f].asked > 0 => fronts[f].state \in UrlPrefixes
  BY DEF ProxyInv, Paired, ProxyTypes
<1> QED BY <1>3, <1>4 DEF StateOf, Smallest

\* The request of a front goes to `u`; the back ends of W other than `u` close.
LEMMA RequestPaired ==
    ASSUME Paired, ~Pipelining, NEW f \in Fronts, NEW u \in Upstreams,
           NEW W \in SUBSET Upstreams, NEW k \in UrlPrefixes,
           NEW st \in {"connecting", "open"}, Asks(f), Asking(f, u, k),
           u \in W, upstreams[u].owed = <<>>, connMap[u] \in {0, f},
           fronts[f].proxy \in {0} \cup W,
           upstreams' = [v \in Upstreams |-> upstreams'[v]],
           connMap' = [v \in Upstreams |-> connMap'[v]],
           \A v \in Upstreams \ W :
               upstreams'[v] = upstreams[v] /\ connMap'[v] = connMap[v],
           upstreams'[u] = Assigned(upstreams[u], k, fronts[f].asked + 1, st),
           connMap'[u] = f,
           \A w \in W \ {u} :
               connMap[w] = f /\ upstreams'[w] = ClosedUp(w) /\ connMap'[w] = 0
    PROVE  /\ Paired'
           /\ upstreams'[u].busy = 1 /\ upstreams'[u].state = k
<1>1. /\ fronts[f].status = "open" /\ fronts[f].asked < MaxRequests /\ CaughtUp(f)
      /\ fronts' = [fronts EXCEPT ![f].asked = @ + 1, ![f].proxy = u, ![f].state = k]
      /\ relayed' = relayed
  BY DEF Asks, Asking
<1>2. ~Owing(f)
  BY <1>1, CaughtUpIdle
<1>3. /\ fronts \in [Fronts -> FrontOf] /\ relayed \in [Fronts -> Seq(Parts)]
      /\ upstreams \in [Upstreams -> UpstreamOf]
      /\ connMap \in [Upstreams -> 0 .. MaxFronts] /\ Told(f)
  BY DEF Paired, ProxyTypes
<1>4. PICK n : n = fronts[f].asked + 1
  OBVIOUS
<1>5. n \in 1 .. MaxRequests /\ fronts[f].asked \in Nat /\ fronts[f].asked = n - 1
  BY <1>1, <1>4, PairFacts, ProxyConstants
<1>6. PICK p : p = fronts[f]
  OBVIOUS
<1>7. PICK q : q = [p EXCEPT !.asked = n, !.proxy = u, !.state = k]
  OBVIOUS
<1>8. u \in 0 .. MaxUpstreams /\ n \in 0 .. MaxRequests /\ p \in FrontOf
  BY <1>3, <1>5, <1>6, ProxyConstants
<1>9. /\ q \in FrontOf /\ q.asked = n /\ q.proxy = u /\ q.state = k
      /\ q.status = p.status
  BY <1>7, <1>8 DEF FrontOf
<1>10. fronts' = [fronts EXCEPT ![f] = q] /\ fronts'[f] = q
  BY <1>1, <1>3, <1>4, <1>6, <1>7
<1>11. fronts' \in [Fronts -> FrontOf] /\ \A g \in Fronts \ {f} : fronts'[g] = fronts[g]
  BY <1>3, <1>9, <1>10
<1>12. PICK v : v = upstreams[u]
  OBVIOUS
<1>13. v \in UpstreamOf /\ v.owed = <<>> /\ v.busy = 0
  BY <1>3, <1>12 DEF Paired, Loaded
<1>14. PICK w : w = upstreams'[u]
  OBVIOUS
<1>15. PICK o : o = <<n>>
  OBVIOUS
<1>16. /\ o \in Seq(1 .. MaxRequests) /\ o # <<>> /\ Len(o) = 1 /\ o[1] = n
       /\ Append(<<>>, n) = o
  BY <1>5, <1>15
<1>17. w = [v EXCEPT !.status = st, !.state = k, !.busy = @ + 1, !.waiting = TRUE,
                     !.owed = Append(@, n), !.head = FALSE]
  BY <1>4, <1>12, <1>14 DEF Assigned
<1>18. w = [v EXCEPT !.status = st, !.state = k, !.busy = 1, !.waiting = TRUE,
                     !.owed = o, !.head = FALSE]
  <2>1. w = [v EXCEPT !.status = st, !.state = k, !.busy = v.busy + 1,
                      !.waiting = TRUE, !.owed = Append(v.owed, n), !.head = FALSE]
    BY <1>13, <1>17 DEF UpstreamOf
  <2>2. v.busy + 1 = 1 /\ Append(v.owed, n) = o
    BY <1>13, <1>16
  <2> QED BY <2>1, <2>2
<1>19. /\ w \in UpstreamOf /\ w.owed = o /\ w.busy = 1 /\ w.state = k
       /\ w.head = FALSE /\ w.status = st
  BY <1>13, <1>16, <1>18 DEF UpstreamOf
<1>20. Loaded(w)
  <2>1. k # 0
    BY DEF UrlPrefixes
  <2> QED BY <1>16, <1>19, <2>1 DEF Loaded
<1>21. ASSUME NEW x \in W \ {u}
       PROVE  /\ upstreams'[x] \in UpstreamOf /\ Loaded(upstreams'[x])
              /\ upstreams'[x].owed = <<>> /\ upstreams'[x].status = "closed"
  <2>1. upstreams'[x] = ClosedUp(x)
    OBVIOUS
  <2> QED BY <2>1, ClosedFacts
<1>22. upstreams' \in [Upstreams -> UpstreamOf] /\ connMap' \in [Upstreams -> 0 .. MaxFronts]
  <2>1. \A x \in Upstreams :
            upstreams'[x] \in UpstreamOf /\ connMap'[x] \in 0 .. MaxFronts
    <3>1. f \in 0 .. MaxFronts /\ 0 \in 0 .. MaxFronts
      BY ProxyConstants
    <3> QED BY <1>3, <1>14, <1>19, <1>21, <3>1
  <2>2. upstreams' = [x \in Upstreams |-> upstreams'[x]]
    OBVIOUS
  <2>3. connMap' = [x \in Upstreams |-> connMap'[x]]
    OBVIOUS
  <2>4. upstreams' \in [Upstreams -> UpstreamOf]
    BY <2>1, <2>2
  <2>5. connMap' \in [Upstreams -> 0 .. MaxFronts]
    BY <2>1, <2>3
  <2> QED BY <2>4, <2>5
<1>23. Told(f)'
  <2>1. \A i \in 1 .. Len(relayed'[f]) : PartIs(f, i)'
    <3>1. /\ relayed'[f] = relayed[f] /\ fronts'[f].asked \in Nat
          /\ fronts'[f].asked >= fronts[f].asked
      BY <1>1, <1>5, <1>9, <1>10
    <3>2. fronts[f].status # "closed"
      BY <1>1
    <3> QED BY <3>1, <3>2, PartsSame
  <2>2. Len(relayed[f]) = 2 * (n - 1)
    BY <1>1, <1>2, <1>3, <1>5 DEF Told
  <2>3. Owing(f)'
    <3>1. u # 0
      BY ProxyConstants
    <3> QED BY <1>9, <1>10, <1>14, <1>16, <1>19, <3>1 DEF Owing
  <2>4. Len(relayed'[f]) = 2 * n - 2
    BY <1>1, <1>5, <2>2
  <2> QED BY <1>9, <1>10, <1>14, <1>16, <1>19, <2>1, <2>3, <2>4 DEF Told
<1>24. Paired'
  <2>1. ASSUME NEW x \in W
        PROVE  /\ connMap[x] \in {0, f} /\ Loaded(upstreams'[x])
               /\ \/ connMap'[x] = f /\ fronts'[f].proxy = x
                  \/ /\ connMap'[x] = 0 /\ upstreams'[x].owed = <<>>
                     /\ upstreams'[x].status \in Lives => fronts'[f].status # "open"
    <3>1. CASE x = u
      BY <1>9, <1>10, <1>14, <1>20, <3>1
    <3>2. CASE x # u
      BY <1>21, <3>2 DEF Lives
    <3> QED BY <3>1, <3>2
  <2>2. /\ fronts'[f].status = "open" /\ fronts'[f].proxy = u /\ fronts'[f].state = k
        /\ upstreams'[u].status \in Lives
    BY <1>1, <1>6, <1>9, <1>10, <1>14, <1>19 DEF Lives
  <2>3. \A g \in Fronts \ {f} : fronts'[g] = fronts[g] /\ relayed'[g] = relayed[g]
    BY <1>1, <1>11
  <2>4. fronts'[f].proxy # 0 =>
            /\ fronts'[f].status = "open" /\ fronts'[f].proxy \in W
            /\ upstreams'[fronts'[f].proxy].status \in Lives
            /\ connMap'[fronts'[f].proxy] = f
    BY <2>2
  <2>5. relayed' \in [Fronts -> Seq(Parts)] /\ fronts[f].status = "open"
    BY <1>1, <1>3
  <2>6. fronts'[f].asked > 0 => fronts'[f].state \in UrlPrefixes
    BY <2>2
  <2>7. /\ Paired /\ f \in Fronts /\ W \in SUBSET Upstreams
        /\ fronts[f].proxy \in {0} \cup W
        /\ \A x \in Upstreams \ W :
              upstreams'[x] = upstreams[x] /\ connMap'[x] = connMap[x]
        /\ fronts' \in [Fronts -> FrontOf]
    BY <1>11
  <2>8. fronts[f].status # "open" => fronts'[f].status # "open"
    BY <2>5
  <2> QED BY ONLY <1>22, <1>23, <2>1, <2>3, <2>4, <2>5, <2>6, <2>7, <2>8, PairedStep
<1> QED BY <1>14, <1>19, <1>24

LEMMA CountsType ==
    ASSUME Paired, Counts
    PROVE  busyConn \in Int /\ \A j \in UrlPrefixes : smart.sorter[j].busy \in Int
<1>1. PICK q : q = smart
  OBVIOUS
<1>2. q \in Queues
  BY <1>1 DEF Counts
<1>3. \A j \in UrlPrefixes : q.sorter[j].busy \in Int
  BY <1>2 DEF Queues, Counters
<1>4. PICK a : a = upstreams
  OBVIOUS
<1>5. \A v \in Upstreams : a[v].busy \in {0, 1}
  BY <1>4, UpstreamFacts
<1>6. Cardinality(RequestedOf(a)) \in Nat
  BY <1>5, CountedType
<1> QED BY <1>1, <1>3, <1>4, <1>6 DEF Counts

\* The counts after a request that goes to `u`, which had none.
LEMMA RequestCounts ==
    ASSUME Paired, Counts, NEW u \in Upstreams, NEW k \in UrlPrefixes,
           \A v \in Upstreams \ {u} : upstreams'[v] = upstreams[v],
           upstreams[u].owed = <<>>,
           upstreams'[u].busy = 1, upstreams'[u].state = k,
           busyConn' = busyConn + 1, smart' = Acquire(smart, k)
    PROVE  Counts'
<1>1. upstreams[u].busy = 0 /\ upstreams[u].state = 0
  BY UpstreamFacts
<1>2. PICK q : q = smart
  OBVIOUS
<1>3. q \in Queues
  BY <1>2 DEF Counts
<1>4. /\ smart' \in Queues
      /\ \A j \in UrlPrefixes :
             smart'.sorter[j].busy = smart.sorter[j].busy + (IF j = k THEN 1 ELSE 0)
  BY <1>2, <1>3, AcquireFacts
<1>5. busyConn \in Int /\ \A j \in UrlPrefixes : smart.sorter[j].busy \in Int
  BY CountsType
<1>6. \A j \in UrlPrefixes : j # 0
  BY DEF UrlPrefixes
<1>7. /\ busyConn' = busyConn - upstreams[u].busy + upstreams'[u].busy
      /\ \A j \in UrlPrefixes :
             smart'.sorter[j].busy
                 = smart.sorter[j].busy - (IF upstreams[u].state = j THEN 1 ELSE 0)
                   + (IF upstreams'[u].state = j THEN 1 ELSE 0)
  BY <1>1, <1>4, <1>5, <1>6
<1> QED BY <1>4, <1>7, CountsOne

LEMMA RequestReusedStep ==
    ASSUME ProxyInv, ~Pipelining, NEW f \in Fronts, RequestReused(f)
    PROVE  ProxyInv'
<1>1. PICK u : u = fronts[f].proxy
  OBVIOUS
<1>2. PICK k : k = StateOf(f)
  OBVIOUS
<1>3. /\ Asks(f) /\ u # 0 /\ Up(u) = "open" /\ Asking(f, u, k)
      /\ smart' = Acquire(smart, k) /\ busyConn' = busyConn + 1
      /\ upstreams' = [upstreams EXCEPT ![u] =
                          Assigned(@, k, fronts[f].asked + 1, "open")]
      /\ connMap' = [connMap EXCEPT ![u] = f]
  BY <1>1, <1>2 DEF RequestReused
<1>4. k \in UrlPrefixes /\ Paired /\ Counts
  BY <1>2, StateOfPrefix DEF ProxyInv
<1>5. u \in Upstreams /\ connMap[u] = f
  BY <1>1, <1>3, <1>4, PairFacts
<1>6. upstreams[u].owed = <<>>
  <2>1. ~Owing(f)
    BY <1>3, <1>4, CaughtUpIdle DEF Asks
  <2> QED BY <1>1, <1>3, <2>1 DEF Owing
<1>7. /\ upstreams \in [Upstreams -> UpstreamOf] /\ connMap \in [Upstreams -> 0 .. MaxFronts]
  BY <1>4 DEF Paired, ProxyTypes
<1>8. /\ upstreams' = [v \in Upstreams |-> upstreams'[v]]
      /\ connMap' = [v \in Upstreams |-> connMap'[v]]
      /\ \A v \in Upstreams \ {u} :
             upstreams'[v] = upstreams[v] /\ connMap'[v] = connMap[v]
      /\ upstreams'[u] = Assigned(upstreams[u], k, fronts[f].asked + 1, "open")
      /\ connMap'[u] = f
  BY <1>3, <1>5, <1>7
<1>9. PICK W : W = {u}
  OBVIOUS
<1>10. /\ W \in SUBSET Upstreams /\ u \in W /\ fronts[f].proxy \in {0} \cup W
       /\ \A v \in Upstreams \ W :
              upstreams'[v] = upstreams[v] /\ connMap'[v] = connMap[v]
       /\ W \ {u} = {}
  BY <1>1, <1>5, <1>8, <1>9
<1>11. Paired' /\ upstreams'[u].busy = 1 /\ upstreams'[u].state = k
  <2>1. PICK st \in {"connecting", "open"} : st = "open"
    OBVIOUS
  <2>2. upstreams'[u] = Assigned(upstreams[u], k, fronts[f].asked + 1, st)
    BY <1>8, <2>1
  <2>3. \A w \in W \ {u} :
            connMap[w] = f /\ upstreams'[w] = ClosedUp(w) /\ connMap'[w] = 0
    BY <1>10
  <2>4. connMap[u] \in {0, f} /\ Paired
    BY <1>4, <1>5
  <2>5. Asks(f) /\ Asking(f, u, k) /\ u \in Upstreams /\ k \in UrlPrefixes
    BY <1>3, <1>4, <1>5
  <2>6. /\ upstreams' = [v \in Upstreams |-> upstreams'[v]]
        /\ connMap' = [v \in Upstreams |-> connMap'[v]] /\ connMap'[u] = f
    BY <1>8
  <2> QED BY <1>6, <1>10, <2>2, <2>3, <2>4, <2>5, <2>6, RequestPaired
<1>12. Counts'
  BY <1>3, <1>4, <1>5, <1>6, <1>8, <1>11, RequestCounts
<1> QED BY <1>11, <1>12 DEF ProxyInv

LEMMA UnmadeFacts ==
    ASSUME Paired, NEW u \in Upstreams, Unmade(u)
    PROVE  ~Alive(u) /\ upstreams[u].owed = <<>> /\ connMap[u] = 0
<1>1. ~Alive(u)
  BY DEF Unmade, Alive, Up
<1> QED BY <1>1, DeadFacts

LEMMA RequestNewStep ==
    ASSUME ProxyInv, ~Pipelining, NEW f \in Fronts, NEW u \in Upstreams,
           RequestNew(f, u)
    PROVE  ProxyInv'
<1>1. PICK k : k = StateOf(f)
  OBVIOUS
<1>2. /\ Asks(f) /\ Unmade(u) /\ fronts[f].proxy = 0 /\ Asking(f, u, k)
      /\ smart' = Acquire(smart, k) /\ busyConn' = busyConn + 1
      /\ upstreams' = [upstreams EXCEPT ![u] =
                          Assigned(@, k, fronts[f].asked + 1, "connecting")]
      /\ connMap' = [connMap EXCEPT ![u] = f]
  BY <1>1 DEF RequestNew
<1>3. k \in UrlPrefixes /\ Paired /\ Counts
  BY <1>1, StateOfPrefix DEF ProxyInv
<1>4. upstreams[u].owed = <<>> /\ connMap[u] = 0
  BY <1>2, <1>3, UnmadeFacts
<1>5. /\ upstreams \in [Upstreams -> UpstreamOf] /\ connMap \in [Upstreams -> 0 .. MaxFronts]
  BY <1>3 DEF Paired, ProxyTypes
<1>6. /\ upstreams' = [v \in Upstreams |-> upstreams'[v]]
      /\ connMap' = [v \in Upstreams |-> connMap'[v]]
      /\ \A v \in Upstreams \ {u} :
             upstreams'[v] = upstreams[v] /\ connMap'[v] = connMap[v]
      /\ upstreams'[u] = Assigned(upstreams[u], k, fronts[f].asked + 1, "connecting")
      /\ connMap'[u] = f
  BY <1>2, <1>5
<1>7. PICK W : W = {u}
  OBVIOUS
<1>8. /\ W \in SUBSET Upstreams /\ u \in W /\ fronts[f].proxy \in {0} \cup W
      /\ \A v \in Upstreams \ W :
             upstreams'[v] = upstreams[v] /\ connMap'[v] = connMap[v]
      /\ W \ {u} = {}
  BY <1>2, <1>6, <1>7
<1>9. Paired' /\ upstreams'[u].busy = 1 /\ upstreams'[u].state = k
  <2>1. PICK st \in {"connecting", "open"} : st = "connecting"
    OBVIOUS
  <2>2. upstreams'[u] = Assigned(upstreams[u], k, fronts[f].asked + 1, st)
    BY <1>6, <2>1
  <2>3. \A w \in W \ {u} :
            connMap[w] = f /\ upstreams'[w] = ClosedUp(w) /\ connMap'[w] = 0
    BY <1>8
  <2>4. connMap[u] \in {0, f} /\ Paired
    BY <1>3, <1>4
  <2>5. Asks(f) /\ Asking(f, u, k) /\ k \in UrlPrefixes
    BY <1>2, <1>3
  <2>6. /\ upstreams' = [v \in Upstreams |-> upstreams'[v]]
        /\ connMap' = [v \in Upstreams |-> connMap'[v]] /\ connMap'[u] = f
    BY <1>6
  <2> QED BY <1>4, <1>8, <2>2, <2>3, <2>4, <2>5, <2>6, RequestPaired
<1>10. Counts'
  BY <1>2, <1>3, <1>4, <1>6, <1>9, RequestCounts
<1> QED BY <1>9, <1>10 DEF ProxyInv

LEMMA RequestStaleStep ==
    ASSUME ProxyInv, ~Pipelining, NEW f \in Fronts, NEW u \in Upstreams,
           RequestStale(f, u)
    PROVE  ProxyInv'
<1>1. PICK k : k = StateOf(f)
  OBVIOUS
<1>2. PICK old : old = fronts[f].proxy
  OBVIOUS
<1>3. /\ Asks(f) /\ Unmade(u) /\ old # 0 /\ Asking(f, u, k)
      /\ smart' = Release(Acquire(smart, k), upstreams[old].state)
      /\ busyConn' = busyConn + 1 - upstreams[old].busy
      /\ upstreams' = [upstreams EXCEPT ![old] = ClosedUp(old),
            ![u] = Assigned(@, k, fronts[f].asked + 1, "connecting")]
      /\ connMap' = [connMap EXCEPT ![old] = 0, ![u] = f]
  BY <1>1, <1>2 DEF RequestStale
<1>4. k \in UrlPrefixes /\ Paired /\ Counts
  BY <1>1, StateOfPrefix DEF ProxyInv
<1>5. upstreams[u].owed = <<>> /\ connMap[u] = 0 /\ ~Alive(u)
  BY <1>3, <1>4, UnmadeFacts
<1>6. old \in Upstreams /\ connMap[old] = f /\ old # u
  <2>1. old \in Upstreams /\ connMap[old] = f
    BY <1>2, <1>3, <1>4, PairFacts
  <2> QED BY <1>5, <2>1, ProxyConstants
<1>7. upstreams[old].owed = <<>> /\ upstreams[old].busy = 0 /\ upstreams[old].state = 0
  <2>1. ~Owing(f)
    BY <1>3, <1>4, CaughtUpIdle DEF Asks
  <2>2. upstreams[old].owed = <<>>
    BY <1>2, <1>3, <2>1 DEF Owing
  <2> QED BY <1>4, <1>6, <2>2, UpstreamFacts
<1>8. /\ upstreams \in [Upstreams -> UpstreamOf] /\ connMap \in [Upstreams -> 0 .. MaxFronts]
  BY <1>4 DEF Paired, ProxyTypes
<1>9. /\ upstreams' = [v \in Upstreams |-> upstreams'[v]]
      /\ connMap' = [v \in Upstreams |-> connMap'[v]]
      /\ \A v \in Upstreams \ {old, u} :
             upstreams'[v] = upstreams[v] /\ connMap'[v] = connMap[v]
      /\ upstreams'[u] = Assigned(upstreams[u], k, fronts[f].asked + 1, "connecting")
      /\ upstreams'[old] = ClosedUp(old) /\ connMap'[old] = 0
      /\ connMap'[u] = f
  BY <1>3, <1>6, <1>8
<1>10. PICK W : W = {old, u}
  OBVIOUS
<1>11. /\ W \in SUBSET Upstreams /\ u \in W /\ fronts[f].proxy \in {0} \cup W
       /\ \A v \in Upstreams \ W :
              upstreams'[v] = upstreams[v] /\ connMap'[v] = connMap[v]
       /\ \A w \in W \ {u} : w = old
  BY <1>2, <1>6, <1>9, <1>10
<1>12. Paired' /\ upstreams'[u].busy = 1 /\ upstreams'[u].state = k
  <2>1. PICK st \in {"connecting", "open"} : st = "connecting"
    OBVIOUS
  <2>2. upstreams'[u] = Assigned(upstreams[u], k, fronts[f].asked + 1, st)
    BY <1>9, <2>1
  <2>3. \A w \in W \ {u} :
            connMap[w] = f /\ upstreams'[w] = ClosedUp(w) /\ connMap'[w] = 0
    BY <1>6, <1>9, <1>11
  <2>4. connMap[u] \in {0, f} /\ Paired
    BY <1>4, <1>5
  <2>5. Asks(f) /\ Asking(f, u, k) /\ k \in UrlPrefixes
    BY <1>3, <1>4
  <2>6. /\ upstreams' = [v \in Upstreams |-> upstreams'[v]]
        /\ connMap' = [v \in Upstreams |-> connMap'[v]] /\ connMap'[u] = f
    BY <1>9
  <2> QED BY <1>5, <1>11, <2>2, <2>3, <2>4, <2>5, <2>6, RequestPaired
<1>13. smart' = Acquire(smart, k) /\ busyConn' = busyConn + 1
  <2>1. busyConn \in Int
    BY <1>4, CountsType
  <2> QED BY <1>3, <1>7, <2>1 DEF Release
<1>14. Counts'
  <2>1. PICK a : a = upstreams
    OBVIOUS
  <2>2. PICK b : b = upstreams'
    OBVIOUS
  <2>3. PICK m : m = [v \in Upstreams |-> IF v = old THEN b[v] ELSE a[v]]
    OBVIOUS
  <2>4. b[old].busy = 0 /\ b[old].state = 0
    BY <1>4, <1>6, <1>9, <2>2, ClosedFacts
  <2>5. a[old].busy = 0 /\ a[old].state = 0 /\ a[u].busy = 0 /\ a[u].state = 0
    BY <1>4, <1>5, <1>7, <2>1, UpstreamFacts
  <2>6. b[u].busy = 1 /\ b[u].state = k
    BY <1>12, <2>2
  <2>7. /\ m[old] = b[old] /\ m[u] = a[u]
        /\ \A v \in Upstreams \ {old} : m[v] = a[v]
        /\ \A v \in Upstreams \ {u} : b[v] = m[v]
    BY <1>6, <1>9, <2>1, <2>2, <2>3
  <2>8. \A v \in Upstreams : a[v].busy \in {0, 1}
    BY <1>4, <2>1, UpstreamFacts
  <2>9. \A v \in Upstreams : m[v].busy \in {0, 1} /\ b[v].busy \in {0, 1}
    BY <2>4, <2>6, <2>7, <2>8
  <2>10. Cardinality(RequestedOf(a)) \in Nat /\ busyConn = Cardinality(RequestedOf(a))
    BY <1>4, <2>1, <2>8, CountedType DEF Counts
  <2>11. /\ Cardinality(RequestedOf(m))
                = Cardinality(RequestedOf(a)) - a[old].busy + m[old].busy
         /\ \A j \in UrlPrefixes :
                Cardinality(LoadsOf(m, j))
                    = Cardinality(LoadsOf(a, j)) - (IF a[old].state = j THEN 1 ELSE 0)
                      + (IF m[old].state = j THEN 1 ELSE 0)
    <3>1. \A v \in Upstreams \ {old} : m[v] = a[v]
      BY <2>7
    <3>2. \A v \in Upstreams : a[v].busy \in {0, 1} /\ m[v].busy \in {0, 1}
      BY <2>8, <2>9
    <3>3. OneChanges(a, m, old)
      BY <3>1, <3>2 DEF OneChanges
    <3>4. Recounted(a, m, old)
      BY <1>6, <3>3, Counted
    <3> QED BY <3>4 DEF Recounted
  <2>12. /\ Cardinality(RequestedOf(b))
                = Cardinality(RequestedOf(m)) - m[u].busy + b[u].busy
         /\ \A j \in UrlPrefixes :
                Cardinality(LoadsOf(b, j))
                    = Cardinality(LoadsOf(m, j)) - (IF m[u].state = j THEN 1 ELSE 0)
                      + (IF b[u].state = j THEN 1 ELSE 0)
    <3>1. \A v \in Upstreams \ {u} : b[v] = m[v]
      BY <2>7
    <3>2. \A v \in Upstreams : m[v].busy \in {0, 1} /\ b[v].busy \in {0, 1}
      BY <2>9
    <3>3. OneChanges(m, b, u)
      BY <3>1, <3>2 DEF OneChanges
    <3>4. Recounted(m, b, u)
      BY <3>3, Counted
    <3> QED BY <3>4 DEF Recounted
  <2>13. busyConn' = Cardinality(RequestedOf(b))
    BY <1>13, <2>4, <2>5, <2>6, <2>7, <2>10, <2>11, <2>12
  <2>14. PICK q : q = smart
    OBVIOUS
  <2>15. q \in Queues
    BY <1>4, <2>14 DEF Counts
  <2>16. /\ smart' \in Queues
         /\ \A j \in UrlPrefixes :
                smart'.sorter[j].busy = q.sorter[j].busy + (IF j = k THEN 1 ELSE 0)
    BY <1>4, <1>13, <2>14, <2>15, AcquireFacts
  <2>17. ASSUME NEW j \in UrlPrefixes
         PROVE  smart'.sorter[j].busy = Cardinality(LoadsOf(b, j))
    <3>1. q.sorter[j].busy = Cardinality(LoadsOf(a, j)) /\ q.sorter[j].busy \in Int
      BY <1>4, <2>1, <2>14, <2>15 DEF Counts, Queues, Counters
    <3>2. j # 0
      BY DEF UrlPrefixes
    <3>3. Cardinality(LoadsOf(m, j)) = Cardinality(LoadsOf(a, j))
      BY <2>4, <2>5, <2>7, <2>11, <3>1, <3>2
    <3>4. Cardinality(LoadsOf(b, j))
              = Cardinality(LoadsOf(m, j)) + (IF j = k THEN 1 ELSE 0)
      BY <2>5, <2>6, <2>7, <2>12, <3>1, <3>2, <3>3
    <3> QED BY <2>16, <3>1, <3>3, <3>4
  <2> QED BY <2>2, <2>13, <2>16, <2>17 DEF Counts
<1> QED BY <1>12, <1>14 DEF ProxyInv

LEMMA UpgradeStep ==
    ASSUME ProxyInv, ~Pipelining, NEW f \in Fronts, Upgrade(f)
    PROVE  ProxyInv'
<1>1. PICK k : k = StateOf(f)
  OBVIOUS
<1>2. PICK old : old = fronts[f].proxy
  OBVIOUS
<1>3. /\ Asks(f) /\ smart' = Release(Acquire(smart, k), k)
      /\ fronts' = [fronts EXCEPT ![f].status = "tunnel", ![f].proxy = 0]
      /\ connMap' = [u \in Upstreams |-> IF u = old THEN 0 ELSE connMap[u]]
      /\ UNCHANGED <<relayed, upstreams, busyConn>>
  BY <1>1, <1>2 DEF Upgrade
<1>4. k \in UrlPrefixes /\ Paired /\ Counts
  BY <1>1, StateOfPrefix DEF ProxyInv
<1>5. /\ fronts \in [Fronts -> FrontOf] /\ relayed \in [Fronts -> Seq(Parts)]
      /\ upstreams \in [Upstreams -> UpstreamOf]
      /\ connMap \in [Upstreams -> 0 .. MaxFronts]
      /\ fronts[f].asked > 0 => fronts[f].state \in UrlPrefixes
      /\ \A u \in Upstreams : Loaded(upstreams[u])
  BY <1>4 DEF Paired, ProxyTypes
<1>6. fronts[f].status = "open" /\ ~Owing(f)
  BY <1>3, <1>4, CaughtUpIdle DEF Asks
<1>7. PICK p : p = fronts[f]
  OBVIOUS
<1>8. PICK q : q = [p EXCEPT !.status = "tunnel", !.proxy = 0]
  OBVIOUS
<1>9. /\ p \in FrontOf /\ 0 \in 0 .. MaxUpstreams /\ 0 \in 0 .. MaxFronts
  BY <1>5, <1>7, ProxyConstants
<1>10. /\ q \in FrontOf /\ q.status = "tunnel" /\ q.proxy = 0
       /\ q.asked = p.asked /\ q.state = p.state
  BY <1>8, <1>9 DEF FrontOf
<1>11. fronts'[f] = q /\ fronts' \in [Fronts -> FrontOf]
       /\ \A g \in Fronts \ {f} : fronts'[g] = fronts[g] /\ relayed'[g] = relayed[g]
  <2>1. fronts' = [fronts EXCEPT ![f] = q]
    BY <1>3, <1>5, <1>7, <1>8
  <2> QED BY <1>3, <1>5, <1>10, <2>1
<1>12. PICK W : W = {u \in Upstreams : u = old}
  OBVIOUS
<1>13. /\ W \in SUBSET Upstreams /\ fronts[f].proxy \in {0} \cup W
       /\ \A w \in W : w = old /\ w \in Upstreams /\ w # 0
  BY <1>2, <1>4, <1>12, PairFacts, ProxyConstants
<1>14. /\ connMap' \in [Upstreams -> 0 .. MaxFronts]
       /\ \A v \in Upstreams \ W :
              upstreams'[v] = upstreams[v] /\ connMap'[v] = connMap[v]
  BY <1>3, <1>5, <1>9, <1>12
<1>15. ASSUME NEW w \in W
       PROVE  /\ connMap[w] \in {0, f} /\ Loaded(upstreams'[w])
              /\ connMap'[w] = 0 /\ upstreams'[w].owed = <<>>
  <2>1. w = old /\ w \in Upstreams /\ w # 0
    BY <1>13
  <2>2. upstreams[w].owed = <<>> /\ connMap[w] = f
    BY <1>2, <1>4, <1>6, <2>1, PairFacts DEF Owing
  <2> QED BY <1>3, <1>5, <2>1, <2>2
<1>16. Told(f)'
  <2>1. /\ relayed'[f] = relayed[f] /\ fronts'[f].asked \in Nat
        /\ fronts'[f].asked >= fronts[f].asked /\ fronts[f].status # "closed"
    <3>1. p.asked \in Nat
      BY <1>4, <1>7, PairFacts, ProxyConstants
    <3> QED BY <1>3, <1>6, <1>7, <1>10, <1>11, <3>1
  <2>2. \A i \in 1 .. Len(relayed'[f]) : PartIs(f, i)'
    BY <1>4, <2>1, PartsSame
  <2> QED BY <1>10, <1>11, <2>2 DEF Told, Owing
<1>17. Paired'
  <2>1. /\ fronts'[f].asked > 0 => fronts'[f].state \in UrlPrefixes
        /\ fronts[f].status # "open" => fronts'[f].status # "open"
        /\ fronts'[f].proxy = 0 /\ fronts'[f].status # "open"
    BY <1>5, <1>7, <1>10, <1>11
  <2>2. \A w \in W :
            /\ connMap[w] \in {0, f} /\ Loaded(upstreams'[w])
            /\ \/ connMap'[w] = f /\ fronts'[f].proxy = w
               \/ /\ connMap'[w] = 0 /\ upstreams'[w].owed = <<>>
                  /\ upstreams'[w].status \in Lives => fronts'[f].status # "open"
    BY <1>15, <2>1
  <2>3. upstreams' \in [Upstreams -> UpstreamOf] /\ relayed' \in [Fronts -> Seq(Parts)]
    BY <1>3, <1>5
  <2> QED BY <1>4, <1>11, <1>13, <1>14, <1>16, <2>1, <2>2, <2>3, PairedStep
<1>18. Counts'
  <2>1. PICK a : a = smart
    OBVIOUS
  <2>2. PICK b : b = Acquire(a, k)
    OBVIOUS
  <2>3. a \in Queues
    BY <1>4, <2>1 DEF Counts
  <2>4. b \in Queues /\ \A j \in UrlPrefixes :
            b.sorter[j].busy = a.sorter[j].busy + (IF j = k THEN 1 ELSE 0)
    BY <1>4, <2>2, <2>3, AcquireFacts
  <2>5. smart' \in Queues /\ \A j \in UrlPrefixes :
            smart'.sorter[j].busy = b.sorter[j].busy - (IF j = k THEN 1 ELSE 0)
    BY <1>3, <1>4, <2>1, <2>2, <2>4, ReleaseFacts
  <2>6. \A j \in UrlPrefixes : a.sorter[j].busy \in Int
    BY <2>3 DEF Queues, Counters
  <2>7. \A j \in UrlPrefixes : smart'.sorter[j].busy = a.sorter[j].busy
    BY <2>4, <2>5, <2>6
  <2> QED BY <1>3, <1>4, <2>1, <2>5, <2>7 DEF Counts, LoadsOf
<1> QED BY <1>17, <1>18 DEF ProxyInv

-----------------------------------------------------------------------------
(* The back ends.                                                           *)

\* The counts after the request of a back end, if it has one, is over.
LEMMA ReleaseCounts ==
    ASSUME Paired, Counts, NEW u \in Upstreams,
           \A v \in Upstreams \ {u} : upstreams'[v] = upstreams[v],
           upstreams'[u].busy = 0, upstreams'[u].state = 0,
           busyConn' = busyConn - upstreams[u].busy,
           smart' = Release(smart, upstreams[u].state)
    PROVE  Counts'
<1>1. busyConn \in Int /\ \A j \in UrlPrefixes : smart.sorter[j].busy \in Int
  BY CountsType
<1>2. PICK q : q = smart
  OBVIOUS
<1>3. PICK k : k = upstreams[u].state
  OBVIOUS
<1>4. q \in Queues /\ k \in {0} \cup UrlPrefixes /\ upstreams[u].busy \in {0, 1}
  BY <1>2, <1>3, UpstreamFacts DEF Counts
<1>5. /\ smart' \in Queues
      /\ \A j \in UrlPrefixes :
             smart'.sorter[j].busy = q.sorter[j].busy - (IF j = k THEN 1 ELSE 0)
  BY <1>2, <1>3, <1>4, ReleaseFacts
<1>6. \A j \in UrlPrefixes : j # 0
  BY DEF UrlPrefixes
<1>7. \A j \in UrlPrefixes :
          smart'.sorter[j].busy
              = smart.sorter[j].busy - (IF upstreams[u].state = j THEN 1 ELSE 0)
                + (IF upstreams'[u].state = j THEN 1 ELSE 0)
  BY <1>1, <1>2, <1>3, <1>5, <1>6
<1>8. busyConn' = busyConn - upstreams[u].busy + upstreams'[u].busy
  BY <1>1, <1>4
<1> QED BY <1>5, <1>7, <1>8, CountsOne

\* The counts after a step that changes none.
LEMMA SameCounts ==
    ASSUME Paired, Counts, NEW u \in Upstreams,
           \A v \in Upstreams \ {u} : upstreams'[v] = upstreams[v],
           upstreams'[u].busy = upstreams[u].busy,
           upstreams'[u].state = upstreams[u].state,
           busyConn' = busyConn, smart' = smart
    PROVE  Counts'
<1>1. busyConn \in Int /\ \A j \in UrlPrefixes : smart.sorter[j].busy \in Int
  BY CountsType
<1>2. upstreams[u].busy \in {0, 1} /\ smart \in Queues
  BY UpstreamFacts DEF Counts
<1>3. \A j \in UrlPrefixes :
          smart'.sorter[j].busy
              = smart.sorter[j].busy - (IF upstreams[u].state = j THEN 1 ELSE 0)
                + (IF upstreams'[u].state = j THEN 1 ELSE 0)
  BY <1>1
<1>4. /\ busyConn' = busyConn - upstreams[u].busy + upstreams'[u].busy
      /\ smart' \in Queues /\ upstreams'[u].busy \in {0, 1}
  BY <1>1, <1>2
<1> QED BY <1>3, <1>4, CountsOne

LEMMA FrontClosedFacts ==
    ASSUME fronts \in [Fronts -> FrontOf], NEW f \in Fronts,
           fronts' = FrontClosed(f)
    PROVE  /\ fronts' \in [Fronts -> FrontOf]
           /\ \A g \in Fronts \ {f} : fronts'[g] = fronts[g]
           /\ fronts'[f].proxy = 0 /\ fronts'[f].status = "closed"
           /\ fronts'[f].asked = fronts[f].asked /\ fronts'[f].state = fronts[f].state
<1>1. PICK p : p = fronts[f]
  OBVIOUS
<1>2. PICK q : q = [p EXCEPT !.status = "closed", !.proxy = 0]
  OBVIOUS
<1>3. p \in FrontOf /\ 0 \in 0 .. MaxUpstreams
  BY <1>1, ProxyConstants
<1>4. /\ q \in FrontOf /\ q.proxy = 0 /\ q.status = "closed"
      /\ q.asked = p.asked /\ q.state = p.state
  BY <1>2, <1>3 DEF FrontOf
<1>5. fronts' = [fronts EXCEPT ![f] = q]
  BY <1>1, <1>2 DEF FrontClosed
<1> QED BY <1>1, <1>4, <1>5

\* What FrontFor gives.
FrontIs(f, u) ==
    /\ connMap[u] \in {0, f} /\ fronts[f].proxy \in {0, u}
    /\ fronts[f].proxy = u <=> connMap[u] = f
    /\ connMap[u] = f <=> fronts[f].status = "open"
    /\ connMap[u] = 0 => upstreams[u].owed = <<>>

\* A back end changes and stays in progress; its front is told of it.
LEMMA LivesPaired ==
    ASSUME Paired, NEW u \in Upstreams, NEW f \in Fronts, FrontIs(f, u),
           NEW y \in UpstreamOf, Loaded(y), y.status \in Lives,
           connMap[u] = 0 => y.owed = <<>>,
           upstreams' = [upstreams EXCEPT ![u] = y],
           fronts' = fronts, connMap' = connMap,
           relayed' \in [Fronts -> Seq(Parts)],
           \A g \in Fronts \ {f} : relayed'[g] = relayed[g],
           Told(f)'
    PROVE  /\ Paired' /\ upstreams'[u] = y
           /\ \A v \in Upstreams \ {u} : upstreams'[v] = upstreams[v]
<1>1. /\ fronts \in [Fronts -> FrontOf] /\ upstreams \in [Upstreams -> UpstreamOf]
      /\ connMap \in [Upstreams -> 0 .. MaxFronts]
      /\ fronts[f].asked > 0 => fronts[f].state \in UrlPrefixes
      /\ f # 0 /\ u # 0
  BY ProxyConstants DEF Paired, ProxyTypes
<1>2. /\ upstreams' \in [Upstreams -> UpstreamOf] /\ upstreams'[u] = y
      /\ \A v \in Upstreams \ {u} : upstreams'[v] = upstreams[v]
  BY <1>1
<1>3. PICK W : W = {u}
  OBVIOUS
<1>4. W \in SUBSET Upstreams /\ fronts[f].proxy \in {0} \cup W
  BY <1>3 DEF FrontIs
<1>5. \A v \in Upstreams \ W : upstreams'[v] = upstreams[v] /\ connMap'[v] = connMap[v]
  BY <1>2, <1>3
<1>6. \A w \in W :
          /\ connMap[w] \in {0, f} /\ Loaded(upstreams'[w])
          /\ \/ connMap'[w] = f /\ fronts'[f].proxy = w
             \/ /\ connMap'[w] = 0 /\ upstreams'[w].owed = <<>>
                /\ upstreams'[w].status \in Lives => fronts'[f].status # "open"
  BY <1>1, <1>2, <1>3 DEF FrontIs
<1>7. fronts'[f].proxy # 0 =>
          /\ fronts'[f].status = "open" /\ fronts'[f].proxy \in W
          /\ upstreams'[fronts'[f].proxy].status \in Lives
          /\ connMap'[fronts'[f].proxy] = f
  BY <1>1, <1>2, <1>3 DEF FrontIs
<1>8. \A g \in Fronts \ {f} : fronts'[g] = fronts[g] /\ relayed'[g] = relayed[g]
  OBVIOUS
<1>9. /\ fronts' \in [Fronts -> FrontOf] /\ connMap' \in [Upstreams -> 0 .. MaxFronts]
      /\ fronts'[f].asked > 0 => fronts'[f].state \in UrlPrefixes
      /\ fronts[f].status # "open" => fronts'[f].status # "open"
  BY <1>1
<1>10. Paired'
  BY <1>2, <1>4, <1>5, <1>6, <1>7, <1>8, <1>9, PairedStep
<1> QED BY <1>2, <1>10

\* A back end closes, and its front, if it has one.
LEMMA ClosedPaired ==
    ASSUME Paired, NEW u \in Upstreams, NEW f \in Fronts, FrontIs(f, u),
           upstreams' = [upstreams EXCEPT ![u] = ClosedUp(u)],
           connMap' = [connMap EXCEPT ![u] = 0],
           \/ connMap[u] = f /\ fronts' = FrontClosed(f)
           \/ connMap[u] = 0 /\ fronts' = fronts,
           relayed' \in [Fronts -> Seq(Parts)],
           \A g \in Fronts \ {f} : relayed'[g] = relayed[g],
           \A i \in 1 .. Len(relayed'[f]) : PartIs(f, i)'
    PROVE  /\ Paired'
           /\ upstreams'[u].busy = 0 /\ upstreams'[u].state = 0
           /\ \A v \in Upstreams \ {u} : upstreams'[v] = upstreams[v]
<1>1. /\ fronts \in [Fronts -> FrontOf] /\ upstreams \in [Upstreams -> UpstreamOf]
      /\ connMap \in [Upstreams -> 0 .. MaxFronts]
      /\ fronts[f].asked > 0 => fronts[f].state \in UrlPrefixes
      /\ f # 0 /\ u # 0 /\ 0 \in 0 .. MaxFronts
  BY ProxyConstants DEF Paired, ProxyTypes
<1>2. PICK y : y = ClosedUp(u)
  OBVIOUS
<1>3. /\ y \in UpstreamOf /\ Loaded(y) /\ y.owed = <<>> /\ y.status = "closed"
      /\ y.busy = 0 /\ y.state = 0
  BY <1>2, ClosedFacts
<1>4. /\ upstreams' \in [Upstreams -> UpstreamOf] /\ upstreams'[u] = y
      /\ \A v \in Upstreams \ {u} : upstreams'[v] = upstreams[v]
  BY <1>1, <1>2, <1>3
<1>5. /\ connMap' \in [Upstreams -> 0 .. MaxFronts] /\ connMap'[u] = 0
      /\ \A v \in Upstreams \ {u} : connMap'[v] = connMap[v]
  BY <1>1
<1>6. /\ fronts' \in [Fronts -> FrontOf]
      /\ \A g \in Fronts \ {f} : fronts'[g] = fronts[g]
      /\ fronts'[f].proxy = 0 /\ fronts'[f].status # "open"
      /\ fronts'[f].asked = fronts[f].asked /\ fronts'[f].state = fronts[f].state
  <2>1. CASE connMap[u] = f /\ fronts' = FrontClosed(f)
    BY <1>1, <2>1, FrontClosedFacts
  <2>2. CASE connMap[u] = 0 /\ fronts' = fronts
    BY <1>1, <2>2 DEF FrontIs
  <2> QED BY <2>1, <2>2
<1>7. PICK W : W = {u}
  OBVIOUS
<1>8. W \in SUBSET Upstreams /\ fronts[f].proxy \in {0} \cup W
  BY <1>7 DEF FrontIs
<1>9. \A v \in Upstreams \ W : upstreams'[v] = upstreams[v] /\ connMap'[v] = connMap[v]
  BY <1>4, <1>5, <1>7
<1>10. \A w \in W :
           /\ connMap[w] \in {0, f} /\ Loaded(upstreams'[w])
           /\ \/ connMap'[w] = f /\ fronts'[f].proxy = w
              \/ /\ connMap'[w] = 0 /\ upstreams'[w].owed = <<>>
                 /\ upstreams'[w].status \in Lives => fronts'[f].status # "open"
  BY <1>3, <1>4, <1>5, <1>6, <1>7 DEF FrontIs
<1>11. \A g \in Fronts \ {f} : fronts'[g] = fronts[g] /\ relayed'[g] = relayed[g]
  BY <1>6
<1>12. Told(f)'
  BY <1>6 DEF Told, Owing
<1>13. fronts'[f].asked > 0 => fronts'[f].state \in UrlPrefixes
  BY <1>1, <1>6
<1>14. fronts'[f].proxy # 0 =>
           /\ fronts'[f].status = "open" /\ fronts'[f].proxy \in W
           /\ upstreams'[fronts'[f].proxy].status \in Lives
           /\ connMap'[fronts'[f].proxy] = f
  BY <1>6
<1>15. fronts[f].status # "open" => fronts'[f].status # "open"
  BY <1>6
<1>16. Paired'
  BY <1>4, <1>5, <1>6, <1>8, <1>9, <1>10, <1>11, <1>12, <1>13, <1>14, <1>15, PairedStep
<1> QED BY <1>3, <1>4, <1>16

\* The back end of a front that is owed the answer to its last request.
LEMMA OwingFacts ==
    ASSUME Paired, NEW u \in Upstreams, upstreams[u].owed # <<>>, Alive(u)
    PROVE  \E f \in Fronts :
               /\ FrontIs(f, u) /\ connMap[u] = f /\ fronts[f].proxy = u
               /\ fronts[f].status = "open" /\ Owing(f)
               /\ fronts[f].asked \in 1 .. MaxRequests
               /\ upstreams[u].owed[1] = fronts[f].asked
               /\ Head(upstreams[u].owed) = fronts[f].asked
               /\ Len(relayed[f]) = 2 * fronts[f].asked
                                        - (IF upstreams[u].head THEN 1 ELSE 2)
               /\ Tail(upstreams[u].owed) = <<>>
<1>1. PICK f \in Fronts : FrontIs(f, u)
  BY FrontFor DEF FrontIs
<1>2. connMap[u] = f /\ fronts[f].proxy = u /\ fronts[f].status = "open" /\ u # 0
  BY <1>1, ProxyConstants DEF FrontIs
<1>3. Owing(f)
  BY <1>2 DEF Owing
<1>4. PICK o : o = upstreams[u].owed
  OBVIOUS
<1>5. o \in Seq(1 .. MaxRequests) /\ o # <<>> /\ Len(o) = 1
  <2>1. upstreams[u] \in UpstreamOf /\ Loaded(upstreams[u])
    BY UpstreamFacts
  <2> QED BY <1>4, <2>1 DEF UpstreamOf, Loaded
<1>6. Head(o) = o[1] /\ Tail(o) = <<>> /\ o[1] \in 1 .. MaxRequests
  <2>1. o[1] \in 1 .. MaxRequests
    <3>1. 1 \in 1 .. Len(o)
      BY <1>5
    <3> QED BY <1>5, <3>1, ElementOfSeq
  <2>2. Head(o) = o[1]
    BY <1>5
  <2>3. Tail(o) \in Seq(1 .. MaxRequests) /\ Len(Tail(o)) = 0
    BY <1>5, HeadTailProperties
  <2>4. Tail(o) = <<>>
    BY <2>3, EmptySeq
  <2> QED BY <2>1, <2>2, <2>4
<1>7. /\ o[1] = fronts[f].asked
      /\ Len(relayed[f]) = 2 * fronts[f].asked - (IF upstreams[u].head THEN 1 ELSE 2)
  BY <1>2, <1>3, <1>4 DEF Paired, Told
<1> QED BY <1>1, <1>2, <1>3, <1>4, <1>6, <1>7

LEMMA EstablishedStep ==
    ASSUME ProxyInv, NEW u \in Upstreams, Established(u) \/ Eof(u)
    PROVE  ProxyInv'
<1>1. Paired /\ Counts /\ Alive(u)
  BY DEF ProxyInv, Established, Eof, Alive
<1>2. /\ upstreams[u] \in UpstreamOf /\ Loaded(upstreams[u])
      /\ upstreams \in [Upstreams -> UpstreamOf] /\ relayed \in [Fronts -> Seq(Parts)]
  BY <1>1, UpstreamFacts DEF Paired, ProxyTypes
<1>3. PICK v : v = upstreams[u]
  OBVIOUS
<1>4. PICK y : y = IF Up(u) = "open" THEN [v EXCEPT !.status = "lost"]
                   ELSE [v EXCEPT !.status = "open", !.waiting = FALSE]
  OBVIOUS
<1>5. /\ y \in UpstreamOf /\ y.status \in Lives /\ y.owed = v.owed /\ y.busy = v.busy
      /\ y.state = v.state /\ y.head = v.head
  BY <1>2, <1>3, <1>4 DEF UpstreamOf, Lives
<1>6. Loaded(y)
  BY <1>2, <1>3, <1>5 DEF Loaded, Lives
<1>7. /\ upstreams' = [upstreams EXCEPT ![u] = y]
      /\ fronts' = fronts /\ relayed' = relayed /\ connMap' = connMap
      /\ busyConn' = busyConn /\ smart' = smart
  BY <1>2, <1>3, <1>4 DEF Established, Eof
<1>8. PICK f \in Fronts : FrontIs(f, u)
  BY <1>1, FrontFor DEF FrontIs
<1>9. Told(f)'
  <2>1. fronts[f].proxy # 0 => fronts[f].proxy = u
    BY <1>8 DEF FrontIs
  <2>2. upstreams'[u].owed = upstreams[u].owed /\ upstreams'[u].head = upstreams[u].head
    BY <1>2, <1>3, <1>5, <1>7
  <2>3. fronts[f].proxy # 0 =>
            /\ upstreams'[fronts[f].proxy].owed = upstreams[fronts[f].proxy].owed
            /\ upstreams'[fronts[f].proxy].head = upstreams[fronts[f].proxy].head
    BY <2>1, <2>2
  <2> QED BY <1>1, <1>7, <2>3, ToldStays DEF Paired
<1>10. connMap[u] = 0 => y.owed = <<>>
  BY <1>3, <1>5, <1>8 DEF FrontIs
<1>11. relayed' \in [Fronts -> Seq(Parts)] /\ \A g \in Fronts \ {f} : relayed'[g] = relayed[g]
  BY <1>2, <1>7
<1>12. /\ Paired' /\ upstreams'[u] = y
       /\ \A x \in Upstreams \ {u} : upstreams'[x] = upstreams[x]
  BY <1>1, <1>5, <1>6, <1>7, <1>8, <1>9, <1>10, <1>11, LivesPaired
<1>13. Counts'
  BY <1>1, <1>3, <1>5, <1>7, <1>12, SameCounts
<1> QED BY <1>12, <1>13 DEF ProxyInv

LEMMA PrxHeadersStep ==
    ASSUME ProxyInv, NEW u \in Upstreams, PrxHeaders(u)
    PROVE  ProxyInv'
<1>1. Paired /\ Counts /\ Alive(u) /\ upstreams[u].owed # <<>> /\ ~upstreams[u].head
  BY DEF ProxyInv, PrxHeaders, Alive
<1>2. /\ upstreams[u] \in UpstreamOf /\ Loaded(upstreams[u])
      /\ upstreams \in [Upstreams -> UpstreamOf] /\ relayed \in [Fronts -> Seq(Parts)]
  BY <1>1, UpstreamFacts DEF Paired, ProxyTypes
<1>3. PICK f \in Fronts :
          /\ FrontIs(f, u) /\ connMap[u] = f /\ fronts[f].proxy = u
          /\ fronts[f].status = "open" /\ Owing(f)
          /\ fronts[f].asked \in 1 .. MaxRequests
          /\ upstreams[u].owed[1] = fronts[f].asked
          /\ Head(upstreams[u].owed) = fronts[f].asked
          /\ Len(relayed[f]) = 2 * fronts[f].asked
                                   - (IF upstreams[u].head THEN 1 ELSE 2)
  BY <1>1, OwingFacts
<1>4. PICK n : n = fronts[f].asked
  OBVIOUS
<1>5. PICK x : x = <<"head", n>>
  OBVIOUS
<1>6. /\ n \in 1 .. MaxRequests /\ x \in Parts /\ Len(relayed[f]) = 2 * n - 2
      /\ fronts[f].asked \in Nat
  BY <1>1, <1>3, <1>4, <1>5, ProxyConstants DEF Parts
<1>7. PICK v : v = upstreams[u]
  OBVIOUS
<1>8. PICK y : y = [v EXCEPT !.head = TRUE]
  OBVIOUS
<1>9. /\ y \in UpstreamOf /\ y.status = v.status /\ y.owed = v.owed /\ y.busy = v.busy
      /\ y.state = v.state /\ y.head = TRUE
  BY <1>2, <1>7, <1>8 DEF UpstreamOf
<1>10. Loaded(y) /\ y.status \in Lives
  BY <1>1, <1>2, <1>7, <1>9 DEF Loaded, Lives, Alive, Up
<1>11. /\ upstreams' = [upstreams EXCEPT ![u] = y]
       /\ relayed' = [relayed EXCEPT ![f] = Append(@, x)]
       /\ fronts' = fronts /\ connMap' = connMap
       /\ busyConn' = busyConn /\ smart' = smart
  BY <1>2, <1>3, <1>4, <1>5, <1>7, <1>8 DEF PrxHeaders
<1>12. /\ relayed' \in [Fronts -> Seq(Parts)]
       /\ \A g \in Fronts \ {f} : relayed'[g] = relayed[g]
       /\ Len(relayed'[f]) = Len(relayed[f]) + 1
       /\ \A i \in 1 .. Len(relayed'[f]) : PartIs(f, i)'
  <2>1. n \in 1 .. fronts[f].asked /\ Len(relayed[f]) + 1 = 2 * n - 1
    BY <1>4, <1>6
  <2>2. fronts'[f].asked = fronts[f].asked
    BY <1>11
  <2> QED BY <1>1, <1>3, <1>5, <1>6, <1>11, <2>1, <2>2, PartsMore
<1>13. upstreams'[u] = y
  BY <1>2, <1>11
<1>14. Told(f)'
  <2>1. fronts'[f].proxy = u /\ fronts'[f].asked = n /\ u # 0
    BY <1>3, <1>4, <1>11, ProxyConstants
  <2>2. Owing(f)'
    BY <1>1, <1>7, <1>9, <1>13, <2>1 DEF Owing
  <2>3. upstreams'[u].owed[1] = n /\ upstreams'[u].head = TRUE
    BY <1>3, <1>4, <1>7, <1>9, <1>13
  <2>4. Len(relayed'[f]) = 2 * n - 1
    BY <1>6, <1>12
  <2> QED BY <1>12, <2>1, <2>2, <2>3, <2>4 DEF Told
<1>15. connMap[u] = 0 => y.owed = <<>>
  BY <1>3, ProxyConstants
<1>16. /\ Paired'
       /\ \A z \in Upstreams \ {u} : upstreams'[z] = upstreams[z]
  BY <1>1, <1>3, <1>9, <1>10, <1>11, <1>12, <1>14, <1>15, LivesPaired
<1>17. Counts'
  BY <1>1, <1>7, <1>9, <1>11, <1>13, <1>16, SameCounts
<1> QED BY <1>16, <1>17 DEF ProxyInv

\* The end of an answer, as the last of what its front was sent.
LEMMA LastPart ==
    ASSUME Paired, NEW u \in Upstreams, Up(u) = "open", upstreams[u].head,
           relayed' = [relayed EXCEPT ![connMap[u]] =
                          Append(@, <<"end", Head(upstreams[u].owed)>>)],
           \A g \in Fronts : fronts'[g].asked = fronts[g].asked
    PROVE  \E f \in Fronts :
               /\ FrontIs(f, u) /\ connMap[u] = f /\ fronts[f].proxy = u
               /\ fronts[f].status = "open"
               /\ fronts[f].asked \in Nat
               /\ relayed' \in [Fronts -> Seq(Parts)]
               /\ \A g \in Fronts \ {f} : relayed'[g] = relayed[g]
               /\ Len(relayed'[f]) = 2 * fronts[f].asked
               /\ \A i \in 1 .. Len(relayed'[f]) : PartIs(f, i)'
               /\ upstreams[u].busy = 1
               /\ Tail(upstreams[u].owed) = <<>>
<1>1. Loaded(upstreams[u]) /\ Alive(u)
  BY UpstreamFacts DEF Alive
<1>2. upstreams[u].owed # <<>> /\ upstreams[u].busy = 1
  BY <1>1 DEF Loaded
<1>3. PICK f \in Fronts :
          /\ FrontIs(f, u) /\ connMap[u] = f /\ fronts[f].proxy = u
          /\ fronts[f].status = "open" /\ Owing(f)
          /\ fronts[f].asked \in 1 .. MaxRequests
          /\ upstreams[u].owed[1] = fronts[f].asked
          /\ Head(upstreams[u].owed) = fronts[f].asked
          /\ Len(relayed[f]) = 2 * fronts[f].asked
                                   - (IF upstreams[u].head THEN 1 ELSE 2)
          /\ Tail(upstreams[u].owed) = <<>>
  BY <1>1, <1>2, OwingFacts
<1>4. PICK n : n = fronts[f].asked
  OBVIOUS
<1>5. PICK x : x = <<"end", n>>
  OBVIOUS
<1>6. /\ n \in 1 .. MaxRequests /\ x \in Parts /\ Len(relayed[f]) = 2 * n - 1
      /\ fronts[f].asked \in Nat
  BY <1>3, <1>4, <1>5, ProxyConstants DEF Parts
<1>7. relayed' = [relayed EXCEPT ![f] = Append(@, x)]
  BY <1>3, <1>4, <1>5
<1>8. /\ relayed' \in [Fronts -> Seq(Parts)]
      /\ \A g \in Fronts \ {f} : relayed'[g] = relayed[g]
      /\ Len(relayed'[f]) = Len(relayed[f]) + 1
      /\ \A i \in 1 .. Len(relayed'[f]) : PartIs(f, i)'
  <2>1. \E m \in 1 .. fronts[f].asked :
            \/ Len(relayed[f]) + 1 = 2 * m - 1 /\ x = <<"head", m>>
            \/ Len(relayed[f]) + 1 = 2 * m /\ x = <<"end", m>>
    BY <1>4, <1>5, <1>6
  <2>2. fronts'[f].asked = fronts[f].asked /\ fronts[f].status = "open"
    BY <1>3
  <2> QED BY <1>6, <1>7, <2>1, <2>2, PartsMore
<1>9. Len(relayed'[f]) = 2 * fronts[f].asked
  BY <1>4, <1>6, <1>8
<1> QED BY <1>2, <1>3, <1>6, <1>8, <1>9

LEMMA PrxMessageStep ==
    ASSUME ProxyInv, NEW u \in Upstreams, PrxMessage(u)
    PROVE  ProxyInv'
<1>1. Paired /\ Counts /\ Up(u) = "open" /\ upstreams[u].head
  BY DEF ProxyInv, PrxMessage
<1>2. /\ upstreams[u] \in UpstreamOf /\ upstreams \in [Upstreams -> UpstreamOf]
  BY <1>1, UpstreamFacts DEF Paired, ProxyTypes
<1>3. /\ relayed' = [relayed EXCEPT ![connMap[u]] =
                        Append(@, <<"end", Head(upstreams[u].owed)>>)]
      /\ fronts' = fronts /\ connMap' = connMap
      /\ smart' = Release(smart, upstreams[u].state) /\ busyConn' = busyConn - 1
  BY DEF PrxMessage
<1>4. PICK f \in Fronts :
          /\ FrontIs(f, u) /\ connMap[u] = f /\ fronts[f].proxy = u
          /\ fronts[f].status = "open"
          /\ fronts[f].asked \in Nat
          /\ relayed' \in [Fronts -> Seq(Parts)]
          /\ \A g \in Fronts \ {f} : relayed'[g] = relayed[g]
          /\ Len(relayed'[f]) = 2 * fronts[f].asked
          /\ \A i \in 1 .. Len(relayed'[f]) : PartIs(f, i)'
          /\ upstreams[u].busy = 1
          /\ Tail(upstreams[u].owed) = <<>>
  BY <1>1, <1>3, LastPart
<1>5. PICK v : v = upstreams[u]
  OBVIOUS
<1>6. PICK e : e = <<>>
  OBVIOUS
<1>7. PICK y : y = [v EXCEPT !.busy = 0, !.state = 0, !.waiting = FALSE,
                             !.owed = e, !.head = FALSE]
  OBVIOUS
<1>8. upstreams' = [upstreams EXCEPT ![u] = y]
  <2>1. y = [v EXCEPT !.busy = @ - 1, !.state = 0, !.waiting = FALSE,
                      !.owed = Tail(@), !.head = FALSE]
    <3>1. v.busy - 1 = 0 /\ Tail(v.owed) = e
      BY <1>4, <1>5, <1>6
    <3>2. y = [v EXCEPT !.busy = v.busy - 1, !.state = 0, !.waiting = FALSE,
                        !.owed = Tail(v.owed), !.head = FALSE]
      BY <1>7, <3>1
    <3> QED BY <1>2, <1>5, <3>2 DEF UpstreamOf
  <2> QED BY <1>5, <2>1 DEF PrxMessage
<1>9. e \in Seq(1 .. MaxRequests) /\ v \in UpstreamOf
  BY <1>2, <1>5, <1>6, EmptySeq
<1>10. /\ y \in UpstreamOf /\ y.status = v.status /\ y.owed = e /\ y.busy = 0
       /\ y.state = 0 /\ y.head = FALSE
  BY <1>7, <1>9 DEF UpstreamOf
<1>11. Loaded(y) /\ y.status \in Lives
  BY <1>1, <1>5, <1>6, <1>10 DEF Loaded, Lives, Up
<1>12. upstreams'[u] = y
  BY <1>2, <1>8
<1>13. Told(f)'
  <2>1. fronts'[f].proxy = u /\ fronts'[f].asked = fronts[f].asked
    BY <1>3, <1>4
  <2>2. ~Owing(f)'
    BY <1>6, <1>10, <1>12, <2>1 DEF Owing
  <2> QED BY <1>4, <2>1, <2>2 DEF Told
<1>14. connMap[u] = 0 => y.owed = <<>>
  BY <1>6, <1>10
<1>15. /\ Paired'
       /\ \A z \in Upstreams \ {u} : upstreams'[z] = upstreams[z]
  BY <1>1, <1>3, <1>4, <1>8, <1>10, <1>11, <1>13, <1>14, LivesPaired
<1>16. Counts'
  BY <1>1, <1>3, <1>4, <1>10, <1>12, <1>15, ReleaseCounts
<1> QED BY <1>15, <1>16 DEF ProxyInv

LEMMA PrxLastMessageStep ==
    ASSUME ProxyInv, NEW u \in Upstreams, PrxLastMessage(u)
    PROVE  ProxyInv'
<1>1. Paired /\ Counts /\ Up(u) = "open" /\ upstreams[u].head /\ connMap[u] # 0
  BY DEF ProxyInv, PrxLastMessage
<1>2. /\ upstreams \in [Upstreams -> UpstreamOf] /\ fronts \in [Fronts -> FrontOf]
      /\ connMap[u] \in Fronts
  BY <1>1, ProxyConstants DEF Paired, ProxyTypes
<1>3. /\ relayed' = [relayed EXCEPT ![connMap[u]] =
                        Append(@, <<"end", Head(upstreams[u].owed)>>)]
      /\ fronts' = FrontClosed(connMap[u]) /\ connMap' = [connMap EXCEPT ![u] = 0]
      /\ upstreams' = [upstreams EXCEPT ![u] = ClosedUp(u)]
      /\ smart' = Release(smart, upstreams[u].state)
      /\ busyConn' = busyConn - upstreams[u].busy
  BY DEF PrxLastMessage
<1>4. \A g \in Fronts : fronts'[g].asked = fronts[g].asked
  <2>1. PICK h \in Fronts : h = connMap[u]
    BY <1>2
  <2> QED BY <1>2, <1>3, <2>1, FrontClosedFacts
<1>5. PICK f \in Fronts :
          /\ FrontIs(f, u) /\ connMap[u] = f
          /\ relayed' \in [Fronts -> Seq(Parts)]
          /\ \A g \in Fronts \ {f} : relayed'[g] = relayed[g]
          /\ \A i \in 1 .. Len(relayed'[f]) : PartIs(f, i)'
  BY <1>1, <1>3, <1>4, LastPart
<1>6. /\ Paired' /\ upstreams'[u].busy = 0 /\ upstreams'[u].state = 0
      /\ \A v \in Upstreams \ {u} : upstreams'[v] = upstreams[v]
  BY <1>1, <1>3, <1>5, ClosedPaired
<1>7. Counts'
  BY <1>1, <1>3, <1>6, ReleaseCounts
<1> QED BY <1>6, <1>7 DEF ProxyInv

LEMMA LostStep ==
    ASSUME ProxyInv, NEW u \in Upstreams, Lost(u)
    PROVE  ProxyInv'
<1>1. Paired /\ Counts /\ Alive(u)
  BY DEF ProxyInv, Lost, Alive
<1>2. /\ fronts \in [Fronts -> FrontOf] /\ relayed \in [Fronts -> Seq(Parts)]
  BY <1>1 DEF Paired, ProxyTypes
<1>3. /\ upstreams' = [upstreams EXCEPT ![u] = ClosedUp(u)]
      /\ connMap' = [connMap EXCEPT ![u] = 0]
      /\ smart' = Release(smart, upstreams[u].state)
      /\ busyConn' = busyConn - upstreams[u].busy
      /\ fronts' = IF connMap[u] = 0 THEN fronts ELSE FrontClosed(connMap[u])
      /\ relayed' = IF connMap[u] = 0 \/ ~upstreams[u].waiting THEN relayed
                    ELSE [relayed EXCEPT ![connMap[u]] = Append(@, <<"error", 0>>)]
  BY DEF Lost, CloseBoth, PrxClose
<1>4. PICK f \in Fronts : FrontIs(f, u)
  BY <1>1, FrontFor DEF FrontIs
<1>5. \/ connMap[u] = f /\ fronts' = FrontClosed(f) /\ fronts[f].status = "open"
      \/ connMap[u] = 0 /\ fronts' = fronts
  BY <1>3, <1>4, ProxyConstants DEF FrontIs
<1>6. /\ fronts'[f].asked = fronts[f].asked /\ fronts[f].asked \in Nat
      /\ fronts[f].status = "closed" => fronts'[f].status = "closed"
      /\ connMap[u] = f => fronts'[f].status = "closed"
  <2>1. fronts[f].asked \in Nat /\ f # 0
    BY <1>1, PairFacts, ProxyConstants
  <2>2. CASE connMap[u] = f /\ fronts' = FrontClosed(f)
    BY <1>2, <2>1, <2>2, FrontClosedFacts
  <2>3. CASE connMap[u] = 0 /\ fronts' = fronts
    BY <2>1, <2>3
  <2> QED BY <1>5, <2>2, <2>3
<1>7. /\ relayed' \in [Fronts -> Seq(Parts)]
      /\ \A g \in Fronts \ {f} : relayed'[g] = relayed[g]
      /\ \A i \in 1 .. Len(relayed'[f]) : PartIs(f, i)'
  <2>1. CASE relayed' = relayed
    <3>1. relayed'[f] = relayed[f] /\ fronts'[f].asked >= fronts[f].asked
      BY <1>6, <2>1
    <3>2. \A i \in 1 .. Len(relayed'[f]) : PartIs(f, i)'
      BY <1>1, <1>6, <3>1, PartsSame
    <3> QED BY <1>2, <2>1, <3>2
  <2>2. CASE relayed' # relayed
    <3>1. PICK x : x = <<"error", 0>>
      OBVIOUS
    <3>2. /\ connMap[u] = f /\ fronts[f].status = "open"
          /\ relayed' = [relayed EXCEPT ![f] = Append(@, x)]
      BY <1>3, <1>5, <2>2, <3>1
    <3>3. x \in Parts
      BY <3>1, ProxyConstants DEF Parts
    <3> QED BY <1>1, <1>6, <3>1, <3>2, <3>3, PartsMore
  <2> QED BY <2>1, <2>2
<1>8. /\ Paired' /\ upstreams'[u].busy = 0 /\ upstreams'[u].state = 0
      /\ \A v \in Upstreams \ {u} : upstreams'[v] = upstreams[v]
  BY <1>1, <1>3, <1>4, <1>5, <1>7, ClosedPaired
<1>9. Counts'
  BY <1>1, <1>3, <1>8, ReleaseCounts
<1> QED BY <1>8, <1>9 DEF ProxyInv

LEMMA FrontLostStep ==
    ASSUME ProxyInv, NEW f \in Fronts, FrontLost(f)
    PROVE  ProxyInv'
<1>1. Paired /\ Counts /\ fronts[f].status # "closed"
  BY DEF ProxyInv, FrontLost
<1>2. /\ fronts \in [Fronts -> FrontOf] /\ relayed \in [Fronts -> Seq(Parts)]
      /\ upstreams \in [Upstreams -> UpstreamOf]
      /\ connMap \in [Upstreams -> 0 .. MaxFronts]
      /\ fronts[f].asked > 0 => fronts[f].state \in UrlPrefixes
  BY <1>1 DEF Paired, ProxyTypes
<1>3. fronts' = FrontClosed(f) /\ relayed' = relayed
  BY DEF FrontLost
<1>4. /\ fronts' \in [Fronts -> FrontOf]
      /\ \A g \in Fronts \ {f} : fronts'[g] = fronts[g]
      /\ fronts'[f].proxy = 0 /\ fronts'[f].status = "closed"
      /\ fronts'[f].asked = fronts[f].asked /\ fronts'[f].state = fronts[f].state
  BY <1>2, <1>3, FrontClosedFacts
<1>5. \A i \in 1 .. Len(relayed'[f]) : PartIs(f, i)'
  <2>1. fronts[f].asked \in Nat
    BY <1>1, PairFacts, ProxyConstants
  <2>2. /\ relayed'[f] = relayed[f] /\ fronts'[f].asked \in Nat
        /\ fronts'[f].asked >= fronts[f].asked
    BY <1>3, <1>4, <2>1
  <2> QED BY <1>1, <2>2, PartsSame
<1>6. relayed' \in [Fronts -> Seq(Parts)] /\ \A g \in Fronts \ {f} : relayed'[g] = relayed[g]
  BY <1>2, <1>3
<1>7. CASE fronts[f].proxy = 0
  <2>1. UNCHANGED <<upstreams, connMap, busyConn, smart>>
    BY <1>7 DEF FrontLost
  <2>2. PICK W : W = {}
    OBVIOUS
  <2>3. W \in SUBSET Upstreams /\ fronts[f].proxy \in {0} \cup W /\ \A w : w \notin W
    BY <1>7, <2>2
  <2>4. \A v \in Upstreams \ W : upstreams'[v] = upstreams[v] /\ connMap'[v] = connMap[v]
    BY <2>1
  <2>5. \A w \in W :
            /\ connMap[w] \in {0, f} /\ Loaded(upstreams'[w])
            /\ \/ connMap'[w] = f /\ fronts'[f].proxy = w
               \/ /\ connMap'[w] = 0 /\ upstreams'[w].owed = <<>>
                  /\ upstreams'[w].status \in Lives => fronts'[f].status # "open"
    BY <2>3
  <2>6. /\ fronts'[f].asked > 0 => fronts'[f].state \in UrlPrefixes
        /\ fronts[f].status # "open" => fronts'[f].status # "open"
        /\ upstreams' \in [Upstreams -> UpstreamOf]
        /\ connMap' \in [Upstreams -> 0 .. MaxFronts]
        /\ \A g \in Fronts \ {f} : fronts'[g] = fronts[g] /\ relayed'[g] = relayed[g]
    BY <1>2, <1>4, <1>6, <2>1
  <2>7. fronts'[f].proxy # 0 =>
            /\ fronts'[f].status = "open" /\ fronts'[f].proxy \in W
            /\ upstreams'[fronts'[f].proxy].status \in Lives
            /\ connMap'[fronts'[f].proxy] = f
    BY <1>4
  <2>8. Told(f)'
    BY <1>4, <1>5 DEF Told, Owing
  <2>9. Paired'
    BY <1>1, <1>4, <1>6, <2>3, <2>4, <2>5, <2>6, <2>7, <2>8, PairedStep
  <2>10. Counts'
    BY <1>1, <2>1 DEF Counts, LoadsOf
  <2> QED BY <2>9, <2>10 DEF ProxyInv
<1>8. CASE fronts[f].proxy # 0
  <2>1. PICK u : u = fronts[f].proxy
    OBVIOUS
  <2>2. /\ u \in Upstreams /\ connMap[u] = f /\ fronts[f].status = "open" /\ f # 0
    BY <1>1, <1>8, <2>1, PairFacts, ProxyConstants
  <2>3. /\ upstreams' = [upstreams EXCEPT ![u] = ClosedUp(u)]
        /\ connMap' = [connMap EXCEPT ![u] = 0]
        /\ smart' = Release(smart, upstreams[u].state)
        /\ busyConn' = busyConn - upstreams[u].busy
    BY <1>8, <2>1 DEF FrontLost, PrxClose
  <2>4. FrontIs(f, u)
    BY <2>1, <2>2 DEF FrontIs
  <2>5. /\ Paired' /\ upstreams'[u].busy = 0 /\ upstreams'[u].state = 0
        /\ \A v \in Upstreams \ {u} : upstreams'[v] = upstreams[v]
    BY <1>1, <1>3, <1>5, <1>6, <2>2, <2>3, <2>4, ClosedPaired
  <2>6. Counts'
    BY <1>1, <2>2, <2>3, <2>5, ReleaseCounts
  <2> QED BY <2>5, <2>6 DEF ProxyInv
<1> QED BY <1>7, <1>8

LEMMA ProxyInvInit == ProxyInit => ProxyInv
<1> SUFFICES ASSUME ProxyInit  PROVE ProxyInv
  OBVIOUS
<1>1. /\ 0 \in 0 .. MaxRequests /\ 0 \in 0 .. MaxUpstreams /\ 0 \in 0 .. MaxFronts
      /\ <<>> \in Seq(1 .. MaxRequests) /\ <<>> \in Seq(Parts) /\ Len(<<>>) = 0
      /\ 1 .. 0 = {}
  BY ProxyConstants, EmptySeq
<1>2. ASSUME NEW f \in Fronts
      PROVE  /\ fronts[f] \in FrontOf /\ fronts[f].status = "open"
             /\ fronts[f].asked = 0 /\ fronts[f].proxy = 0
             /\ relayed[f] = <<>>
  BY <1>1 DEF ProxyInit, FrontOf
<1>3. ASSUME NEW u \in Upstreams
      PROVE  /\ upstreams[u] \in UpstreamOf /\ upstreams[u].status = "new"
             /\ upstreams[u].owed = <<>> /\ upstreams[u].busy = 0
             /\ upstreams[u].state = 0 /\ upstreams[u].head = FALSE
             /\ connMap[u] = 0
  <2>1. PICK e : e = <<>>
    OBVIOUS
  <2>2. PICK y : y = [status |-> "new", busy |-> 0, waiting |-> FALSE, state |-> 0,
                      owed |-> e, head |-> FALSE]
    OBVIOUS
  <2>3. y \in UpstreamOf
    BY <1>1, <2>1, <2>2 DEF UpstreamOf
  <2>4. upstreams[u] = y /\ connMap[u] = 0
    BY <2>1, <2>2 DEF ProxyInit
  <2> QED BY <2>1, <2>2, <2>3, <2>4
<1>4. ProxyTypes
  <2>1. fronts \in [Fronts -> FrontOf]
    BY <1>2 DEF ProxyInit
  <2>2. upstreams \in [Upstreams -> UpstreamOf]
    BY <1>3 DEF ProxyInit
  <2>3. relayed \in [Fronts -> Seq(Parts)] /\ connMap \in [Upstreams -> 0 .. MaxFronts]
    BY <1>1 DEF ProxyInit
  <2> QED BY <1>2, <2>1, <2>2, <2>3 DEF ProxyTypes
<1>5. Linked
  BY <1>2, <1>3 DEF Linked, Alive, Up
<1>6. \A u \in Upstreams : Loaded(upstreams[u])
  BY <1>3 DEF Loaded
<1>7. \A f \in Fronts : Told(f)
  BY <1>1, <1>2 DEF Told, Owing
<1>8. RequestedOf(upstreams) = {} /\ \A k \in UrlPrefixes : LoadsOf(upstreams, k) = {}
  <2>1. \A u \in Upstreams : {u} \X (1 .. upstreams[u].busy) = {}
    BY <1>1, <1>3
  <2>2. \A k \in UrlPrefixes : k # 0
    BY DEF UrlPrefixes
  <2> QED BY <1>3, <2>1, <2>2 DEF RequestedOf, LoadsOf
<1>9. smart \in Queues /\ \A k \in UrlPrefixes : smart.sorter[k].busy = 0
  <2>1. PICK c : c = [k \in UrlPrefixes |-> [busy |-> 0, last |-> 0]]
    OBVIOUS
  <2>2. PICK h : h = <<1, 2>>
    OBVIOUS
  <2>3. c \in Counters /\ \A k \in UrlPrefixes : c[k].busy = 0
    BY <2>1 DEF Counters
  <2>4. h \in Seq(UrlPrefixes) /\ h # <<>>
    BY <2>2 DEF UrlPrefixes
  <2>5. smart = [sorter |-> c, heap |-> h, clock |-> 0]
    BY <2>1, <2>2 DEF ProxyInit
  <2> QED BY <2>3, <2>4, <2>5 DEF Queues
<1>10. Counts
  <2>1. busyConn = 0
    BY DEF ProxyInit
  <2> QED BY <1>8, <1>9, <2>1, FS_EmptySet DEF Counts
<1> QED BY <1>4, <1>5, <1>6, <1>7, <1>10 DEF ProxyInv, Paired

LEMMA ProxyInvStep ==
    ASSUME ~Pipelining
    PROVE  ProxyInv /\ [ProxyNext]_proxyVars => ProxyInv'
<1> SUFFICES ASSUME ProxyInv, [ProxyNext]_proxyVars  PROVE ProxyInv'
  OBVIOUS
<1>1. ASSUME NEW f \in Fronts, RequestReused(f) \/ Upgrade(f) \/ FrontLost(f)
      PROVE  ProxyInv'
  BY <1>1, RequestReusedStep, UpgradeStep, FrontLostStep
<1>2. ASSUME NEW f \in Fronts, NEW u \in Upstreams,
             RequestNew(f, u) \/ RequestStale(f, u)
      PROVE  ProxyInv'
  BY <1>2, RequestNewStep, RequestStaleStep
<1>3. ASSUME NEW u \in Upstreams, Progress(u) \/ Eof(u)
      PROVE  ProxyInv'
  BY <1>3, EstablishedStep, LostStep, PrxHeadersStep, PrxMessageStep,
     PrxLastMessageStep DEF Progress
<1>4. CASE UNCHANGED proxyVars
  <2>1. /\ UNCHANGED <<fronts, relayed, upstreams, connMap>>
        /\ UNCHANGED <<busyConn, smart>>
    BY <1>4 DEF proxyVars
  <2>2. Counts'
    BY <2>1 DEF ProxyInv, Counts, LoadsOf, RequestedOf
  <2>3. ProxyTypes' /\ Linked' /\ \A u \in Upstreams : Loaded(upstreams'[u])
    BY <2>1 DEF ProxyInv, Paired, ProxyTypes, Linked, Alive, Up
  <2>4. ASSUME NEW f \in Fronts  PROVE Told(f)'
    BY <2>1, ToldStays DEF ProxyInv, Paired
  <2> QED BY <2>2, <2>3, <2>4 DEF ProxyInv, Paired
<1> QED BY <1>1, <1>2, <1>3, <1>4 DEF ProxyNext

LEMMA ProxyInvSafe == ProxyInv => ProxySafety
<1> SUFFICES ASSUME ProxyInv  PROVE ProxySafety
  OBVIOUS
<1>1. Paired /\ Counts /\ Linked
  BY DEF ProxyInv, Paired
<1>2. Mapped
  <2>1. ASSUME NEW u \in Upstreams, NEW f \in Fronts
        PROVE  connMap[u] = f <=> (fronts[f].proxy = u /\ Alive(u))
    <3>1. f # 0 /\ u # 0
      BY ProxyConstants
    <3> QED BY <1>1, <3>1 DEF Linked
  <2>2. ASSUME NEW u \in Upstreams, Alive(u)
        PROVE  \/ connMap[u] # 0
               \/ /\ upstreams[u].owed = <<>>
                  /\ \E f \in Fronts : fronts[f].status # "open"
    BY <1>1, <2>2 DEF Linked
  <2> QED BY <2>1, <2>2 DEF Mapped
<1>3. \A u \in Upstreams : upstreams[u].busy = Len(upstreams[u].owed)
  BY <1>1, UpstreamFacts, EmptySeq DEF Loaded
<1>4. Accounts
  <2>1. Requested = RequestedOf(upstreams)
    BY DEF Requested, RequestedOf
  <2> QED BY <1>1, <1>2, <1>3, <2>1 DEF Accounts, Counts, LoadsOf
<1>5. ASSUME NEW f \in Fronts, NEW i \in DOMAIN relayed[f]
      PROVE  /\ relayed[f][i][2] <= fronts[f].asked
             /\ relayed[f][i][1] = "error" =>
                    i = Len(relayed[f]) /\ fronts[f].status = "closed"
             /\ relayed[f][i][1] = "head" =>
                    relayed[f][i][2] = (i + 1) \div 2 /\ i % 2 = 1
             /\ relayed[f][i][1] = "end" =>
                    relayed[f][i - 1] = <<"head", relayed[f][i][2]>>
  <2>1. PICK s : s = relayed[f]
    OBVIOUS
  <2>2. PICK a : a = fronts[f].asked
    OBVIOUS
  <2>3. DOMAIN s = 1 .. Len(s) /\ Len(s) \in Nat /\ a \in Nat
    BY <1>1, <2>1, <2>2, PairFacts, LenProperties, ProxyConstants
  <2>4. \A j \in 1 .. Len(s) :
            \/ \E n \in 1 .. a :
                  \/ j = 2 * n - 1 /\ s[j] = <<"head", n>>
                  \/ j = 2 * n /\ s[j] = <<"end", n>>
            \/ s[j] = <<"error", 0>> /\ j = Len(s) /\ fronts[f].status = "closed"
    BY <1>1, <2>1, <2>2 DEF Paired, Told, PartIs
  <2>5. i \in 1 .. Len(s)
    BY <1>5, <2>1, <2>3
  <2>6. CASE s[i] = <<"error", 0>> /\ i = Len(s) /\ fronts[f].status = "closed"
    BY <2>1, <2>2, <2>3, <2>6
  <2>7. ASSUME NEW n \in 1 .. a, i = 2 * n - 1, s[i] = <<"head", n>>
        PROVE  /\ s[i][2] <= a /\ s[i][1] = "head"
               /\ s[i][2] = (i + 1) \div 2 /\ i % 2 = 1
    BY <2>3, <2>7
  <2>8. ASSUME NEW n \in 1 .. a, i = 2 * n, s[i] = <<"end", n>>
        PROVE  s[i][2] <= a /\ s[i][1] = "end" /\ s[i - 1] = <<"head", s[i][2]>>
    <3>1. PICK j : j = i - 1
      OBVIOUS
    <3>2. j \in 1 .. Len(s) /\ j # Len(s) /\ j = 2 * n - 1
      BY <2>3, <2>5, <2>8, <3>1
    <3>3. PICK m \in 1 .. a : \/ j = 2 * m - 1 /\ s[j] = <<"head", m>>
                              \/ j = 2 * m /\ s[j] = <<"end", m>>
      BY <2>4, <3>2
    <3>4. m = n /\ j # 2 * m
      BY <2>3, <3>2, <3>3
    <3> QED BY <2>3, <2>8, <3>1, <3>3, <3>4
  <2>9. \/ s[i] = <<"error", 0>> /\ i = Len(s) /\ fronts[f].status = "closed"
        \/ \E n \in 1 .. a : i = 2 * n - 1 /\ s[i] = <<"head", n>>
        \/ \E n \in 1 .. a : i = 2 * n /\ s[i] = <<"end", n>>
    BY <2>4, <2>5
  <2> QED BY <2>1, <2>2, <2>6, <2>7, <2>8, <2>9
<1>6. OwnResponses
  BY <1>5 DEF OwnResponses
<1> QED BY <1>4, <1>6 DEF ProxySafety

\* If fronts do not pipeline, then whatever the order in which requests,
\* answers, upgrades and the ends of both kinds of connections come: conn_map
\* and proxy_c are inverse to each other, busy_conn and the PriorityDict count
\* the requests in progress, and a front is told the answers to its requests
\* in their order (on_headers(), _on_prx_headers(), _on_prx_message() and
\* _on_prx_close() of servers/proxy.py and extra/proxy_r.py).
THEOREM ProxySafe ==
    ASSUME ~Pipelining
    PROVE  ProxySpec => []ProxySafety
<1>1. ProxySpec => []ProxyInv
  BY ProxyInvInit, ProxyInvStep, PTL DEF ProxySpec
<1> QED BY <1>1, ProxyInvSafe, PTL

-----------------------------------------------------------------------------
(* The listening socket.                                                   *)

ListenerTypes ==
    /\ edges \in BOOLEAN /\ fate \in [Peers -> Fates]
    /\ arrivals \in Seq(Peers)
    /\ served \in [Peers -> {"out", "queued", "open", "closed"}]
    /\ server \in [Servers -> [at : {"serve", "poll", "accept", "ended"}, event : BOOLEAN]]

\* Every process that polls by edges has yet to be told of those who wait, and
\* a process is left.
ListenerInv ==
    /\ ListenerTypes /\ InQueue
    /\ \A i, j \in 1 .. Len(arrivals) : arrivals[i] = arrivals[j] => i = j
    /\ \E s \in Servers : server[s].at # "ended"
    /\ edges => \A p \in Peers : fate[p] # "raises"
    /\ edges /\ arrivals # <<>> =>
           \A s \in Servers : server[s].at = "poll" => server[s].event

ServerOf == [at : {"serve", "poll", "accept", "ended"}, event : BOOLEAN]

\* A step of one process that accepts no one.
LEMMA ServerMoves ==
    ASSUME ListenerInv, NEW s \in Servers, NEW x \in ServerOf,
           server' = [server EXCEPT ![s] = x],
           UNCHANGED <<edges, fate, arrivals, served>>,
           \/ x.at # "ended"
           \/ \E t \in Servers \ {s} : server[t].at # "ended",
           edges /\ arrivals # <<>> /\ x.at = "poll" => x.event
    PROVE  ListenerInv'
<1>1. /\ server \in [Servers -> ServerOf]
      /\ edges /\ arrivals # <<>> =>
             \A t \in Servers : server[t].at = "poll" => server[t].event
  BY DEF ListenerInv, ListenerTypes, ServerOf
<1>2. /\ server' \in [Servers -> ServerOf] /\ server'[s] = x
      /\ \A t \in Servers \ {s} : server'[t] = server[t]
  BY <1>1
<1>3. ListenerTypes'
  BY <1>2 DEF ListenerInv, ListenerTypes, ServerOf
<1>4. \E t \in Servers : server'[t].at # "ended"
  BY <1>2
<1>5. edges' /\ arrivals' # <<>> =>
          \A t \in Servers : server'[t].at = "poll" => server'[t].event
  BY <1>1, <1>2
<1>6. /\ InQueue'
      /\ \A i, j \in 1 .. Len(arrivals') : arrivals'[i] = arrivals'[j] => i = j
      /\ edges' => \A p \in Peers : fate'[p] # "raises"
  BY DEF ListenerInv, InQueue
<1> QED BY <1>3, <1>4, <1>5, <1>6 DEF ListenerInv

LEMMA ArriveStep ==
    ASSUME ListenerInv, NEW p \in Peers, Arrive(p)
    PROVE  ListenerInv'
<1>1. /\ served[p] = "out" /\ edges' = edges /\ fate' = fate
      /\ arrivals' = Append(arrivals, p) /\ served' = [served EXCEPT ![p] = "queued"]
      /\ server' = [s \in Servers |->
                       [server[s] EXCEPT !.event = @ \/ server[s].at # "serve"]]
  BY DEF Arrive
<1>2. /\ arrivals \in Seq(Peers) /\ server \in [Servers -> ServerOf]
      /\ served \in [Peers -> {"out", "queued", "open", "closed"}]
      /\ Len(arrivals) \in Nat
  BY LenProperties DEF ListenerInv, ListenerTypes, ServerOf
<1>3. /\ arrivals' \in Seq(Peers) /\ Len(arrivals') = Len(arrivals) + 1
      /\ \A i \in 1 .. Len(arrivals) : arrivals'[i] = arrivals[i]
      /\ arrivals'[Len(arrivals) + 1] = p
  BY <1>1, <1>2, AppendProperties
<1>4. ASSUME NEW s \in Servers
      PROVE  /\ server'[s] \in ServerOf /\ server'[s].at = server[s].at
             /\ server[s].at # "serve" => server'[s].event
  <2>1. PICK x : x = server[s]
    OBVIOUS
  <2>2. PICK b \in BOOLEAN : b <=> (x.event \/ x.at # "serve")
    OBVIOUS
  <2>3. x \in ServerOf /\ x.event \in BOOLEAN
    BY <1>2, <2>1 DEF ServerOf
  <2>4. PICK y : y = [x EXCEPT !.event = b]
    OBVIOUS
  <2>5. y \in ServerOf /\ y.at = x.at /\ y.event = b
    BY <2>3, <2>4 DEF ServerOf
  <2>6. (x.event \/ x.at # "serve") = b
    BY <2>2, <2>3
  <2>7. server'[s] = [x EXCEPT !.event = @ \/ x.at # "serve"]
    BY <1>1, <2>1
  <2>8. server'[s] = [x EXCEPT !.event = x.event \/ x.at # "serve"]
    BY <2>3, <2>7 DEF ServerOf
  <2>9. server'[s] = y
    BY <2>4, <2>6, <2>8
  <2> QED BY <2>1, <2>2, <2>5, <2>9
<1>5. server' \in [Servers -> ServerOf]
  BY <1>1, <1>4
<1>6. ListenerTypes'
  BY <1>1, <1>2, <1>3, <1>5 DEF ListenerInv, ListenerTypes, ServerOf
<1>7. \A i \in 1 .. Len(arrivals) : arrivals[i] # p
  BY <1>1 DEF ListenerInv, InQueue
<1>8. \A i \in 1 .. Len(arrivals') :
          \/ i \in 1 .. Len(arrivals) /\ arrivals'[i] = arrivals[i]
          \/ i = Len(arrivals) + 1 /\ arrivals'[i] = p
  BY <1>2, <1>3
<1>9. InQueue'
  <2> SUFFICES ASSUME NEW q \in Peers
               PROVE  served'[q] = "queued" <=>
                          \E i \in 1 .. Len(arrivals') : arrivals'[i] = q
    BY DEF InQueue
  <2>1. CASE q = p
    <3>1. Len(arrivals) + 1 \in 1 .. Len(arrivals')
      BY <1>2, <1>3
    <3> QED BY <1>1, <1>2, <1>3, <2>1, <3>1
  <2>2. CASE q # p
    <3>1. served'[q] = served[q]
      BY <1>1, <1>2, <2>2
    <3>2. served[q] = "queued" <=> \E i \in 1 .. Len(arrivals) : arrivals[i] = q
      BY DEF ListenerInv, InQueue
    <3>3. \A i \in 1 .. Len(arrivals) : i \in 1 .. Len(arrivals')
      BY <1>2, <1>3
    <3> QED BY <1>3, <1>8, <2>2, <3>1, <3>2, <3>3
  <2> QED BY <2>1, <2>2
<1>10. \A i, j \in 1 .. Len(arrivals') : arrivals'[i] = arrivals'[j] => i = j
  BY <1>7, <1>8 DEF ListenerInv
<1>11. \E s \in Servers : server'[s].at # "ended"
  BY <1>4 DEF ListenerInv
<1>12. \A s \in Servers : server'[s].at = "poll" => server'[s].event
  BY <1>4
<1> QED BY <1>1, <1>6, <1>9, <1>10, <1>11, <1>12 DEF ListenerInv

LEMMA AcceptOneStep ==
    ASSUME ListenerInv, NEW s \in Servers, AcceptOne(s)
    PROVE  ListenerInv'
<1>1. PICK p : p = Head(arrivals)
  OBVIOUS
<1>2. PICK at : at = IF fate[p] = "raises" THEN "poll" ELSE "accept"
  OBVIOUS
<1>3. PICK end : end = IF fate[p] = "good" THEN "open" ELSE "closed"
  OBVIOUS
<1>4. /\ arrivals # <<>> /\ arrivals' = Tail(arrivals) /\ edges' = edges /\ fate' = fate
      /\ served' = [served EXCEPT ![p] = end] /\ server' = [server EXCEPT ![s].at = at]
  BY <1>1, <1>2, <1>3 DEF AcceptOne
<1>5. /\ arrivals \in Seq(Peers) /\ server \in [Servers -> ServerOf]
      /\ served \in [Peers -> {"out", "queued", "open", "closed"}]
      /\ Len(arrivals) \in Nat \ {0}
  BY <1>4, EmptySeq DEF ListenerInv, ListenerTypes, ServerOf
<1>6. /\ p \in Peers /\ p = arrivals[1] /\ arrivals' \in Seq(Peers)
      /\ Len(arrivals') = Len(arrivals) - 1
      /\ \A i \in 1 .. Len(arrivals') : arrivals'[i] = arrivals[i + 1]
  <2>1. p = arrivals[1]
    BY <1>1, <1>5
  <2> QED BY <1>1, <1>4, <1>5, <2>1, HeadTailProperties
<1>7. PICK x : x = server[s]
  OBVIOUS
<1>8. PICK y : y = [x EXCEPT !.at = at]
  OBVIOUS
<1>9. y \in ServerOf /\ y.at = at /\ at \in {"poll", "accept"} /\ end \in {"open", "closed"}
  BY <1>2, <1>3, <1>5, <1>7, <1>8 DEF ServerOf
<1>10. /\ server' \in [Servers -> ServerOf] /\ server'[s] = y
       /\ \A t \in Servers \ {s} : server'[t] = server[t]
  <2>1. server' = [server EXCEPT ![s] = y]
    BY <1>4, <1>5, <1>7, <1>8
  <2> QED BY <1>5, <1>9, <2>1
<1>11. /\ served' \in [Peers -> {"out", "queued", "open", "closed"}]
       /\ served'[p] # "queued" /\ \A q \in Peers \ {p} : served'[q] = served[q]
  BY <1>4, <1>5, <1>6, <1>9
<1>12. ListenerTypes'
  BY <1>4, <1>6, <1>10, <1>11 DEF ListenerInv, ListenerTypes, ServerOf
<1>13. \A i, j \in 1 .. Len(arrivals) : arrivals[i] = arrivals[j] => i = j
  BY DEF ListenerInv
<1>14. \A i \in 1 .. Len(arrivals') : i + 1 \in 1 .. Len(arrivals) /\ i + 1 # 1
  BY <1>5, <1>6
<1>15. InQueue'
  <2> SUFFICES ASSUME NEW q \in Peers
               PROVE  served'[q] = "queued" <=>
                          \E i \in 1 .. Len(arrivals') : arrivals'[i] = q
    BY DEF InQueue
  <2>1. 1 \in 1 .. Len(arrivals)
    BY <1>5
  <2>2. CASE q = p
    <3>1. \A i \in 1 .. Len(arrivals') : arrivals'[i] # p
      BY <1>6, <1>13, <1>14, <2>1
    <3> QED BY <1>11, <2>2, <3>1
  <2>3. CASE q # p
    <3>1. served'[q] = served[q]
      BY <1>11, <2>3
    <3>2. served[q] = "queued" <=> \E i \in 1 .. Len(arrivals) : arrivals[i] = q
      BY DEF ListenerInv, InQueue
    <3>3. ASSUME NEW i \in 1 .. Len(arrivals), arrivals[i] = q
          PROVE  \E j \in 1 .. Len(arrivals') : arrivals'[j] = q
      <4>1. PICK j : j = i - 1
        OBVIOUS
      <4>2. i # 1
        BY <1>6, <2>3, <3>3
      <4>3. j \in 1 .. Len(arrivals') /\ j + 1 = i
        BY <1>5, <1>6, <4>1, <4>2
      <4>4. arrivals'[j] = arrivals[i]
        BY <1>6, <4>3
      <4> QED BY <3>3, <4>3, <4>4
    <3> QED BY <1>6, <1>14, <3>1, <3>2, <3>3
  <2> QED BY <2>2, <2>3
<1>16. \A i, j \in 1 .. Len(arrivals') : arrivals'[i] = arrivals'[j] => i = j
  <2> SUFFICES ASSUME NEW i \in 1 .. Len(arrivals'), NEW j \in 1 .. Len(arrivals'),
                      arrivals'[i] = arrivals'[j]
               PROVE  i = j
    OBVIOUS
  <2>1. arrivals[i + 1] = arrivals[j + 1]
    BY <1>6
  <2>2. i + 1 = j + 1
    BY <1>13, <1>14, <2>1
  <2> QED BY <2>2
<1>17. server'[s].at # "ended"
  BY <1>9, <1>10
<1>18. edges' => \A q \in Peers : fate'[q] # "raises"
  BY <1>4 DEF ListenerInv
<1>19. edges' /\ arrivals' # <<>> =>
           \A t \in Servers : server'[t].at = "poll" => server'[t].event
  <2>1. edges => at # "poll"
    BY <1>2, <1>6 DEF ListenerInv
  <2>2. edges => \A t \in Servers \ {s} : server[t].at = "poll" => server[t].event
    BY <1>4 DEF ListenerInv
  <2> QED BY <1>4, <1>9, <1>10, <2>1, <2>2
<1> QED BY <1>12, <1>15, <1>16, <1>17, <1>18, <1>19 DEF ListenerInv

LEMMA ListenerInvInit ==
    ASSUME Servers # {}
    PROVE  ListenerInit => ListenerInv
<1> SUFFICES ASSUME ListenerInit  PROVE ListenerInv
  OBVIOUS
<1>1. /\ edges \in BOOLEAN
      /\ fate \in [Peers -> IF edges THEN Fates \ {"raises"} ELSE Fates]
      /\ arrivals = <<>> /\ served = [p \in Peers |-> "out"]
      /\ server = [s \in Servers |-> [at |-> "serve", event |-> FALSE]]
  BY DEF ListenerInit
<1>2. fate \in [Peers -> Fates] /\ (edges => \A p \in Peers : fate[p] # "raises")
  BY <1>1
<1>3. arrivals \in Seq(Peers) /\ Len(arrivals) = 0 /\ 1 .. 0 = {}
  BY <1>1, EmptySeq
<1>4. ListenerTypes
  BY <1>1, <1>2, <1>3 DEF ListenerTypes
<1>5. InQueue
  BY <1>1, <1>3 DEF InQueue
<1> QED BY <1>1, <1>2, <1>3, <1>4, <1>5 DEF ListenerInv

LEMMA ListenerInvStep == ListenerInv /\ [ListenerNext]_listenerVars => ListenerInv'
<1> SUFFICES ASSUME ListenerInv, [ListenerNext]_listenerVars  PROVE ListenerInv'
  OBVIOUS
<1>1. server \in [Servers -> ServerOf]
  BY DEF ListenerInv, ListenerTypes, ServerOf
<1>2. ASSUME NEW p \in Peers, Arrive(p)  PROVE ListenerInv'
  BY <1>2, ArriveStep
<1>3. ASSUME NEW s \in Servers, ServeChild(s)  PROVE ListenerInv'
  <2>1. PICK b \in BOOLEAN : b = (arrivals # <<>>)
    OBVIOUS
  <2>2. PICK x : x = [at |-> "poll", event |-> b]
    OBVIOUS
  <2>3. x \in ServerOf /\ x.at = "poll" /\ x.event = b
    BY <2>2 DEF ServerOf
  <2>4. server' = [server EXCEPT ![s] = x] /\ UNCHANGED <<edges, fate, arrivals, served>>
    BY <1>3, <2>1, <2>2 DEF ServeChild
  <2> QED BY <2>1, <2>3, <2>4, ServerMoves
<1>4. ASSUME NEW s \in Servers, PollListener(s)  PROVE ListenerInv'
  <2>1. PICK x : x = [at |-> "accept", event |-> FALSE]
    OBVIOUS
  <2>2. x \in ServerOf /\ x.at = "accept"
    BY <2>1 DEF ServerOf
  <2>3. server' = [server EXCEPT ![s] = x] /\ UNCHANGED <<edges, fate, arrivals, served>>
    BY <1>4, <2>1 DEF PollListener
  <2> QED BY <2>2, <2>3, ServerMoves
<1>5. ASSUME NEW s \in Servers, NEW at \in {"poll", "ended"},
             server' = [server EXCEPT ![s].at = at],
             UNCHANGED <<edges, fate, arrivals, served>>,
             at = "poll" => arrivals = <<>>,
             at = "ended" => \E t \in Servers \ {s} : server[t].at # "ended"
      PROVE  ListenerInv'
  <2>1. PICK y : y = server[s]
    OBVIOUS
  <2>2. PICK x : x = [y EXCEPT !.at = at]
    OBVIOUS
  <2>3. x \in ServerOf /\ x.at = at
    BY <1>1, <2>1, <2>2 DEF ServerOf
  <2>4. server' = [server EXCEPT ![s] = x]
    BY <1>1, <1>5, <2>1, <2>2
  <2>5. edges /\ arrivals # <<>> /\ x.at = "poll" => x.event
    BY <1>5, <2>3
  <2>6. x.at # "ended" \/ \E t \in Servers \ {s} : server[t].at # "ended"
    BY <1>5, <2>3
  <2> QED BY <1>5, <2>3, <2>4, <2>5, <2>6, ServerMoves
<1>6. ASSUME NEW s \in Servers, AcceptBlocks(s) \/ ServerEnds(s)  PROVE ListenerInv'
  BY <1>5, <1>6 DEF AcceptBlocks, ServerEnds
<1>7. ASSUME NEW s \in Servers, AcceptOne(s)  PROVE ListenerInv'
  BY <1>7, AcceptOneStep
<1>8. CASE UNCHANGED listenerVars
  BY <1>8 DEF listenerVars, ListenerInv, ListenerTypes, InQueue
<1> QED BY <1>2, <1>3, <1>4, <1>6, <1>7, <1>8 DEF ListenerNext, ServerStep

LEMMA ListenerInvSafe == ListenerInv => ListenerSafety
<1> SUFFICES ASSUME ListenerInv  PROVE ListenerSafety
  OBVIOUS
<1>1. server \in [Servers -> ServerOf]
  BY DEF ListenerInv, ListenerTypes, ServerOf
<1>2. \A s \in Servers : server[s].at \in {"serve", "poll", "accept", "ended"}
  BY <1>1 DEF ServerOf
<1>3. HeardOf
  BY <1>2 DEF ListenerInv, HeardOf
<1> QED BY <1>2, <1>3 DEF ListenerInv, ListenerSafety

\* Whoever waits to be accepted will be: a process that is alive is accepting,
\* or has still to be told, though those that were told have ended; and each
\* peer is queued once (serve(), on_read_s() and on_socket_c() of
\* base/server.py).
THEOREM ListenerSafe ==
    ASSUME Servers # {}
    PROVE  ListenerInit /\ [][ListenerNext]_listenerVars => []ListenerSafety
<1>1. ListenerInit /\ [][ListenerNext]_listenerVars => []ListenerInv
  BY ListenerInvInit, ListenerInvStep, PTL
<1> QED BY <1>1, ListenerInvSafe, PTL

-----------------------------------------------------------------------------
(* The server of several processes.                                        *)

Early == {"fork", "bind", "usr1", "enter"}
MasterOf == [at : Stages, forked : 0 .. Processes, running : BOOLEAN,
             awaken : {"unset", "yes", "no"}, delayed : Nat, due : Nat,
             next : Kids, stopped : BOOLEAN]
KidStages == {"none", "born", "run", "wrote", "ending", "dead", "reaped"}
KidOf == [at : KidStages, told : BOOLEAN, killed : BOOLEAN]

PreforkTypes ==
    /\ races \in BOOLEAN /\ master \in MasterOf /\ inbox \in SUBSET Signals
    /\ lines \in Nat /\ commands \in Nat /\ kid \in [Kids -> KidOf]

\* where the parent is, and what may come there
Phases ==
    /\ master.running => master.at \in Waiting \cup {"broken"}
    /\ master.at \in Waiting => master.running
    /\ master.at \in Early => master.delayed = 0 /\ master.due = 0
    /\ master.running \/ master.at \in Early \cup {"unbind", "terminate"} =>
           master.next = 1
    /\ master.at \in {"merge", "clear", "calls"} => master.awaken # "no"
    /\ "ALRM" \in inbox => master.at = "wait" \/ (master.at = "after" /\ races)
    /\ master.at = "broken" => races

\* the children that were joined
Joined(k) ==
    \/ k < master.next
    \/ k = master.next /\ master.at = "after"
    \/ master.at = "joined"
Reaped == \A k \in Kids : Joined(k) => kid[k].at = "reaped"

\* A line is in the pipe for each call that waits, for the signal that is
\* pending, and for each child that is to send one.  What delay_m() has merged
\* and not cleared waits twice, until it is cleared.
Writers(q) == Cardinality({k \in Kids : q[k].at = "wrote"})
Pending(i) == IF "USR1" \in i THEN 1 ELSE 0
Awaits(m) == IF m.at = "clear" THEN m.due ELSE m.due + m.delayed
Covered ==
    master.running \/ master.at \in Early =>
        Awaits(master) + Pending(inbox) + Writers(kid) <= lines

PreforkInv == PreforkTypes /\ Phases /\ Reaped /\ Covered

LEMMA KidsFacts ==
    /\ Processes \in Nat \ {0} /\ 1 \in Kids /\ Processes \in Kids
    /\ IsFiniteSet(Kids) /\ \A k \in Kids : k \in Nat /\ k >= 1 /\ k <= Processes
    /\ \A k \in Kids : k # Processes => k + 1 \in Kids
<1>1. Processes \in Nat \ {0}
  BY PreforkAssumption
<1>2. IsFiniteSet(1 .. Processes)
  BY <1>1, FS_Interval
<1> QED BY <1>1, <1>2 DEF Kids

LEMMA WritersNat == ASSUME NEW q  PROVE Writers(q) \in Nat
<1>1. {k \in Kids : q[k].at = "wrote"} \in SUBSET Kids
  OBVIOUS
<1> QED BY <1>1, KidsFacts, FS_Subset, FS_CardinalityType DEF Writers

OneKid(q, r, k) == \A j \in Kids \ {k} : r[j].at = "wrote" <=> q[j].at = "wrote"
Rewritten(q, r, k) ==
    Writers(r) = Writers(q) - (IF q[k].at = "wrote" THEN 1 ELSE 0)
                 + (IF r[k].at = "wrote" THEN 1 ELSE 0)

LEMMA WritersOne ==
    ASSUME NEW q, NEW r, NEW k \in Kids, OneKid(q, r, k)
    PROVE  Rewritten(q, r, k)
<1>1. PICK S : S = {j \in Kids : q[j].at = "wrote"}
  OBVIOUS
<1>2. PICK T : T = {j \in Kids : r[j].at = "wrote"}
  OBVIOUS
<1>3. /\ IsFiniteSet(S) /\ Writers(q) = Cardinality(S) /\ Writers(r) = Cardinality(T)
      /\ Writers(q) \in Nat
  <2>1. S \in SUBSET Kids
    BY <1>1
  <2>2. IsFiniteSet(S)
    BY <2>1, KidsFacts, FS_Subset
  <2> QED BY <1>1, <1>2, <2>2, WritersNat DEF Writers
<1>4. /\ \A j : j # k => (j \in T <=> j \in S)
      /\ k \in S <=> q[k].at = "wrote"
      /\ k \in T <=> r[k].at = "wrote"
  BY <1>1, <1>2 DEF OneKid
<1>5. CASE k \in S <=> k \in T
  <2>1. S = T
    BY <1>4, <1>5
  <2> QED BY <1>3, <1>4, <1>5, <2>1 DEF Rewritten
<1>6. CASE k \in S /\ k \notin T
  <2>1. T = S \ {k}
    BY <1>4, <1>6
  <2>2. Cardinality(T) = Cardinality(S) - 1
    BY <1>3, <1>6, <2>1, OneLess
  <2> QED BY <1>3, <1>4, <1>6, <2>2 DEF Rewritten
<1>7. CASE k \notin S /\ k \in T
  <2>1. T = S \cup {k}
    BY <1>4, <1>7
  <2>2. Cardinality(T) = Cardinality(S) + 1
    BY <1>3, <1>7, <2>1, OneMore
  <2> QED BY <1>3, <1>4, <1>7, <2>2 DEF Rewritten
<1> QED BY <1>5, <1>6, <1>7

\* The fields of the parent.
LEMMA MasterFacts ==
    ASSUME PreforkTypes
    PROVE  /\ master.at \in Stages /\ master.forked \in 0 .. Processes
           /\ master.running \in BOOLEAN /\ master.awaken \in {"unset", "yes", "no"}
           /\ master.delayed \in Nat /\ master.due \in Nat /\ master.next \in Kids
           /\ Pending(inbox) \in {0, 1} /\ Writers(kid) \in Nat
<1>1. Pending(inbox) \in {0, 1}
  BY DEF Pending
<1> QED BY <1>1, WritersNat DEF PreforkTypes, MasterOf

\* Only `at` changes.
LEMMA GoFacts ==
    ASSUME PreforkTypes, NEW stage \in Stages, Go(stage)
    PROVE  /\ master' \in MasterOf /\ master'.at = stage
           /\ master'.running = master.running /\ master'.awaken = master.awaken
           /\ master'.delayed = master.delayed /\ master'.due = master.due
           /\ master'.next = master.next
<1>1. PICK m : m = master
  OBVIOUS
<1>2. m \in MasterOf
  BY <1>1 DEF PreforkTypes
<1>3. PICK n : n = [m EXCEPT !.at = stage]
  OBVIOUS
<1>4. /\ n \in MasterOf /\ n.at = stage
      /\ n.running = m.running /\ n.awaken = m.awaken
      /\ n.delayed = m.delayed /\ n.due = m.due /\ n.next = m.next
  BY <1>2, <1>3 DEF MasterOf
<1>5. master' = n
  BY <1>1, <1>3 DEF Go
<1> QED BY <1>1, <1>4, <1>5

\* A step of the parent that leaves the children alone.
LEMMA ParentMoves ==
    ASSUME PreforkInv, master' \in MasterOf, inbox' \in SUBSET Signals, lines' \in Nat,
           UNCHANGED <<races, commands, kid>>, Phases',
           \/ master'.next = 1 /\ master'.at \notin {"after", "joined"}
           \/ \A k \in Kids : Joined(k)' => Joined(k),
           master'.running \/ master'.at \in Early =>
               /\ master.running \/ master.at \in Early
               /\ Awaits(master') + Pending(inbox') - lines'
                      <= Awaits(master) + Pending(inbox) - lines
    PROVE  PreforkInv'
<1>1. PreforkTypes'
  BY DEF PreforkInv, PreforkTypes
<1>2. Reaped'
  BY KidsFacts DEF PreforkInv, Reaped, Joined
<1>3. Covered'
  <2>1. Writers(kid') = Writers(kid) /\ Writers(kid) \in Nat
    BY WritersNat
  <2>2. /\ Awaits(master) \in Int /\ Pending(inbox) \in Int /\ lines \in Int
    BY MasterFacts DEF PreforkInv, PreforkTypes, Awaits
  <2>3. Awaits(master') \in Int /\ Pending(inbox') \in Int /\ lines' \in Int
    BY DEF MasterOf, Awaits, Pending
  <2> QED BY <2>1, <2>2, <2>3 DEF PreforkInv, Covered
<1> QED BY <1>1, <1>2, <1>3 DEF PreforkInv

\* A child that was not joined changes.
LEMMA KidMoves ==
    ASSUME PreforkInv, NEW k \in Kids, kid[k].at # "reaped", NEW s \in KidStages,
           kid' = [kid EXCEPT ![k].at = s], master' = master, races' = races,
           inbox' \in SUBSET Signals, lines' \in Nat, commands' \in Nat,
           "ALRM" \in inbox' <=> "ALRM" \in inbox,
           master.running \/ master.at \in Early =>
               Pending(inbox') - lines' + (IF s = "wrote" THEN 1 ELSE 0)
                   <= Pending(inbox) - lines + (IF kid[k].at = "wrote" THEN 1 ELSE 0)
    PROVE  PreforkInv'
<1>1. /\ kid \in [Kids -> KidOf] /\ master \in MasterOf /\ races \in BOOLEAN
      /\ lines \in Int
  BY DEF PreforkInv, PreforkTypes
<1>2. PICK x : x = kid[k]
  OBVIOUS
<1>3. PICK y : y = [x EXCEPT !.at = s]
  OBVIOUS
<1>4. y \in KidOf /\ y.at = s
  BY <1>1, <1>2, <1>3 DEF KidOf
<1>5. /\ kid' \in [Kids -> KidOf] /\ kid'[k].at = s
      /\ \A j \in Kids \ {k} : kid'[j] = kid[j]
  <2>1. kid' = [kid EXCEPT ![k] = y]
    BY <1>1, <1>2, <1>3
  <2> QED BY <1>1, <1>4, <2>1
<1>6. PreforkTypes' /\ Phases'
  BY <1>1, <1>5 DEF PreforkInv, PreforkTypes, Phases
<1>7. Reaped'
  BY <1>5 DEF PreforkInv, Reaped, Joined
<1>8. Covered'
  <2>1. PICK q : q = kid
    OBVIOUS
  <2>2. PICK r : r = kid'
    OBVIOUS
  <2>3. OneKid(q, r, k)
    BY <1>5, <2>1, <2>2 DEF OneKid
  <2>4. Rewritten(q, r, k)
    BY <2>3, WritersOne
  <2>5. Writers(kid') = Writers(kid) - (IF kid[k].at = "wrote" THEN 1 ELSE 0)
                        + (IF s = "wrote" THEN 1 ELSE 0)
    BY <1>5, <2>1, <2>2, <2>4 DEF Rewritten
  <2>6. /\ Awaits(master') = Awaits(master) /\ Awaits(master) \in Int
        /\ Pending(inbox) \in Int /\ Pending(inbox') \in Int /\ Writers(kid) \in Int
    BY MasterFacts DEF PreforkInv, Awaits, Pending
  <2> QED BY <1>1, <2>5, <2>6 DEF PreforkInv, Covered
<1> QED BY <1>6, <1>7, <1>8 DEF PreforkInv

LEMMA PrepareStep ==
    ASSUME PreforkInv, races' = races, Prepare
    PROVE  PreforkInv'
<1>1. /\ UNCHANGED <<inbox, lines, commands, kid>> /\ PreforkTypes /\ Phases
  BY DEF Prepare, PreforkInv
<1>2. PICK m : m = master
  OBVIOUS
<1>3. m \in MasterOf
  BY <1>1, <1>2 DEF PreforkTypes
<1>4. PICK stage \in {"bind", "usr1", "enter", "test"} :
          /\ m.at \in Early
          /\ master' = IF stage = "test" THEN [m EXCEPT !.at = stage, !.running = TRUE]
                       ELSE [m EXCEPT !.at = stage]
  BY <1>2 DEF Prepare, Go, Early
<1>5. PICK n : n = master'
  OBVIOUS
<1>6. /\ n \in MasterOf /\ n.at = stage
      /\ n.running = (IF stage = "test" THEN TRUE ELSE m.running)
      /\ n.awaken = m.awaken
      /\ n.delayed = m.delayed /\ n.due = m.due /\ n.next = m.next
  BY <1>3, <1>4, <1>5 DEF MasterOf, Stages
<1>7. ~m.running /\ m.delayed = 0 /\ m.due = 0 /\ m.next = 1 /\ "ALRM" \notin inbox
  BY <1>1, <1>2, <1>4 DEF Phases, Early, Waiting
<1>8. Phases'
  BY <1>1, <1>5, <1>6, <1>7 DEF Phases, Early, Waiting
<1>9. master'.next = 1 /\ master'.at \notin {"after", "joined"}
  BY <1>5, <1>6, <1>7
<1>10. Awaits(master') = 0 /\ Awaits(master) = 0 /\ master.at \in Early
  BY <1>2, <1>4, <1>5, <1>6, <1>7 DEF Awaits
<1>11. master' \in MasterOf /\ inbox' \in SUBSET Signals /\ lines' \in Nat
  BY <1>1, <1>5, <1>6 DEF PreforkTypes
<1>12. Awaits(master') + Pending(inbox') - lines'
           <= Awaits(master) + Pending(inbox) - lines
  BY <1>1, <1>10, <1>11, MasterFacts
<1> QED BY <1>1, <1>8, <1>9, <1>10, <1>11, <1>12, ParentMoves

LEMMA WaitForeverStep ==
    ASSUME PreforkInv, races' = races, WaitForever
    PROVE  PreforkInv'
<1>1. UNCHANGED <<inbox, lines, commands, kid>> /\ PreforkTypes /\ Phases
  BY DEF WaitForever, PreforkInv
<1>2. PICK m : m = master
  OBVIOUS
<1>3. PICK n : n = master'
  OBVIOUS
<1>4. m \in MasterOf /\ m.delayed \in Nat /\ m.due \in Nat
  BY <1>1, <1>2 DEF PreforkTypes, MasterOf
<1>5. m.at \in Waiting /\ m.running /\ m.next = 1 /\ "ALRM" \notin inbox
  BY <1>1, <1>2 DEF WaitForever, WaitTest, WaitAwake, MergeCalls, ClearCalls,
                    DelaysDone, SleepEnds, Phases, Waiting
<1>6. PICK due : due = m.due + m.delayed
  OBVIOUS
<1>7. /\ n \in MasterOf /\ n.running = m.running /\ n.next = m.next
      /\ n.at \in Waiting
      /\ n.at \in {"merge", "clear", "calls"} => n.awaken # "no"
      /\ Awaits(n) <= Awaits(m)
  <2>1. CASE WaitTest
    <3>1. n = [m EXCEPT !.at = "awake"] /\ m.at = "test"
      BY <1>2, <1>3, <1>5, <2>1 DEF WaitTest, Go
    <3>2. /\ n \in MasterOf /\ n.running = m.running /\ n.next = m.next
          /\ n.at = "awake" /\ n.awaken = m.awaken
          /\ n.due = m.due /\ n.delayed = m.delayed
      BY <1>4, <3>1 DEF MasterOf, Stages
    <3> QED BY <1>4, <3>1, <3>2 DEF Waiting, Awaits
  <2>2. CASE WaitAwake
    <3>1. n = [m EXCEPT !.at = "merge", !.awaken = "yes"] /\ m.at = "awake"
      BY <1>2, <1>3, <2>2 DEF WaitAwake
    <3>2. /\ n \in MasterOf /\ n.running = m.running /\ n.next = m.next
          /\ n.at = "merge" /\ n.awaken = "yes"
          /\ n.due = m.due /\ n.delayed = m.delayed
      BY <1>4, <3>1 DEF MasterOf, Stages
    <3> QED BY <1>4, <3>1, <3>2 DEF Waiting, Awaits
  <2>3. CASE MergeCalls
    <3>1. n = [m EXCEPT !.at = "clear", !.due = due] /\ m.at = "merge" /\ due \in Nat
      BY <1>2, <1>3, <1>4, <1>6, <2>3 DEF MergeCalls, MasterOf
    <3>2. m.awaken # "no"
      BY <1>1, <1>2, <3>1 DEF Phases
    <3>3. /\ n \in MasterOf /\ n.running = m.running /\ n.next = m.next
          /\ n.at = "clear" /\ n.awaken = m.awaken /\ n.due = due
      BY <1>4, <3>1 DEF MasterOf, Stages
    <3>4. Awaits(n) = due /\ Awaits(m) = due
      BY <1>6, <3>1, <3>3 DEF Awaits
    <3> QED BY <3>1, <3>2, <3>3, <3>4 DEF Waiting
  <2>4. CASE ClearCalls
    <3>1. n = [m EXCEPT !.at = "calls", !.delayed = 0] /\ m.at = "clear"
      BY <1>2, <1>3, <2>4 DEF ClearCalls
    <3>2. m.awaken # "no"
      BY <1>1, <1>2, <3>1 DEF Phases
    <3>3. /\ n \in MasterOf /\ n.running = m.running /\ n.next = m.next
          /\ n.at = "calls" /\ n.awaken = m.awaken
          /\ n.due = m.due /\ n.delayed = 0
      BY <1>4, <3>1 DEF MasterOf, Stages
    <3> QED BY <1>4, <3>1, <3>2, <3>3 DEF Waiting, Awaits
  <2>5. CASE DelaysDone
    <3>1. n = [m EXCEPT !.at = "sleep", !.awaken = "no"] /\ m.at = "calls"
      BY <1>2, <1>3, <2>5 DEF DelaysDone
    <3>2. /\ n \in MasterOf /\ n.running = m.running /\ n.next = m.next
          /\ n.at = "sleep" /\ n.awaken = "no"
          /\ n.due = m.due /\ n.delayed = m.delayed
      BY <1>4, <3>1 DEF MasterOf, Stages
    <3> QED BY <1>4, <3>1, <3>2 DEF Waiting, Awaits
  <2>6. CASE SleepEnds
    <3>1. n = [m EXCEPT !.at = "test"] /\ m.at = "sleep"
      BY <1>2, <1>3, <2>6 DEF SleepEnds, Go
    <3>2. /\ n \in MasterOf /\ n.running = m.running /\ n.next = m.next
          /\ n.at = "test" /\ n.awaken = m.awaken
          /\ n.due = m.due /\ n.delayed = m.delayed
      BY <1>4, <3>1 DEF MasterOf, Stages
    <3> QED BY <1>4, <3>1, <3>2 DEF Waiting, Awaits
  <2> QED BY <2>1, <2>2, <2>3, <2>4, <2>5, <2>6 DEF WaitForever
<1>8. n.at \notin Early \cup {"broken", "after", "joined"} \cup {"unbind", "terminate"}
  BY <1>7 DEF Waiting, Early
<1>9. Phases'
  BY <1>1, <1>3, <1>5, <1>7, <1>8 DEF Phases
<1>10. master'.next = 1 /\ master'.at \notin {"after", "joined"}
  BY <1>3, <1>5, <1>7, <1>8
<1>11. master' \in MasterOf /\ inbox' \in SUBSET Signals /\ lines' \in Nat
  BY <1>1, <1>3, <1>7 DEF PreforkTypes
<1>12. Awaits(m) \in Int /\ Awaits(n) \in Int
  BY <1>4, <1>7 DEF Awaits, MasterOf
<1>13. Awaits(master') + Pending(inbox') - lines'
           <= Awaits(master) + Pending(inbox) - lines
  <2>1. Pending(inbox) \in Int /\ lines \in Int
    BY <1>1, MasterFacts DEF PreforkTypes
  <2> QED BY <1>1, <1>2, <1>3, <1>7, <1>12, <2>1
<1>14. master.running
  BY <1>2, <1>5
<1> QED BY <1>1, <1>9, <1>10, <1>11, <1>13, <1>14, ParentMoves

\* No call waits, and none comes, while the parent does not run.
LEMMA AtRest ==
    ASSUME PreforkInv, master.at \notin Waiting \cup {"broken"}
    PROVE  ~master.running
  BY DEF PreforkInv, Phases

LEMMA ForkChildStep ==
    ASSUME PreforkInv, races' = races, ForkChild
    PROVE  PreforkInv'
<1>1. /\ PreforkTypes /\ Phases /\ master.at = "fork" /\ master.forked < Processes
      /\ master' = [master EXCEPT !.forked = @ + 1]
      /\ kid' = [kid EXCEPT ![master.forked + 1].at = "born"]
      /\ UNCHANGED <<races, inbox, lines, commands>>
  BY DEF ForkChild, PreforkInv
<1>2. PICK k : k = master.forked + 1
  OBVIOUS
<1>3. k \in Kids /\ k \in 0 .. Processes
  <2>1. master.forked \in 0 .. Processes /\ Processes \in Nat
    BY <1>1, MasterFacts, KidsFacts
  <2> QED BY <1>1, <1>2, <2>1 DEF Kids
<1>4. PICK m : m = master
  OBVIOUS
<1>5. m \in MasterOf
  BY <1>1, <1>4 DEF PreforkTypes
<1>6. PICK n : n = [m EXCEPT !.forked = k]
  OBVIOUS
<1>7. /\ n \in MasterOf /\ n.at = m.at /\ n.running = m.running
      /\ n.awaken = m.awaken /\ n.delayed = m.delayed /\ n.due = m.due
      /\ n.next = m.next
  BY <1>3, <1>5, <1>6 DEF MasterOf
<1>8. master' = n
  BY <1>1, <1>2, <1>4, <1>5, <1>6 DEF MasterOf
<1>9. PICK x : x = kid[k]
  OBVIOUS
<1>10. PICK y : y = [x EXCEPT !.at = "born"]
  OBVIOUS
<1>11. kid \in [Kids -> KidOf] /\ y \in KidOf /\ y.at = "born"
  BY <1>1, <1>3, <1>9, <1>10 DEF PreforkTypes, KidOf, KidStages
<1>12. /\ kid' \in [Kids -> KidOf] /\ kid'[k].at = "born"
       /\ \A j \in Kids \ {k} : kid'[j] = kid[j]
  <2>1. kid' = [kid EXCEPT ![k] = y]
    BY <1>1, <1>2, <1>3, <1>9, <1>10, <1>11
  <2> QED BY <1>3, <1>11, <2>1
<1>13. PreforkTypes' /\ Phases'
  BY <1>1, <1>4, <1>7, <1>8, <1>12 DEF PreforkTypes, Phases
<1>14. Reaped'
  <2>1. master'.next = 1 /\ master'.at = "fork"
    BY <1>1, <1>4, <1>7, <1>8 DEF Phases, Early
  <2> QED BY <2>1, KidsFacts DEF Reaped, Joined
<1>15. Covered'
  <2>1. PICK q : q = kid
    OBVIOUS
  <2>2. PICK r : r = kid'
    OBVIOUS
  <2>3. OneKid(q, r, k)
    BY <1>12, <2>1, <2>2 DEF OneKid
  <2>4. Rewritten(q, r, k)
    BY <1>3, <2>3, WritersOne
  <2>5. Writers(kid') <= Writers(kid) /\ Writers(kid) \in Int /\ Writers(kid') \in Int
    BY <1>12, <2>1, <2>2, <2>4, WritersNat DEF Rewritten
  <2>6. /\ Awaits(master') = Awaits(master) /\ Awaits(master) \in Int
        /\ Pending(inbox') = Pending(inbox) /\ Pending(inbox) \in Int
        /\ lines' = lines /\ lines \in Int
    BY <1>1, <1>4, <1>7, <1>8, MasterFacts DEF Awaits, PreforkTypes
  <2>7. Awaits(master) + Pending(inbox) + Writers(kid) <= lines
    BY <1>1 DEF PreforkInv, Covered, Early
  <2> QED BY <2>5, <2>6, <2>7 DEF Covered
<1> QED BY <1>13, <1>14, <1>15 DEF PreforkInv

LEMMA OnCommandStep ==
    ASSUME PreforkInv, races' = races, OnCommand
    PROVE  PreforkInv'
<1>1. /\ PreforkTypes /\ Phases /\ master.at = "calls" /\ master.due > 0 /\ lines > 0
      /\ master' = [master EXCEPT !.due = @ - 1] /\ lines' = lines - 1
      /\ UNCHANGED <<races, inbox, commands, kid>>
  BY DEF OnCommand, PreforkInv
<1>2. PICK m : m = master
  OBVIOUS
<1>3. m \in MasterOf /\ lines \in Nat
  BY <1>1, <1>2 DEF PreforkTypes
<1>4. PICK due : due = m.due - 1
  OBVIOUS
<1>5. due \in Nat /\ m.due \in Nat /\ m.delayed \in Nat
  BY <1>1, <1>2, <1>3, <1>4 DEF MasterOf
<1>6. PICK n : n = [m EXCEPT !.due = due]
  OBVIOUS
<1>7. /\ n \in MasterOf /\ n.at = m.at /\ n.running = m.running
      /\ n.awaken = m.awaken /\ n.delayed = m.delayed /\ n.due = due
      /\ n.next = m.next
  BY <1>3, <1>5, <1>6 DEF MasterOf
<1>8. master' = n
  BY <1>1, <1>2, <1>3, <1>4, <1>6 DEF MasterOf
<1>9. Phases'
  BY <1>1, <1>2, <1>7, <1>8 DEF Phases, Early
<1>10. master'.next = 1 /\ master'.at \notin {"after", "joined"} /\ master.running
  BY <1>1, <1>2, <1>7, <1>8 DEF Phases, Waiting
<1>11. /\ Awaits(master') = due + m.delayed /\ Awaits(master) = m.due + m.delayed
       /\ Pending(inbox) \in Int
  <2>1. master' = n /\ n.at = "calls" /\ m.at = "calls"
    BY <1>1, <1>2, <1>7, <1>8
  <2>2. Awaits(n) = due + m.delayed
    BY <1>7, <2>1 DEF Awaits
  <2>3. Awaits(m) = m.due + m.delayed
    BY <2>1 DEF Awaits
  <2>4. Pending(inbox) \in Int
    BY <1>1, MasterFacts
  <2> QED BY <1>2, <2>1, <2>2, <2>3, <2>4
<1>12. Awaits(master') + Pending(inbox') - lines'
           <= Awaits(master) + Pending(inbox) - lines
  BY <1>1, <1>3, <1>4, <1>5, <1>11
<1>13. master' \in MasterOf /\ inbox' \in SUBSET Signals /\ lines' \in Nat
  BY <1>1, <1>3, <1>7, <1>8 DEF PreforkTypes
<1> QED BY <1>1, <1>9, <1>10, <1>12, <1>13, ParentMoves

LEMMA UnbindSignalsStep ==
    ASSUME PreforkInv, races' = races, UnbindSignals
    PROVE  PreforkInv'
<1>1. /\ PreforkTypes /\ Phases /\ master.at = "unbind" /\ Go("terminate")
      /\ inbox' = inbox \ {"TERM"} /\ UNCHANGED <<races, lines, commands, kid>>
  BY DEF UnbindSignals, Rebind, PreforkInv
<1>2. /\ master' \in MasterOf /\ master'.at = "terminate"
      /\ master'.running = master.running /\ master'.next = master.next
  BY <1>1, GoFacts DEF Stages
<1>3. ~master.running /\ master.next = 1 /\ "ALRM" \notin inbox
  BY <1>1, AtRest DEF Phases, Waiting
<1>4. Phases'
  BY <1>1, <1>2, <1>3 DEF Phases, Waiting, Early
<1>5. ~(master'.running \/ master'.at \in Early)
  BY <1>2, <1>3 DEF Early
<1>6. inbox' \in SUBSET Signals /\ lines' \in Nat
  BY <1>1 DEF PreforkTypes
<1>7. master'.next = 1 /\ master'.at \notin {"after", "joined"}
  BY <1>2, <1>3
<1> QED BY <1>1, <1>2, <1>4, <1>5, <1>6, <1>7, ParentMoves

LEMMA TerminateStep ==
    ASSUME PreforkInv, races' = races, Terminate
    PROVE  PreforkInv'
<1>1. /\ PreforkTypes /\ Phases /\ master.at = "terminate" /\ Go("timer")
      /\ kid' = [k \in Kids |-> IF kid[k].at \in {"run", "wrote"}
                                THEN [kid[k] EXCEPT !.told = TRUE] ELSE kid[k]]
      /\ UNCHANGED <<races, inbox, lines, commands>>
  BY DEF Terminate, PreforkInv
<1>2. /\ master' \in MasterOf /\ master'.at = "timer"
      /\ master'.running = master.running /\ master'.next = master.next
  BY <1>1, GoFacts DEF Stages
<1>3. ~master.running /\ master.next = 1 /\ "ALRM" \notin inbox
  BY <1>1, AtRest DEF Phases, Waiting
<1>4. ASSUME NEW k \in Kids  PROVE kid'[k] \in KidOf
  <2>1. PICK x : x = kid[k]
    OBVIOUS
  <2>2. x \in KidOf
    BY <1>1, <2>1 DEF PreforkTypes
  <2>3. [x EXCEPT !.told = TRUE] \in KidOf
    BY <2>2 DEF KidOf
  <2> QED BY <1>1, <2>1, <2>2, <2>3
<1>5. PreforkTypes'
  <2>1. kid' \in [Kids -> KidOf]
    BY <1>1, <1>4
  <2> QED BY <1>1, <1>2, <2>1 DEF PreforkTypes
<1>6. Phases'
  BY <1>1, <1>2, <1>3 DEF Phases, Waiting, Early
<1>7. Reaped'
  BY <1>2, <1>3, KidsFacts DEF Reaped, Joined
<1>8. Covered'
  BY <1>2, <1>3 DEF Covered, Early
<1> QED BY <1>5, <1>6, <1>7, <1>8 DEF PreforkInv

LEMMA JoinNextStep ==
    ASSUME PreforkInv, races' = races, JoinNext
    PROVE  PreforkInv'
<1>1. /\ PreforkTypes /\ Phases /\ master.at \in {"timer", "after"} /\ "ALRM" \notin inbox
      /\ UNCHANGED <<races, inbox, lines, commands, kid>>
  BY DEF JoinNext, PreforkInv
<1>2. ~master.running
  BY <1>1, AtRest DEF Waiting
<1>3. PICK m : m = master
  OBVIOUS
<1>4. m \in MasterOf /\ m.next \in Kids
  BY <1>1, <1>3 DEF PreforkTypes, MasterOf
<1>5. PICK n : n = master'
  OBVIOUS
<1>6. \/ m.at = "timer" /\ n = [m EXCEPT !.at = "wait"]
      \/ m.at = "after" /\ m.next = Processes /\ n = [m EXCEPT !.at = "joined"]
      \/ m.at = "after" /\ m.next # Processes
         /\ n = [m EXCEPT !.at = "timer", !.next = @ + 1]
  BY <1>1, <1>3, <1>5 DEF JoinNext, Go
<1>7. \/ m.at = "timer" /\ n.at = "wait" /\ n.next = m.next
         /\ n.running = m.running /\ n \in MasterOf
      \/ m.at = "after" /\ m.next = Processes /\ n.at = "joined" /\ n.next = m.next
         /\ n.running = m.running /\ n \in MasterOf
      \/ m.at = "after" /\ m.next # Processes /\ n.at = "timer" /\ n.next = m.next + 1
         /\ n.running = m.running /\ n \in MasterOf
  <2>1. CASE m.at = "timer" /\ n = [m EXCEPT !.at = "wait"]
    BY <1>4, <2>1 DEF MasterOf, Stages
  <2>2. CASE m.at = "after" /\ m.next = Processes /\ n = [m EXCEPT !.at = "joined"]
    BY <1>4, <2>2 DEF MasterOf, Stages
  <2>3. CASE m.at = "after" /\ m.next # Processes
             /\ n = [m EXCEPT !.at = "timer", !.next = @ + 1]
    <3>1. PICK next \in Kids : next = m.next + 1
      BY <1>4, <2>3, KidsFacts
    <3>2. n = [m EXCEPT !.at = "timer", !.next = next]
      BY <1>4, <2>3, <3>1 DEF MasterOf
    <3> QED BY <1>4, <2>3, <3>1, <3>2 DEF MasterOf, Stages
  <2> QED BY <1>6, <2>1, <2>2, <2>3
<1>8. ASSUME NEW k \in Kids, Joined(k)'  PROVE Joined(k)
  <2>1. m.next \in Nat /\ k \in Nat /\ k <= Processes /\ Processes \in Nat
    BY <1>4, KidsFacts
  <2> QED BY <1>3, <1>5, <1>7, <1>8, <2>1 DEF Joined
<1>9. Phases'
  BY <1>1, <1>2, <1>3, <1>5, <1>7 DEF Phases, Waiting, Early
<1>10. ~(master'.running \/ master'.at \in Early)
  BY <1>2, <1>3, <1>5, <1>7 DEF Early
<1>11. master' \in MasterOf /\ inbox' \in SUBSET Signals /\ lines' \in Nat
  BY <1>1, <1>5, <1>7 DEF PreforkTypes
<1> QED BY <1>1, <1>8, <1>9, <1>10, <1>11, ParentMoves

\* The child that the parent waits for ends, or is joined.
LEMMA ChildDone ==
    ASSUME PreforkInv, races' = races, UNCHANGED <<lines, commands>>,
           inbox' \in SUBSET Signals, ~master.running,
           master.at \notin {"after", "joined"}, NEW y \in KidOf,
           kid' = [kid EXCEPT ![master.next] = y],
           master' \in MasterOf, ~master'.running, master'.next = master.next,
           \/ y.at = "reaped" /\ master'.at = "after"
           \/ master'.at = "kill",
           "ALRM" \in inbox' => master'.at = "after" /\ races
    PROVE  PreforkInv'
<1>1. kid \in [Kids -> KidOf] /\ master.next \in Kids
  BY MasterFacts DEF PreforkInv, PreforkTypes
<1>2. /\ kid' \in [Kids -> KidOf] /\ kid'[master.next] = y
      /\ \A j \in Kids \ {master.next} : kid'[j] = kid[j]
  BY <1>1
<1>3. PreforkTypes'
  BY <1>2 DEF PreforkInv, PreforkTypes
<1>4. Phases'
  BY DEF Phases, Waiting, Early
<1>5. Reaped'
  <2> SUFFICES ASSUME NEW k \in Kids, Joined(k)'  PROVE kid'[k].at = "reaped"
    BY DEF Reaped
  <2>1. k \in Nat /\ master.next \in Nat
    BY <1>1, KidsFacts
  <2>2. CASE k < master.next
    BY <1>2, <2>1, <2>2 DEF PreforkInv, Reaped, Joined
  <2>3. CASE ~(k < master.next)
    BY <1>2, <2>1, <2>3 DEF Joined
  <2> QED BY <2>2, <2>3
<1>6. Covered'
  BY DEF Covered, Early
<1> QED BY <1>3, <1>4, <1>5, <1>6 DEF PreforkInv

LEMMA JoinStep ==
    ASSUME PreforkInv, races' = races, Join
    PROVE  PreforkInv'
<1>1. /\ PreforkTypes /\ master.at \in {"wait", "kill"} /\ Go("after")
      /\ ("ALRM" \in inbox => races) /\ UNCHANGED <<inbox, lines, commands>>
      /\ kid' = [kid EXCEPT ![master.next].at = "reaped"]
  BY DEF Join, Reap, PreforkInv
<1>2. /\ master' \in MasterOf /\ master'.at = "after"
      /\ master'.running = master.running /\ master'.next = master.next
  BY <1>1, GoFacts DEF Stages
<1>3. ~master.running
  BY <1>1, AtRest DEF Waiting
<1>4. kid \in [Kids -> KidOf] /\ master.next \in Kids /\ inbox' \in SUBSET Signals
  BY <1>1, MasterFacts DEF PreforkTypes
<1>5. PICK x : x = kid[master.next]
  OBVIOUS
<1>6. PICK y : y = [x EXCEPT !.at = "reaped"]
  OBVIOUS
<1>7. y \in KidOf /\ y.at = "reaped"
  BY <1>4, <1>5, <1>6 DEF KidOf, KidStages
<1>8. kid' = [kid EXCEPT ![master.next] = y]
  BY <1>1, <1>4, <1>5, <1>6
<1> QED BY <1>1, <1>2, <1>3, <1>4, <1>7, <1>8, ChildDone

LEMMA OnAlarmStep ==
    ASSUME PreforkInv, races' = races, OnAlarm
    PROVE  PreforkInv'
<1>1. /\ PreforkTypes /\ Phases /\ "ALRM" \in inbox /\ inbox' = inbox \ {"ALRM"}
      /\ UNCHANGED <<races, lines, commands>>
      /\ master.at = "wait" \/ (master.at = "after" /\ races)
  BY DEF OnAlarm, PreforkInv, Phases
<1>2. ~master.running
  BY <1>1, AtRest DEF Waiting
<1>3. /\ kid \in [Kids -> KidOf] /\ master.next \in Kids /\ inbox' \in SUBSET Signals
      /\ lines' \in Nat
  BY <1>1, MasterFacts DEF PreforkTypes
<1>4. CASE master.at = "wait"
  <2>1. /\ Go("kill")
        /\ kid' = [kid EXCEPT ![master.next].at = "dead", ![master.next].killed = TRUE]
    BY <1>4 DEF OnAlarm
  <2>2. /\ master' \in MasterOf /\ master'.at = "kill"
        /\ master'.running = master.running /\ master'.next = master.next
    BY <1>1, <2>1, GoFacts DEF Stages
  <2>3. PICK x : x = kid[master.next]
    OBVIOUS
  <2>4. PICK y : y = [x EXCEPT !.at = "dead", !.killed = TRUE]
    OBVIOUS
  <2>5. y \in KidOf
    BY <1>3, <2>3, <2>4 DEF KidOf, KidStages
  <2>6. kid' = [kid EXCEPT ![master.next] = y]
    BY <1>3, <2>1, <2>3, <2>4
  <2>7. "ALRM" \notin inbox'
    BY <1>1
  <2> QED BY <1>1, <1>2, <1>3, <1>4, <2>2, <2>5, <2>6, <2>7, ChildDone
<1>5. CASE master.at # "wait"
  <2>1. Go("broken") /\ kid' = kid
    BY <1>5 DEF OnAlarm
  <2>2. /\ master' \in MasterOf /\ master'.at = "broken"
        /\ master'.running = master.running /\ master'.next = master.next
    BY <1>1, <2>1, GoFacts DEF Stages
  <2>3. Phases'
    BY <1>1, <1>2, <1>5, <2>2 DEF Phases, Waiting, Early
  <2>4. \A k \in Kids : Joined(k)' => Joined(k)
    BY <2>2 DEF Joined
  <2>5. ~(master'.running \/ master'.at \in Early)
    BY <1>2, <2>2 DEF Early
  <2> QED BY <1>1, <1>3, <2>1, <2>2, <2>3, <2>4, <2>5, ParentMoves
<1> QED BY <1>4, <1>5

\* A signal comes, or is dropped, and the parent goes on.
LEMMA SignalMoves ==
    ASSUME PreforkInv, UNCHANGED <<races, master, lines, commands, kid>>,
           inbox' \in SUBSET Signals,
           Pending(inbox') <= Pending(inbox),
           "ALRM" \in inbox' => master.at = "wait" \/ (master.at = "after" /\ races)
    PROVE  PreforkInv'
<1>1. /\ Phases /\ master \in MasterOf /\ lines \in Nat
  BY DEF PreforkInv, PreforkTypes
<1>2. Phases'
  BY <1>1 DEF Phases
<1>3. \A k \in Kids : Joined(k)' => Joined(k)
  BY DEF Joined
<1>4. master.running \/ master.at \in Early =>
          Awaits(master') + Pending(inbox') - lines'
              <= Awaits(master) + Pending(inbox) - lines
  <2>1. Awaits(master) \in Int /\ Awaits(master') = Awaits(master)
    BY MasterFacts DEF PreforkInv, Awaits
  <2>2. Pending(inbox) \in Int /\ Pending(inbox') \in Int
    BY DEF Pending
  <2> QED BY <1>1, <2>1, <2>2
<1> QED BY <1>1, <1>2, <1>3, <1>4, ParentMoves

LEMMA OnTermStep ==
    ASSUME PreforkInv, races' = races, OnTerm
    PROVE  PreforkInv'
<1>1. /\ PreforkTypes /\ Phases /\ inbox' = inbox \ {"TERM"}
      /\ UNCHANGED <<races, lines, commands, kid>>
  BY DEF OnTerm, PreforkInv
<1>2. /\ inbox' \in SUBSET Signals /\ lines' \in Nat /\ Pending(inbox') = Pending(inbox)
      /\ Pending(inbox) \in Int /\ ("ALRM" \in inbox' => "ALRM" \in inbox)
  BY <1>1 DEF PreforkTypes, Pending
<1>3. CASE ~master.running
  <2>1. master' = master
    BY <1>3 DEF OnTerm
  <2>2. "ALRM" \in inbox' => master.at = "wait" \/ (master.at = "after" /\ races)
    BY <1>1, <1>2 DEF Phases
  <2> QED BY <1>1, <1>2, <2>1, <2>2, SignalMoves
<1>4. CASE master.running
  <2>1. PICK m : m = master
    OBVIOUS
  <2>2. PICK n : n = master'
    OBVIOUS
  <2>3. /\ n = [m EXCEPT !.at = "unbind", !.running = FALSE, !.awaken = "unset",
                         !.stopped = TRUE]
    BY <1>4, <2>1, <2>2 DEF OnTerm
  <2>4. m \in MasterOf /\ m.next = 1
    BY <1>1, <1>4, <2>1 DEF PreforkTypes, Phases
  <2>5. n \in MasterOf /\ n.at = "unbind" /\ n.running = FALSE /\ n.next = m.next
    BY <2>3, <2>4 DEF MasterOf, Stages
  <2>6. "ALRM" \notin inbox'
    BY <1>1, <1>2, <1>4 DEF Phases, Waiting
  <2>7. Phases'
    BY <2>2, <2>4, <2>5, <2>6 DEF Phases, Waiting, Early
  <2>8. /\ master'.next = 1 /\ master'.at \notin {"after", "joined"}
        /\ ~(master'.running \/ master'.at \in Early) /\ master' \in MasterOf
    BY <2>2, <2>4, <2>5 DEF Early
  <2> QED BY <1>1, <1>2, <2>7, <2>8, ParentMoves
<1> QED BY <1>3, <1>4

LEMMA OnUsr1Step ==
    ASSUME PreforkInv, races' = races, OnUsr1
    PROVE  PreforkInv'
<1>1. /\ PreforkTypes /\ Phases /\ "USR1" \in inbox /\ inbox' = inbox \ {"USR1"}
      /\ (master.at = "test" /\ master.awaken = "no" => races)
      /\ UNCHANGED <<races, lines, commands, kid>>
  BY DEF OnUsr1, PreforkInv
<1>2. /\ inbox' \in SUBSET Signals /\ lines \in Nat /\ Pending(inbox') = 0
      /\ Pending(inbox) = 1 /\ ("ALRM" \in inbox' => "ALRM" \in inbox)
  BY <1>1 DEF PreforkTypes, Pending
<1>3. CASE ~master.running
  <2>1. master' = master
    BY <1>3 DEF OnUsr1
  <2>2. "ALRM" \in inbox' => master.at = "wait" \/ (master.at = "after" /\ races)
    BY <1>1, <1>2 DEF Phases
  <2>3. Pending(inbox') <= Pending(inbox)
    BY <1>2
  <2> QED BY <1>1, <1>2, <2>1, <2>2, <2>3, SignalMoves
<1>4. CASE master.running
  <2>1. PICK m : m = master
    OBVIOUS
  <2>2. PICK n : n = master'
    OBVIOUS
  <2>3. /\ m \in MasterOf /\ m.next = 1 /\ m.delayed \in Nat /\ m.due \in Nat
        /\ m.running /\ m.at \in Waiting \cup {"broken"}
        /\ m.at \in {"merge", "clear", "calls"} => m.awaken # "no"
        /\ "ALRM" \notin inbox
    BY <1>1, <1>4, <2>1 DEF PreforkTypes, Phases, MasterOf, Waiting
  <2>4. PICK delayed \in Nat : delayed = m.delayed + 1
    BY <2>3
  <2>5. \/ m.awaken # "no" /\ n = [m EXCEPT !.delayed = delayed]
        \/ m.awaken = "no" /\ m.at = "test"
           /\ n = [m EXCEPT !.delayed = delayed, !.awaken = "yes", !.at = "broken"]
        \/ m.awaken = "no" /\ m.at # "test"
           /\ n = [m EXCEPT !.delayed = delayed, !.awaken = "yes", !.at = "test"]
    <3>1. m.delayed + 1 = delayed
      BY <2>4
    <3>2. n = IF m.awaken # "no" THEN [m EXCEPT !.delayed = m.delayed + 1]
              ELSE [m EXCEPT !.delayed = m.delayed + 1, !.awaken = "yes",
                             !.at = IF m.at = "test" THEN "broken" ELSE "test"]
      BY <1>4, <2>1, <2>2, <2>3 DEF OnUsr1, MasterOf
    <3> QED BY <3>1, <3>2
  <2>6. /\ n \in MasterOf /\ n.running = m.running /\ n.next = m.next /\ n.due = m.due
        /\ n.delayed = delayed
        /\ \/ m.awaken # "no" /\ n.awaken = m.awaken /\ n.at = m.at
           \/ m.awaken = "no" /\ m.at = "test" /\ n.awaken = "yes" /\ n.at = "broken"
           \/ m.awaken = "no" /\ m.at # "test" /\ n.awaken = "yes" /\ n.at = "test"
    <3>1. CASE m.awaken # "no" /\ n = [m EXCEPT !.delayed = delayed]
      BY <2>3, <3>1 DEF MasterOf
    <3>2. CASE m.awaken = "no" /\ m.at = "test"
               /\ n = [m EXCEPT !.delayed = delayed, !.awaken = "yes", !.at = "broken"]
      BY <2>3, <3>2 DEF MasterOf, Stages
    <3>3. CASE m.awaken = "no" /\ m.at # "test"
               /\ n = [m EXCEPT !.delayed = delayed, !.awaken = "yes", !.at = "test"]
      BY <2>3, <3>3 DEF MasterOf, Stages
    <3> QED BY <2>5, <3>1, <3>2, <3>3
  <2>7. Awaits(n) <= Awaits(m) + 1 /\ Awaits(n) \in Int /\ Awaits(m) \in Int
    <3>1. n.at = "clear" <=> m.at = "clear"
      BY <2>3, <2>6
    <3> QED BY <2>3, <2>4, <2>6, <3>1 DEF Awaits
  <2>8. Phases'
    <3>1. m.at = "broken" => races
      BY <1>1, <2>1 DEF Phases
    <3>2. n.at = "broken" => races
      BY <1>1, <2>1, <2>6, <3>1
    <3>3. n.at \in Waiting \cup {"broken"} /\ n.at \notin Early
      BY <2>3, <2>6 DEF Waiting, Early
    <3>4. n.at \in {"merge", "clear", "calls"} => n.awaken # "no"
      BY <2>3, <2>6
    <3> QED BY <1>1, <1>2, <2>2, <2>3, <2>6, <3>2, <3>3, <3>4 DEF Phases
  <2>9. master'.next = 1 /\ master'.at \notin {"after", "joined"} /\ master' \in MasterOf
    BY <2>2, <2>3, <2>6 DEF Waiting
  <2>10. Awaits(master') + Pending(inbox') - lines'
             <= Awaits(master) + Pending(inbox) - lines
    BY <1>1, <1>2, <2>1, <2>2, <2>7
  <2>11. lines' \in Nat
    BY <1>1, <1>2
  <2> QED BY <1>1, <1>2, <1>4, <2>8, <2>9, <2>10, <2>11, ParentMoves
<1> QED BY <1>3, <1>4

LEMMA AlarmStep ==
    ASSUME PreforkInv, races' = races, AlarmRings \/ UserStops
    PROVE  PreforkInv'
<1>1. UNCHANGED <<races, master, lines, commands, kid>> /\ PreforkTypes /\ Phases
  BY DEF AlarmRings, UserStops, PreforkInv
<1>2. inbox' \in SUBSET Signals /\ Pending(inbox') = Pending(inbox)
  BY <1>1 DEF AlarmRings, UserStops, Signal, Signals, PreforkTypes, Pending
<1>3. "ALRM" \in inbox' => master.at = "wait" \/ (master.at = "after" /\ races)
  BY <1>1 DEF AlarmRings, UserStops, Signal, Phases
<1>4. Pending(inbox') <= Pending(inbox)
  BY <1>2 DEF Pending
<1> QED BY <1>1, <1>2, <1>3, <1>4, SignalMoves

LEMMA ChildStep ==
    ASSUME PreforkInv, races' = races, NEW k \in Kids,
           OnChild(k) \/ PipeWrite(k) \/ PipeSignal(k) \/ ChildTerm(k) \/ ChildExit(k)
    PROVE  PreforkInv'
<1>1. /\ master' = master /\ inbox \in SUBSET Signals /\ lines \in Nat /\ commands \in Nat
      /\ Pending(inbox) \in {0, 1}
  BY MasterFacts DEF OnChild, PipeWrite, PipeSignal, ChildTerm, ChildExit, PreforkInv,
                     PreforkTypes
<1>2. PICK s \in KidStages :
          /\ kid' = [kid EXCEPT ![k].at = s] /\ kid[k].at # "reaped"
          /\ \/ s # "wrote" /\ UNCHANGED <<inbox, lines, commands>>
             \/ s = "wrote" /\ inbox' = inbox /\ lines' = lines + 1
                /\ commands' = commands + 1
             \/ s = "run" /\ kid[k].at = "wrote" /\ Signal("USR1")
                /\ UNCHANGED <<lines, commands>>
  BY DEF OnChild, PipeWrite, PipeSignal, ChildTerm, ChildExit, KidStages
<1>3. /\ inbox' \in SUBSET Signals /\ lines' \in Nat /\ commands' \in Nat
      /\ "ALRM" \in inbox' <=> "ALRM" \in inbox
  BY <1>1, <1>2 DEF Signal, Signals
<1>4. Pending(inbox') - lines' + (IF s = "wrote" THEN 1 ELSE 0)
          <= Pending(inbox) - lines + (IF kid[k].at = "wrote" THEN 1 ELSE 0)
  <2>1. Pending(inbox') \in {0, 1}
    BY DEF Pending
  <2>2. CASE s # "wrote" /\ UNCHANGED <<inbox, lines, commands>>
    BY <1>1, <2>2
  <2>3. CASE s = "wrote" /\ inbox' = inbox /\ lines' = lines + 1
    BY <1>1, <2>3
  <2>4. CASE s = "run" /\ kid[k].at = "wrote" /\ lines' = lines
    BY <1>1, <2>1, <2>4
  <2> QED BY <1>2, <2>2, <2>3, <2>4
<1> QED BY <1>1, <1>2, <1>3, <1>4, KidMoves

LEMMA PreforkInvInit == PreforkInit => PreforkInv
<1> SUFFICES ASSUME PreforkInit  PROVE PreforkInv
  OBVIOUS
<1>1. /\ races \in BOOLEAN /\ inbox = {} /\ lines = 0 /\ commands = 0
      /\ master = [at |-> "fork", forked |-> 0, running |-> FALSE,
                   awaken |-> "unset", delayed |-> 0, due |-> 0, next |-> 1,
                   stopped |-> FALSE]
      /\ kid = [k \in Kids |-> [at |-> "none", told |-> FALSE, killed |-> FALSE]]
  BY DEF PreforkInit
<1>2. 0 \in 0 .. Processes /\ 1 \in Kids
  BY KidsFacts
<1>3. master \in MasterOf
  BY <1>1, <1>2 DEF MasterOf, Stages
<1>4. kid \in [Kids -> KidOf]
  BY <1>1 DEF KidOf, KidStages
<1>5. PreforkTypes /\ Phases
  BY <1>1, <1>3, <1>4 DEF PreforkTypes, Phases, Waiting, Early
<1>6. Reaped
  BY <1>1, KidsFacts DEF Reaped, Joined
<1>7. Covered
  <2>1. {k \in Kids : kid[k].at = "wrote"} = {}
    BY <1>1
  <2>2. Writers(kid) = 0
    BY <2>1, FS_EmptySet DEF Writers
  <2> QED BY <1>1, <2>2 DEF Covered, Awaits, Pending
<1> QED BY <1>5, <1>6, <1>7 DEF PreforkInv

LEMMA PreforkInvStep == PreforkInv /\ [PreforkNext]_preforkVars => PreforkInv'
<1> SUFFICES ASSUME PreforkInv, [PreforkNext]_preforkVars  PROVE PreforkInv'
  OBVIOUS
<1>1. CASE UNCHANGED races /\ ParentStep
  BY <1>1, ForkChildStep, PrepareStep, WaitForeverStep, OnCommandStep,
     UnbindSignalsStep, TerminateStep, JoinNextStep, JoinStep DEF ParentStep
<1>2. CASE UNCHANGED races /\ (Handlers \/ AlarmRings \/ UserStops)
  BY <1>2, OnTermStep, OnUsr1Step, OnAlarmStep, AlarmStep DEF Handlers
<1>3. ASSUME NEW k \in Kids, UNCHANGED races,
             OnChild(k) \/ PipeWrite(k) \/ PipeSignal(k) \/ ChildTerm(k) \/ ChildExit(k)
      PROVE  PreforkInv'
  BY <1>3, ChildStep
<1>4. CASE UNCHANGED preforkVars
  BY <1>4 DEF preforkVars, PreforkInv, PreforkTypes, Phases, Reaped, Joined, Covered
<1> QED BY <1>1, <1>2, <1>3, <1>4 DEF PreforkNext, ParentGoes

LEMMA PreforkInvSafe == PreforkInv => PreforkSafety
<1> SUFFICES ASSUME PreforkInv  PROVE PreforkSafety
  OBVIOUS
<1>1. PreforkTypes /\ Phases /\ Reaped /\ Covered
  BY DEF PreforkInv
<1>2. PreforkTypeOK
  <2>1. \A k \in Kids : kid[k].at \in KidStages
    BY <1>1 DEF PreforkTypes, KidOf
  <2> QED BY <1>1, <2>1, MasterFacts DEF PreforkTypes, PreforkTypeOK, KidStages
<1>3. NeverBlocks
  <2> SUFFICES ASSUME master.at = "calls"  PROVE master.due <= lines
    BY DEF NeverBlocks
  <2>1. /\ master.due \in Nat /\ master.delayed \in Nat /\ lines \in Nat
        /\ Pending(inbox) \in {0, 1} /\ Writers(kid) \in Nat
    BY <1>1, MasterFacts DEF PreforkTypes
  <2>2. master.due + master.delayed + Pending(inbox) + Writers(kid) <= lines
    BY <1>1 DEF Covered, Awaits, Phases, Waiting
  <2> QED BY <2>1, <2>2
<1>4. JoinedAll /\ OneAlarm /\ Caught
  BY <1>1 DEF Reaped, Joined, Phases, JoinedAll, OneAlarm, Caught
<1> QED BY <1>2, <1>3, <1>4 DEF PreforkSafety

\* Wherever a signal is handled and however many are lost, the parent reads no
\* more lines than there are in the pipe, leaves fork() when every child was
\* joined, and is never left by an error but in the two places that are known
\* (fork(), _wait_forever(), the pipe and the handlers of base/common.py).
THEOREM PreforkSafe == PreforkInit /\ [][PreforkNext]_preforkVars => []PreforkSafety
<1>1. PreforkInit /\ [][PreforkNext]_preforkVars => []PreforkInv
  BY PreforkInvInit, PreforkInvStep, PTL
<1> QED BY <1>1, PreforkInvSafe, PTL

=============================================================================
