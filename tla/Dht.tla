-------------------------------- MODULE Dht ---------------------------------
(***************************************************************************)
(* The DatagramClient of base/client.py and the iterative lookups that     *)
(* DHTClient (clients/dht.py) makes with it: requests with a timeout, kept *)
(* in a list and by an identifier that wraps, a queue of datagrams over a  *)
(* socket that may refuse them, and a network that loses, repeats and      *)
(* reorders them.  A node of the network is its identifier and contact.    *)
(*                                                                         *)
(* The list, the map, the queue and the routing table belong to the thread *)
(* of the loop.                                                            *)
(***************************************************************************)
EXTENDS Integers, Sequences, SequencesExt, FiniteSetsExt, Functions, Bitwise

CONSTANTS Nodes,       \* peer identifiers
          Own,         \* the identifier of the client
          Target,      \* what the lookups look for
          Valid,       \* the nodes with a contact that can be used
          Knows,       \* the nodes that each node answers with
          Bootstrap,   \* the contacts a lookup may be given
          BucketSize, IdModulus,
          Timeout, GcTimeout,   \* in ticks of the clock
          MaxLookups, MaxRepeats, MaxRaises

ASSUME DhtAssumption ==
    /\ Nodes \subseteq Nat /\ Own \in Nat /\ Target \in Nat
    /\ Valid \subseteq Nodes /\ Knows \in [Nodes -> Seq(Nodes)]
    /\ Bootstrap \in Seq(Nodes)
    /\ \A k \in {BucketSize, IdModulus, Timeout, GcTimeout} : k \in Nat \ {0}

VARIABLES
    routing,    \* buckets of the routing table, by index
    requests,   \* `requests`: identifier, serial, lookup, node, time left
    byId,       \* `requests_m`
    serial,     \* requests made: IDENTIFIER is it modulo IdModulus
    queried,    \* nodes asked, of each lookup
    sending,    \* `pending` of the client, `wready`, a flush delayed, if there
                \* is a socket, and if it is subscribed for writes
    gcLeft,     \* time left to the next keep_gc()
    network,    \* datagrams under way
    learnt,   \* history: the nodes whose answer was handled, of each lookup
    settled,    \* history: times a callback was called, of each request
    spent       \* repeats and exceptions so far

dhtVars == <<routing, requests, byId, serial, queried, sending, gcLeft,
             network, learnt, settled, spent>>

DhtInit ==
    /\ routing = <<>> /\ requests = <<>> /\ byId = <<>> /\ serial = 0
    /\ queried = <<>> /\ learnt = <<>> /\ settled = <<>>
    /\ sending = [queue |-> <<>>, wready |-> TRUE, flush |-> FALSE,
                  socket |-> FALSE, subscribed |-> FALSE]
    /\ gcLeft = GcTimeout
    /\ network = {} /\ spent = [repeats |-> 0, raises |-> 0]

-----------------------------------------------------------------------------
(* The routing table.                                                      *)

Bucket(n) ==
    LET distance == Own ^^ n
    IN  IF distance = 0 THEN 0
        ELSE CHOOSE k \in 0 .. distance :
                 2 ^ k <= distance /\ distance < 2 ^ (k + 1)

Held(t) == UNION {Range(t[k]) : k \in DOMAIN t}

\* add(): a node that is there, or whose bucket is full, is left out
Add(t, n) ==
    LET k == Bucket(n)
        bucket == IF k \in DOMAIN t THEN t[k] ELSE <<>>
    IN  IF n \in Range(bucket) \/ Len(bucket) >= BucketSize THEN t
        ELSE [i \in DOMAIN t \cup {k} |-> IF i = k THEN Append(bucket, n)
                                                  ELSE t[i]]

\* closest(): the first of those sorted by distance
Closest(t) ==
    LET sorted == SetToSortSeq(Held(t), LAMBDA m, n : m ^^ Target < n ^^ Target)
    IN  SubSeq(sorted, 1, Min({Len(sorted), BucketSize}))

-----------------------------------------------------------------------------
(* Requests.  What one handler does to the client is c.                    *)

Client == [requests |-> requests, byId |-> byId, serial |-> serial,
           queried |-> queried, sending |-> sending, settled |-> settled]

\* sub_write(), of the thread of the loop or delayed to it
EnsureWrites(s) == [s EXCEPT !.subscribed = TRUE]

\* sub_all() is for reads and writes
EnsureSocket(s) == IF s.socket THEN s ELSE [s EXCEPT !.socket = TRUE, !.subscribed = TRUE]

\* send(): a flush is delayed, once, or the writes of the socket are subscribed
Sent(s, datagram) ==
    LET t == [s EXCEPT !.queue = Append(@, datagram)]
    IN  IF s.wready THEN [t EXCEPT !.flush = TRUE] ELSE EnsureWrites(t)

\* query() and add_request(), unless the contact is not valid or was asked
Query(c, l, n) ==
    IF n \notin Valid \/ n \in c.queried[l] THEN c
    ELSE LET id == (c.serial + 1) % IdModulus
             request == [id |-> id, serial |-> c.serial + 1, lookup |-> l,
                         node |-> n, left |-> Timeout]
         IN  [c EXCEPT
                !.requests = Append(@, request),
                !.byId = [i \in DOMAIN @ \cup {id} |->
                              IF i = id THEN request ELSE @[i]],
                !.serial = @ + 1,
                !.queried[l] = @ \cup {n},
                !.settled = Append(@, 0),
                !.sending = Sent(@, [kind |-> "query", node |-> n, id |-> id,
                                     serial |-> c.serial + 1])]

QueryAll(c, l, nodes) == FoldLeft(LAMBDA s, n : Query(s, l, n), c, nodes)

\* mutant of Removed: what the identifier stands for is kept
RemovedInList(c, request) ==
    [c EXCEPT !.requests = SelectSeq(@, LAMBDA r : r # request),
              !.settled[request.serial] = @ + 1]

Removed(c, request) ==
    [c EXCEPT !.requests = SelectSeq(@, LAMBDA r : r # request),
              !.byId = [i \in DOMAIN @ \ {request.id} |-> @[i]],
              !.settled[request.serial] = @ + 1]

\* fewer than IdModulus requests are made while one waits
Fits(c) ==
    \A i \in DOMAIN c.requests : c.serial - c.requests[i].serial < IdModulus

DhtBecomes(c) ==
    /\ Fits(c)
    /\ requests' = c.requests /\ byId' = c.byId /\ serial' = c.serial
    /\ queried' = c.queried /\ sending' = c.sending /\ settled' = c.settled

\* lookup() with the contacts it is given, the closest that are known, or
\* those of the bootstrap
Lookup(nodes) ==
    /\ Len(queried) < MaxLookups
    /\ LET c == [Client EXCEPT !.queried = Append(@, {})]
           from == IF nodes # <<>> THEN nodes
                   ELSE IF Closest(routing) # <<>> THEN Closest(routing)
                   ELSE Bootstrap
       IN  DhtBecomes(QueryAll(c, Len(c.queried), from))
    /\ learnt' = Append(learnt, {})
    /\ UNCHANGED <<routing, gcLeft, network, spent>>

\* on_data(): an answer that no request waits for is dropped.  The callback of
\* the user comes before the nodes of the answer are asked, and may raise.
\* What is told later than IdModulus requests after is not.
Receive(datagram, raises) ==
    /\ datagram \in network /\ datagram.kind = "answer"
    /\ serial - datagram.serial < IdModulus
    /\ network' = network \ {datagram}
    /\ IF datagram.id \in DOMAIN byId
       THEN LET request == byId[datagram.id]
                l == request.lookup
                c == Removed(Client, request)
                told == IF raises THEN <<>> ELSE Knows[datagram.node]
            IN  /\ raises => spent.raises < MaxRaises
                /\ DhtBecomes(QueryAll(c, l, told))
                /\ routing' = FoldLeft(Add, routing, told)
                /\ learnt' = IF raises THEN learnt
                               ELSE [learnt EXCEPT ![l] =
                                         @ \cup {<<request.node, datagram.node>>}]
                /\ spent' = IF raises THEN [spent EXCEPT !.raises = @ + 1]
                                      ELSE spent
       ELSE /\ ~raises
            /\ UNCHANGED <<routing, requests, byId, serial, queried, sending,
                           learnt, settled, spent>>
    /\ UNCHANGED gcLeft

\* keep_gc() and gc(): the requests at the head that are over are removed, and
\* their callbacks called with None
Gc ==
    /\ gcLeft = 0 /\ gcLeft' = GcTimeout
    /\ LET over == {i \in DOMAIN requests :
                        \A j \in 1 .. i : requests[j].left = 0}
       IN  DhtBecomes(FoldLeft(Removed, Client,
                            SubSeq(requests, 1, Cardinality(over))))
    /\ UNCHANGED <<routing, network, learnt, spent>>

\* the loop runs what is due before the clock goes on
Tick ==
    /\ gcLeft > 0 /\ gcLeft' = gcLeft - 1
    /\ LET Less(r) == [r EXCEPT !.left = Max({@ - 1, 0})]
       IN  /\ requests' = [i \in DOMAIN requests |-> Less(requests[i])]
           /\ byId' = [i \in DOMAIN byId |-> Less(byId[i])]
    /\ UNCHANGED <<routing, serial, queried, sending, network, learnt,
                   settled, spent>>

-----------------------------------------------------------------------------
(* Datagrams.                                                              *)

\* _send(): the socket takes k datagrams, and refuses the next one, if there is
\* one, which is then the first again
Send(s, k) ==
    LET rest == SubSeq(s.queue, k + 1, Len(s.queue))
        t == [s EXCEPT !.queue = rest, !.wready = rest = <<>>]
    IN  IF rest = <<>> THEN [t EXCEPT !.subscribed = FALSE] ELSE EnsureWrites(t)

Sends(s, k) ==
    /\ k <= Len(s.queue) /\ sending' = Send(s, k)
    /\ network' = network \cup Range(SubSeq(s.queue, 1, k))
    /\ UNCHANGED <<routing, requests, byId, serial, queried, gcLeft, learnt,
                   settled, spent>>

\* _flush_write(), which the loop calls; the first one makes the socket
FlushWrite(k) ==
    sending.flush /\ Sends([EnsureSocket(sending) EXCEPT !.flush = FALSE], k)

\* on_write(): what the socket refuses again is not an error
OnWrite(k) == sending.socket /\ sending.subscribed /\ Sends(sending, k)

\* on_read(): each datagram goes to on_data(); an exception ends the reading, is
\* logged, and leaves the others to the next event
OnRead ==
    /\ sending.socket
    /\ \E d \in network, raises \in BOOLEAN : Receive(d, raises)

\* a node answers what it is asked; what it is asked may come again
Respond(datagram, again) ==
    /\ datagram \in network /\ datagram.kind = "query"
    /\ again => spent.repeats < MaxRepeats
    /\ spent' = IF again THEN [spent EXCEPT !.repeats = @ + 1] ELSE spent
    /\ network' = (IF again THEN network ELSE network \ {datagram})
                  \cup {[datagram EXCEPT !.kind = "answer"]}
    /\ UNCHANGED <<routing, requests, byId, serial, queried, sending, gcLeft,
                   learnt, settled>>

DhtNext ==
    \/ Lookup(Bootstrap) \/ Lookup(<<>>)
    \/ Gc \/ Tick
    \/ \E k \in 0 .. Len(sending.queue) : FlushWrite(k) \/ OnWrite(k)
    \/ OnRead
    \/ \E d \in network, again \in BOOLEAN : Respond(d, again)

\* The clock goes on and the loop calls what is due.  Nothing of the network is
\* fair: a datagram that stays in it is lost.
DhtFairness == WF_dhtVars(Gc) /\ WF_dhtVars(Tick)

-----------------------------------------------------------------------------
(* Properties.                                                             *)

\* The list and the map are the same requests, oldest first, and each request
\* is in them until its callback is called, once (add_request(), gc()).
Outstanding ==
    /\ DOMAIN byId = {requests[i].id : i \in DOMAIN requests}
    /\ \A i \in DOMAIN requests :
           /\ byId[requests[i].id] = requests[i]
           /\ \A j \in 1 .. i : requests[j].left <= requests[i].left
    /\ \A s \in DOMAIN settled :
           settled[s] = IF \E i \in DOMAIN requests : requests[i].serial = s
                        THEN 0 ELSE 1

\* An answer is that of the node that was asked, in time or too late, and each
\* node it names was asked in the same lookup, if it can be (on_response()).
LookupComplete ==
    \A l \in DOMAIN learnt : \A pair \in learnt[l] :
        /\ pair[1] = pair[2]
        /\ Range(Knows[pair[2]]) \cap Valid \subseteq queried[l]

\* The table has each node once, in its bucket, and no bucket overflows.
Buckets ==
    \A k \in DOMAIN routing :
        /\ Len(routing[k]) = Cardinality(Range(routing[k]))
        /\ Len(routing[k]) <= BucketSize
        /\ \A n \in Range(routing[k]) : Bucket(n) = k

\* Requests, lookups and the table stay right over any network.
DhtSafety == Outstanding /\ LookupComplete /\ Buckets

\* Every request ends, learnt or not, so that lookups end (keep_gc()).
LookupsEnd == requests # <<>> ~> requests = <<>>
=============================================================================
