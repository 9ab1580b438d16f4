---------------------------- MODULE ReverseProxy ----------------------------
(***************************************************************************)
(* The reverse proxy (extra/proxy_r.py on servers/proxy.py): requests of   *)
(* front-end connections go to back-end protocols of the HTTP client, a    *)
(* front keeps its back end from one request to the next, and conn_map     *)
(* finds the front of a back end.  The "smart" strategy takes the prefix   *)
(* at the top of a PriorityDict (common/structures.py).                    *)
(*                                                                         *)
(* The flushes that precede a close are taken as done with it.             *)
(***************************************************************************)
EXTENDS Integers, FiniteSets, Sequences

CONSTANTS MaxFronts, MaxUpstreams,  \* bounds: connections, back-end protocols
          MaxRequests,  \* bound: requests of a front
          Pipelining    \* a front sends requests before it has its answers

ASSUME ProxyAssumption ==
    /\ MaxFronts \in Nat /\ MaxUpstreams \in Nat /\ MaxRequests \in Nat
    /\ Pipelining \in BOOLEAN

Fronts == 1 .. MaxFronts
Upstreams == 1 .. MaxUpstreams
UrlPrefixes == {1, 2}  \* of one host, and 0 is none

VARIABLES
    fronts,     \* proxy_c and state of each, and the requests it sent
    relayed,    \* what each front was sent
    upstreams,  \* the back-end protocols; owed: requests they have to answer
    connMap,    \* the front of a protocol, or 0
    busyConn,
    smart       \* the PriorityDict, see below

proxyVars == <<fronts, relayed, upstreams, connMap, busyConn, smart>>

FrontOf == [status: {"open", "tunnel", "closed"}, asked: 0 .. MaxRequests,
            proxy: 0 .. MaxUpstreams, state: {0} \cup UrlPrefixes]
UpstreamOf == [status: {"new", "connecting", "open", "lost", "closed"}, busy: Nat,
               waiting: BOOLEAN, state: {0} \cup UrlPrefixes,
               owed: Seq(1 .. MaxRequests), head: BOOLEAN]

-----------------------------------------------------------------------------
(* The PriorityDict: sorter has [busy, -last release] of each prefix, heap  *)
(* its entries.  An entry holds the list that sorter has, not a copy: its   *)
(* value changes where it lies.                                             *)

Less(sorter, a, b) ==
    \/ sorter[a].busy < sorter[b].busy
    \/ sorter[a].busy = sorter[b].busy /\ sorter[a].last < sorter[b].last
    \/ sorter[a] = sorter[b] /\ a < b

\* heappush(): the entry goes up from the end, past those on its way that it is
\* less than; the heap has at most four
Pushed(heap, sorter, k) ==
    LET n == Len(heap) + 1
        way == {n, n \div 2, n \div 4} \ {0}
        passed == {i \in way \ {n} :
                      \A j \in way \ {n} : j >= i => Less(sorter, k, heap[j])}
        Lands(i) == /\ i \in passed \cup {n}
                    /\ \A j \in passed : i <= j
    IN  [i \in 1 .. n |-> IF Lands(i) THEN k
                         ELSE IF i = n \/ i \in passed THEN heap[i \div 2]
                         ELSE heap[i]]

\* heapify() of the two entries
Rebuilt(sorter) == IF Less(sorter, 2, 1) THEN <<2, 1>> ELSE <<1, 2>>

\* __setitem__() of the list that was changed
Put(q, sorter, k) ==
    [q EXCEPT !.sorter = sorter,
              !.heap = IF Len(@) < 2 * Cardinality(UrlPrefixes)
                       THEN Pushed(@, sorter, k) ELSE Rebuilt(sorter)]

Acquire(q, k) == Put(q, [q.sorter EXCEPT ![k].busy = @ + 1], k)

\* releaser(); a clock that goes back counts the releases that leave it idle
Release(q, k) ==
    IF k = 0 THEN q
    ELSE LET idle == q.sorter[k].busy = 1
         IN  Put([q EXCEPT !.clock = IF idle THEN @ - 1 ELSE @],
                 [q.sorter EXCEPT ![k].busy = @ - 1,
                                  ![k].last = IF idle THEN q.clock - 1 ELSE @], k)

\* balancer(): smallest(), where no entry is ever found to be old
Smallest(q) == Head(q.heap)

-----------------------------------------------------------------------------
ProxyInit ==
    /\ fronts = [f \in Fronts |->
          [status |-> "open", asked |-> 0, proxy |-> 0, state |-> 0]]
    /\ relayed = [f \in Fronts |-> <<>>]
    /\ upstreams = [u \in Upstreams |->
          [status |-> "new", busy |-> 0, waiting |-> FALSE, state |-> 0,
           owed |-> <<>>, head |-> FALSE]]
    /\ connMap = [u \in Upstreams |-> 0] /\ busyConn = 0
    /\ smart = [sorter |-> [k \in UrlPrefixes |-> [busy |-> 0, last |-> 0]],
                heap |-> <<1, 2>>, clock |-> 0]

Up(u) == upstreams[u].status
Alive(u) == Up(u) \in {"connecting", "open", "lost"}
Finished(f) == Cardinality({i \in DOMAIN relayed[f] : relayed[f][i][1] = "end"})
CaughtUp(f) == Finished(f) = fronts[f].asked

ClosedUp(u) ==
    [upstreams[u] EXCEPT !.status = "closed", !.waiting = FALSE, !.busy = 0,
                         !.state = 0, !.owed = <<>>, !.head = FALSE]

\* mutant of PrxClose: the state is not released
PrxCloseHeld(u) ==
    /\ busyConn' = busyConn - upstreams[u].busy /\ UNCHANGED smart

\* _on_prx_close() of the reverse proxy: the counts of the back end
PrxClose(u) ==
    /\ busyConn' = busyConn - upstreams[u].busy
    /\ smart' = Release(smart, upstreams[u].state)

\* on_connection_d() of a front that closes closes its back end
FrontClosed(f) == [fronts EXCEPT ![f].status = "closed", ![f].proxy = 0]

-----------------------------------------------------------------------------
(* Requests: on_headers().                                                 *)

Asks(f) ==
    /\ f \in Fronts /\ fronts[f].status = "open"
    /\ fronts[f].asked < MaxRequests /\ (Pipelining \/ CaughtUp(f))

\* A front that had a request keeps the state (`reuse`).
StateOf(f) ==
    IF fronts[f].asked > 0 THEN fronts[f].state ELSE Smallest(smart)

\* The fields that the request leaves in the back end; what they were is lost.
Assigned(v, k, n, status) ==
    [v EXCEPT !.status = status, !.state = k, !.busy = @ + 1, !.waiting = TRUE,
              !.owed = Append(@, n), !.head = FALSE]
Asking(f, u, k) ==
    /\ fronts' = [fronts EXCEPT ![f].asked = @ + 1, ![f].proxy = u,
                                ![f].state = k]
    /\ UNCHANGED relayed

\* method() takes the protocol of the front, which is open
RequestReused(f) ==
    LET u == fronts[f].proxy
        k == StateOf(f)
    IN  /\ Asks(f) /\ u # 0 /\ Up(u) = "open" /\ Asking(f, u, k)
        /\ smart' = Acquire(smart, k) /\ busyConn' = busyConn + 1
        /\ upstreams' = [upstreams EXCEPT ![u] =
                            Assigned(@, k, fronts[f].asked + 1, "open")]
        /\ connMap' = [connMap EXCEPT ![u] = f]

\* the next protocol that is made
Unmade(u) ==
    Up(u) = "new" /\ \A v \in 1 .. u - 1 : Up(v) # "new"

RequestNew(f, u) ==
    LET k == StateOf(f)
    IN  /\ Asks(f) /\ Unmade(u) /\ fronts[f].proxy = 0 /\ Asking(f, u, k)
        /\ smart' = Acquire(smart, k) /\ busyConn' = busyConn + 1
        /\ upstreams' = [upstreams EXCEPT ![u] =
              Assigned(@, k, fronts[f].asked + 1, "connecting")]
        /\ connMap' = [connMap EXCEPT ![u] = f]

\* A protocol that is not open is closed; it has no front by then, so that what
\* it owed is not answered.
RequestStale(f, u) ==
    LET old == fronts[f].proxy
        k == StateOf(f)
    IN  /\ Asks(f) /\ Unmade(u) /\ old # 0 /\ Up(old) \in {"connecting", "lost"}
        /\ Asking(f, u, k)
        /\ smart' = Release(Acquire(smart, k), upstreams[old].state)
        /\ busyConn' = busyConn + 1 - upstreams[old].busy
        /\ upstreams' = [upstreams EXCEPT ![old] = ClosedUp(old),
              ![u] = Assigned(@, k, fronts[f].asked + 1, "connecting")]
        /\ connMap' = [connMap EXCEPT ![old] = 0, ![u] = f]

\* _upgrade(): the back end is left, and a tunnel made (Tunnel.tla has it)
Upgrade(f) ==
    LET k == StateOf(f)
        old == fronts[f].proxy
    IN  /\ Asks(f) /\ smart' = Release(Acquire(smart, k), k)
        /\ fronts' = [fronts EXCEPT ![f].status = "tunnel", ![f].proxy = 0]
        /\ connMap' = [u \in Upstreams |-> IF u = old THEN 0 ELSE connMap[u]]
        /\ UNCHANGED <<relayed, upstreams, busyConn>>

-----------------------------------------------------------------------------
(* The back ends.                                                          *)

\* "connect": the request goes out
Established(u) ==
    /\ u \in Upstreams /\ Up(u) = "connecting"
    /\ upstreams' = [upstreams EXCEPT ![u].status = "open", ![u].waiting = FALSE]
    /\ UNCHANGED <<fronts, relayed, connMap, busyConn, smart>>

\* _on_prx_close(): a response if the back end is waiting, and the front closes
CloseBoth(u) ==
    LET f == connMap[u]
    IN  /\ upstreams' = [upstreams EXCEPT ![u] = ClosedUp(u)]
        /\ PrxClose(u) /\ connMap' = [connMap EXCEPT ![u] = 0]
        /\ fronts' = IF f = 0 THEN fronts ELSE FrontClosed(f)
        /\ relayed' = IF f = 0 \/ ~upstreams[u].waiting THEN relayed
                      ELSE [relayed EXCEPT ![f] = Append(@, <<"error", 0>>)]

\* connecting fails or takes too long, or connection_lost() is called
Lost(u) ==
    /\ u \in Upstreams /\ Up(u) \in {"connecting", "lost"} /\ CloseBoth(u)

\* The connection ends; the protocol learns of it in a later tick.
Eof(u) ==
    /\ u \in Upstreams /\ Up(u) = "open"
    /\ upstreams' = [upstreams EXCEPT ![u].status = "lost"]
    /\ UNCHANGED <<fronts, relayed, connMap, busyConn, smart>>

\* _on_prx_headers(): send_header() to the front
PrxHeaders(u) ==
    /\ u \in Upstreams /\ Up(u) = "open" /\ connMap[u] # 0
    /\ upstreams[u].owed # <<>> /\ ~upstreams[u].head
    /\ upstreams' = [upstreams EXCEPT ![u].head = TRUE]
    /\ relayed' = [relayed EXCEPT ![connMap[u]] =
                      Append(@, <<"head", Head(upstreams[u].owed)>>)]
    /\ UNCHANGED <<fronts, connMap, busyConn, smart>>

\* _on_prx_message(): counts, flush_s(), and the connection is kept
PrxMessage(u) ==
    LET v == upstreams[u]
        n == Head(v.owed)
    IN  /\ u \in Upstreams /\ Up(u) = "open" /\ v.head /\ connMap[u] # 0
        /\ smart' = Release(smart, v.state)
        /\ busyConn' = busyConn - 1
        /\ relayed' = [relayed EXCEPT ![connMap[u]] = Append(@, <<"end", n>>)]
        /\ upstreams' = [upstreams EXCEPT ![u] =
              [v EXCEPT !.busy = @ - 1, !.state = 0, !.waiting = FALSE,
                        !.owed = Tail(@), !.head = FALSE]]
        /\ UNCHANGED <<fronts, connMap>>

\* the same, and without keep-alive close() of the front, then of the back end
PrxLastMessage(u) ==
    LET f == connMap[u]
        v == upstreams[u]
    IN  /\ u \in Upstreams /\ Up(u) = "open" /\ v.head /\ f # 0
        /\ smart' = Release(smart, v.state)
        /\ busyConn' = busyConn - v.busy
        /\ relayed' = [relayed EXCEPT ![f] = Append(@, <<"end", Head(v.owed)>>)]
        /\ upstreams' = [upstreams EXCEPT ![u] = ClosedUp(u)]
        /\ connMap' = [connMap EXCEPT ![u] = 0] /\ fronts' = FrontClosed(f)

\* The client goes, at any time: on_connection_d() closes the back end, whose
\* _on_prx_close() finds a front that is closed.
FrontLost(f) ==
    LET u == fronts[f].proxy
    IN  /\ f \in Fronts /\ fronts[f].status # "closed"
        /\ fronts' = FrontClosed(f) /\ UNCHANGED relayed
        /\ \/ u = 0 /\ UNCHANGED <<upstreams, connMap, busyConn, smart>>
           \/ /\ u # 0 /\ PrxClose(u)
              /\ upstreams' = [upstreams EXCEPT ![u] = ClosedUp(u)]
              /\ connMap' = [connMap EXCEPT ![u] = 0]

\* A back end answers or ends its connection; connecting has a time limit.
Progress(u) ==
    \/ Established(u) \/ Lost(u) \/ PrxHeaders(u) \/ PrxMessage(u)
    \/ PrxLastMessage(u)

ProxyNext ==
    \/ \E f \in Fronts :
          \/ RequestReused(f) \/ Upgrade(f) \/ FrontLost(f)
          \/ \E u \in Upstreams : RequestNew(f, u) \/ RequestStale(f, u)
    \/ \E u \in Upstreams : Progress(u) \/ Eof(u)

ProxyGoes(u) == Progress(u) \/ (upstreams[u].owed # <<>> /\ Eof(u))
ProxySpec ==
    /\ ProxyInit /\ [][ProxyNext]_proxyVars
    /\ \A u \in Upstreams : WF_proxyVars(ProxyGoes(u))

-----------------------------------------------------------------------------
(* Properties.                                                             *)

\* the requests that back ends have, one by one
Requested == UNION {{u} \X (1 .. upstreams[u].busy) : u \in Upstreams}

Mapped ==
    /\ \A u \in Upstreams, f \in Fronts :
          connMap[u] = f <=> fronts[f].proxy = u /\ Alive(u)
    /\ \A u \in Upstreams : Alive(u) =>
          \/ connMap[u] # 0
          \/ /\ upstreams[u].owed = <<>>
             /\ \E f \in Fronts : fronts[f].status # "open"

\* The counts of the proxy are those of the requests in progress: busy_conn, the
\* `busy` of each back end, and the requests of each prefix in the PriorityDict.
\* They come back however requests end.  conn_map and proxy_c are inverse to
\* each other, and a back end that is open and in neither was left by an upgrade
\* and owes nothing.
Accounts ==
    /\ Mapped
    /\ busyConn = Cardinality(Requested)
    /\ \A u \in Upstreams : upstreams[u].busy = Len(upstreams[u].owed)
    /\ \A k \in UrlPrefixes : smart.sorter[k].busy
          = Cardinality({u \in Upstreams : upstreams[u].state = k})

\* A front is told the answers to its requests, in their order, one at a time
\* and no other's; an error comes last.
OwnResponses ==
    \A f \in Fronts :
        LET s == relayed[f]
        IN  \A i \in DOMAIN s :
              /\ s[i][2] <= fronts[f].asked
              /\ s[i][1] = "error" => i = Len(s) /\ fronts[f].status = "closed"
              /\ s[i][1] = "head" => s[i][2] = (i + 1) \div 2 /\ i % 2 = 1
              /\ s[i][1] = "end" => s[i - 1] = <<"head", s[i][2]>>

\* A request is answered in full or its front closed, if the back ends answer
\* or close.
Relays == \E f \in Fronts : fronts[f].status = "open" /\ ~CaughtUp(f)

\* Fronts, back ends and counts of the proxy belong together.
ProxySafety == Accounts /\ OwnResponses
=============================================================================
