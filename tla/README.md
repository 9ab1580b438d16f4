# netius in TLA+

This directory holds TLA+ models of netius (the event loop, its polls,
connections and thread pools, and the protocols, clients, servers and proxies
on top of them), the configurations that check the models with TLC, and proofs
of their properties checked by TLAPS.  Paths below are relative to
`src/src/netius/` unless they say otherwise.

    tlc -workers 2 -config Connections.cfg MCConnections   # one run
    tlapm TunnelProofs.tla                                 # the proofs of a module

`PROJECT.json` lists the components, the runs, the mutants that each property
has to detect, the lines of code every definition stands for, the
disagreements that were found between code and documentation, the hazards of
the code and the theorems.

## 1. The system and its parts

netius is a single-threaded network framework.  One object, the loop
(`base/common.py`, AbstractBase), owns the poll, the connections and the
delayed calls; servers, clients and proxies are subclasses of it, or agents
that share its poll.  What is concurrent is at its edges: worker threads of
the pools, threads that call `delay_s()` or `send()`, the kernel at the other
side of every socket, processes that share a listening socket, and signals.
What is hard inside the loop is re-entrance: handlers are called from inside
loops over shared lists, send inside sends, close inside reads, and resume
inside writes.

| component | state | operations | talks to | what is hard | what makes it correct |
|---|---|---|---|---|---|
| Event loop (`base/common.py`) | heaps `_delayed`, `_delayed_o`, list `_delayed_n`, `_events`, `_notified`, `_lid`, `_did`, running and pausing flags | `delay`, `delay_s`, `delay_m`, `_delays`, `_notifies`, `wait_event`, `notify`, `start`, `loop`, `stop`, `pause`, `cleanup` | everything: callables, handlers, threads | appends of other threads during the merge, calls that schedule calls, ticks, equal targets | each request called once or cancelled, none lost, next tick means next tick, the poll is reached |
| Polls (`base/poll.py`) | `read_o`, `write_o`, `error_o`, descriptor tables, the kernel's registrations | `sub_*`, `unsub_*`, `poll` | connections, services, event files | four back ends behind one interface, reused descriptors | who is subscribed is told, who is closed is forgotten |
| Connection (`base/conn.py`) | status, `wready`, `renable`, `pending`, `pending_s`, `restored`, starters | `open`, `close`, `close_flush`, `send`, `pend`, `_send`, `recv`, `restore`, `upgrade`, `enable_read`, `disable_read` | loop, poll, user code inside `_send` | partial writes, sends inside sends, other threads, edge-triggered events | bytes once and in order, callback after the bytes, never waiting for nobody |
| Connecting and starters (`base/common.py`, `base/client.py`, `middleware/proxy.py`) | `connecting`, `ssl_connecting`, the list of starters, `_connects` | `connect`, `datagram`, `_connect`, `_connectf`, `_ssl_handshake`, `run_starter` | loop, poll, TLS | the outcome of a connect is told by an event, inside which a handler may close | who asked is told once, and the truth |
| Thread pools (`pool/`) | work queue, condition, threads' `_run`, events, event file | `push`, `pop`, `push_event`, `pop_all`, `start`, `stop`, `tick` | loop (by the event file) | wake-ups, a stop at any point, tasks that raise | each work done once, no lost wake-up, the loop hears of each event, a stop ends |
| Transports and protocols (`base/transport.py`, `base/protocol.py`, `base/stream.py`) | `_writing`, `_delayed`, `_callbacks`, `_exhausted`, open and closing flags | `send`, `pause_writing`, `resume_writing`, `connection_made`, `connection_lost`, `close`, `finish` | connection below, user above | resume inside write inside resume, data before the connection | order kept, a pause ends, callbacks once |
| asyncio compatibility (`base/compat.py`, `base/async_*.py`) | status, result and callbacks of futures, coroutines under way | `connect_stream`, `build_datagram`, `serve_stream`, `ensure`, `sleep`, `cancel` | loop, protocols | a cancel racing the connection | a future settled once, no connection without an owner |
| Proxies (`servers/proxy.py`, `extra/proxy_r.py`, `extra/proxy_c.py`) | `conn_map`, `tunnel_c`, balancing tables, hosts and rules | `tunnel`, `on_data`, `_throttle`, `on_headers`, `_on_prx_*`, `acquirer`, `releaser`, `_build_hosts` | two connections each, HTTP client, Consul | two back-pressures that cross, answers after the front end left, fetches that overlap | bounded memory, reads resume, each acquire released once, a response goes to its request |
| Datagram clients and servers (`base/client.py`, `base/server.py`) | queue of datagrams, requests by identifier | `send`, `_send`, `add_request`, `gc` | DHT, DNS, TFTP, DHCP | identifiers that wrap, expiry racing answers | answers matched, expiry once |
| HTTP (`common/http.py`, `common/http2.py`, `servers/http*.py`, `servers/wsgi.py`, `clients/http.py`, `extra/file.py`) | parser state, streams and windows, encoding, iterator, protocols kept by key | `parse`, frame handlers, `send_part`, `flush_frames`, `method`, `on_environ`, `_final` | connection, protocol, applications | data cut anywhere, pipelining, windows of connection and stream, timeouts racing answers | result independent of the cuts, windows respected, bodies whole and in order, one answer per call |
| Process model (`base/common.py`, `base/server.py`) | pids, pipe, `_running`, listening socket | `fork`, `_wait_forever`, `on_read_s`, signals | kernel | signals between two lines | children joined, arrivals accepted |
| SMTP, POP, TFTP, DHCP, DNS, DHT, Torrent, WebSocket, keys | state of a session, requests, pieces | commands and answers, encodings | connection | lost datagrams, cut frames, answers out of order | the sequences of their protocols, what is written is what is read |
| Middleware, FTP, SOCKS, storage, configuration, logging, tools | little that lasts, or files | | | | not modelled; section 7 says why |

PROJECT.json says for each component which part is modelled, and why the rest
is not.  Its list of hazards is what may go wrong in this code and what tests
hardly reach; each names the properties that would notice.

## 2. The modules

Read in this order: what everything runs on, then what runs on that.  A proof
module extends the modules it is about.

| module | models | with |
|---|---|---|
| `EventLoop` | delayed calls, events and the cycle of the loop | `EventLoopProofs` |
| `Heapq`, `DelayHeap`, `DelayQueue` | the two heaps with the algorithm of heapq; the queue they implement | `StructureProofs` |
| `Poll` | epoll, kqueue, poll and select behind one interface | `StructureProofs` |
| `Connection` | the sending side of a connection, with another thread in it | `ConnectionProofs` |
| `Connector` | connect(), datagram(), the handshake of a client | `ConnectorProofs`, which also joins it with Connection |
| `Starter` | accepting and connecting with the PROXY header and TLS, `restore()` | |
| `ThreadPool` | threads, works, events and the file that wakes the loop | `StructureProofs` |
| `Protocol`, `Tunnel` | flow control of StreamProtocol over its transport; the two directions of a proxied tunnel | `TunnelProofs`, of both |
| `Compat` | how a protocol gets a connection, natively or by a coroutine, and loses it | `ConnectorProofs` |
| `HttpParser`, `Http2` | HTTP/1 messages cut anywhere; frames, streams and windows | `ConnectorProofs`, of the second |
| `HttpClient`, `ReverseProxy`, `Discovery` | calls and the pool of protocols; requests over back ends; what Consul announces | `WebProofs`, of the first two |
| `Wsgi`, `FileServer` | responses of applications, with futures as parts; files, ranges, pipelined requests | |
| `Listener`, `Prefork` | processes at one listening socket; a parent, its children and their signals | `WebProofs`, of both |
| `Dht`, `Dns`, `Tftp`, `Dhcp` | requests over datagrams; the messages of DNS; transfers; leases | `EventLoopProofs`, of the last two |
| `SmtpClient`, `SmtpServer`, `Mail`, `Pop` | delivery to many domains; sessions with the relay; both; mailboxes | `SessionProofs`, of the first three; `EventLoopProofs`, of Pop |
| `Torrent`, `TorrentData`, `WebSocket`, `Rsa` | peers, blocks and pieces; files as one stream, messages, bencoding; frames; keys and ASN.1 | `SessionProofs`, of the first |

Modules compose where the code does.  `Tunnel` extends `Protocol` with the
connection of the client.  `Wsgi` runs on the heap of `Heapq`, in the exact
order of its equal targets.  `DelayHeap` implements `DelayQueue`
(`INSTANCE DelayQueue WITH ...`, the property `IsQueue`), which is the heap that
`EventLoop` is written over.

Mutant operators (`\* mutant of ...`) stand before the definition they are a
wrong version of.  They are used by nothing: each shows, when it is put in the
place of the definition, that a property notices.

What is configured once and then stays (the back end of the poll, the kind of a
pool, of a protocol, of a tunnel) is a variable that Init chooses and no step
changes, so that one run covers every configuration and an invariant can be
read for all of them.  The constant next to it (`Backends`, `Polls`, `Kinds`,
`Ways`) says which a run has.

**The composing modules.**  `MCEventLoop`, `MCStructures`, `MCConnections`,
`MCFlow`, `MCWeb` and `MCSessions` extend several components that do not touch
one another, and choose with `part` which of them a behaviour is of; the
others stay in one initial state.  So one run checks them all without the
product of their states.  Where they do touch (a tunnel and its protocol, a
server and its heap) they are one component.  The fairness of a component is
stated with `part = "..."` in the action, as a component that stays has nothing
to be fair about.  Their safety properties are conjunctions, one conjunct per
hazard, with names of their own:

| property | is |
|---|---|
| `ConnectionSafety` | `QueueSafety` (`Accounted`, `NothingLost`, `NeverStuck`), `CallbackSafety` (`CalledWhenSent`, `NoneForgotten`, `FlushedBeforeClose`), `ConnectorSafety` (told once and the truth, `SleepsInHandshake`) |
| `TunnelSafety` | `DownBounded`, `DownToCome`, `UpToCome` |
| `ProtocolSafety` | `InOrder`, `ResumeToCome`, `Bounded` |
| `PoolSafety` | `InOnePlace`, `TakenInOrder`, `NoLostWakeup`, `PollKnows`, `Counted` |
| `PollSafety` | `Reported`, `Owned`, `NeverRaises` |
| `PopSafety` | `InFull`, `Answering`, `FilesClosed` |
| `TftpSafety` | `RightParts`, `WillSend`, `WholeFile`, `NotStuck` |
| `DhcpSafety` | `OneHolder`, `InHeap`, `Owned`, `Reusable` |
| `MailSafety` | of SmtpClient and SmtpServer |
| `ProtocolsSafety` | of WebSocket and FileServer |
| `StructuresSafety` | of DelayHeap, Dht, and the codes of Rsa, Dns and TorrentData |
| `LoopGoes`, `StructuresEnd` | who waits is served and the poll is reached; works, stops and lookups end |
| `EventuallyAnswered` (web) | calls, requests, accepts, stops and hosts end as they should |

### How state and actions correspond to the code

**EventLoop.**  The heap is the set of its entries, each scheduling call a
member of `Requests`.  The thread of the loop is a program counter over
`ticks()`, `delay_m()`, `_delays()`, `_notifies()`, the poll, pause and
cleanup; wherever it is in the code of a user (`Handlers`) any operation may
follow.  `DelayS` and `Notify` belong to other threads, at any point: the merge
of `_delayed_n` is one action per element and one for the `del` at the end.
`fate` says what became of each request and `fresh` what was scheduled in this
tick; both are history.  Requests with a delay in `Recycled` are used again
once they are served, for the run in which the number of calls must not end.

**DelayHeap.**  The two heaps as lists with the sifting of heapq, including
what it does with equal targets; `_delays()` over them, with what is set aside
and pushed back.

**Poll.**  The tables and the kernel's registrations, as a record that the
operations of the interface transform; the users are the actions.  The kernel
keeps a mask for each descriptor (epoll, poll), two filters (kqueue) or nothing
(select, which is given its lists).  A call of the kernel that would fail sets
`raised`, after which nothing happens.  An answer of the kernel is by
descriptor, and is told to who is in the table then.

**Connection.**  The queue of messages in units, the send buffer of the kernel,
edge- or level-triggered events.  `stack` has an element for each `_send()`
under way, since `_send()` calls the user, who sends.  `Transmit(k)` is one
round of its loop, with k units taken; `Refused`, `Drained` and `SocketFails`
are its other ends.  The other thread (`Foreign`) is inside `send()`: the
append under the lock, the read and the write of `pending_s` after it, the
wake-up.  `offered`, `ends`, `wire` and `done` are history.

**Connector.**  Each call is a record: the connection, what the kernel and the
peer have done, what the caller was told.  A handler of the poll is one action,
made of the calls it makes, which may raise in the middle (`Leave`, `Caught`).

**ThreadPool.**  One program counter per worker thread over `run()`, `tick()`,
`pop()` and `execute()`, with the condition variable as a lock and a set of
waiters, the event file (a counter of the kernel, a pipe or a socket pair, of
which `denotify()` reads as much as it counted) and the loop as the owner that
registers it in its poll, pushes, polls, takes events and stops.

**Protocol, Tunnel.**  `stack` again: of the calls under way, as the flush of a
resume writes inside the send loop of the connection.  The connection below is
abstract: its socket takes any number of bytes of its first message or none.
Tunnel adds the front-end connection: what is read from the client is sent to
the protocol, what the back end gives waits in the front end (`front`, counted by
`frontS`, its `pending_s`).

**Compat.**  The steps of a coroutine or of a native opening wait in the queue of
the loop (`on_ready()`, `on_complete()`, the callbacks of futures); between two
of them the user closes, cancels, or the peer goes.  A service of a server that
is started later becomes ready when it is.

**Dht, Tftp.**  The queue of datagrams, whether the socket takes one (`wready`),
the flush of the next tick and the write event are in both, with a network that
loses, repeats and reorders.  Dht has the list and the map of requests with
their expiry, and the reads of `on_read()`, which a callback may end by raising.

**HttpClient, ReverseProxy.**  Protocols and connections in the order in which
they are made, each a record; servers answer, stall or close.  The reverse
proxy has its two balancers over the priority dictionary, and fronts and back
ends that close at any point.

**Discovery.**  Catalogues of Consul as sets of services with tags; a fetch is an
action that begins and one that ends, so that two may overlap.

**Prefork.**  The parent is a program counter over `fork()` and
`_wait_forever()`; a signal is an action between any two of its steps.

**Wsgi.**  The state of a connection and its loop is one record, which handlers
transform; calls of the loop are in the heap, in the order of heapq.  The
coroutine of a part is stepped by `ensure()`, its values sent as they come.

**SmtpServer, SmtpClient.**  A line and its answer are one exchange; what the
server gives to the relay is an element of `relayed`, and `acks` are the messages
it answered that it has.  A session of the client is its
list of states and where it is in it.

### What is abstracted

* Time is a number that only rises; a delay of 0.25 s and one of 10 s differ by
  their order only.  The timeout of the poll is that it returns.
* Payloads are names with sizes; contents, addresses, logging, tracing and the
  wording of errors are left out unless a property is about them.
* In Connection, TLS and datagrams are left out; in Protocol, which Connection
  call a byte goes by.  The marks of a connection are the same from its
  opening (StreamProtocol sets them right after its "open" event).
* In EventLoop a handler may do any number of the operations, and an exception
  in a delayed callable is a return.

## 3. The runs

Sizes were chosen so that the case a property is about happens with room for
one more: two requests let one be served or set aside while the other arrives;
messages longer than the kernel's buffer and shorter give partial, refused and
whole writes; depth two is a send inside the callback of a send; two processes
at a socket, two fronts, two hosts let one be in the other's way.

| run | components and bounds | shows |
|---|---|---|
| `loop` | EventLoop: 2 requests, 2 callables, 1 event, tick modulus 2, other threads, stop and pause anywhere. Pop, Tftp, WebSocket, FileServer (3 pipelined requests), Dhcp (2 clients, 2 addresses) | `LostOnlyInMerge`: the heap and the pendings hold each scheduled request, and only an append between the end of the merge and its `del` is lost; `TickDrains`: what was due is served in the tick; `OneFlush`: one flush of a connection at a time; `CalledInTurn`: not cancelled, not in its own tick, not early; `FateIsFinal`: called once; `PopSafety`, `TftpSafety`, `ProtocolsSafety`: what is served arrives whole, once and in order; `DhcpSafety`: an address has one client |
| `structures` | DelayHeap: 4 calls of 3 targets. Poll: 4 sockets, 2 descriptors, four back ends. ThreadPool: 2 threads, 2 works of which one raises, three kinds of event file read a byte at a time. Dht: 2 lookups, identifiers modulo 3. Rsa, Dns, TorrentData: a few values around each boundary | `IsQueue`: the heaps implement DelayQueue; `PollSafety`; `PoolSafety`; `StructuresSafety`: the heaps agree place by place, a request is answered once by who was asked, what is written is what is read; fair `StructuresEnd`: works are answered, a stop and lookups end |
| `connections` | Connection: messages of 3 units and 1, buffer 2, depth 2, both kinds of poll, the short message from another thread. Http2: 2 streams, windows of 2. Connector: 2 calls. Compat: one protocol, each function of `base/compat.py` | `ConnectionSafety`, `CompatSafety`, `Http2Safety` (windows, order of frames, states of streams), and fair `Carried`: what is accepted is sent, who connects is told, a future is settled |
| `flow` | Tunnel and Protocol: 4 messages of 1 to 3 bytes, marks 1 and 0; CONNECT and upgrade. Starter: every role, cut in any reads. EventLoop with calls that schedule themselves for ever | `TunnelSafety`, `ProtocolSafety`, `StarterSafety`; fair: `DownResumes`, `EventuallyEntered`, `EventuallyThrough`, `LoopGoes` |
| `web` | HttpParser: 2 messages of every framing, cut anywhere. HttpClient: 3 calls, 2 hosts. ReverseProxy: 2 fronts, 3 requests, 4 back ends. Listener: 2 processes, 2 peers. Prefork: 2 children, 2 commands. Discovery: 3 events | `CutFree`; `ClientSafety`; `ProxySafety`; `ListenerSafety`; `PreforkSafety`; `DiscoverySafety`; fair: `IterationsEnd`, `EventuallyAnswered` |
| `sessions` | Torrent: 2 peers, 2 pieces of 2 blocks. SmtpClient: 2 domains. SmtpServer: 3 addresses. Wsgi: 2 requests, every encoding | `TorrentSafety`, `MailSafety`, `WsgiSafety`; fair: `EventuallyComplete`, `EventuallyCalled`, `EveryAnswer` |
| `loop_lost` | 2 requests, other threads | violated: `delay_m()` clears what it has not merged |
| `protocol_callbacks` | 4 messages | violated: one callback twice, another never |
| `tunnel_edge` | 3 messages, epoll | violated: two full directions, two unregistered sockets |
| `tls_greeting` | Starter, select or poll | violated: what is written ahead of a handshake is not sent |
| `parser_pipeline` | HttpParser, reads that cross a message | violated: the message behind a body of known length is taken for part of it |
| `smtp_race` | SmtpClient, the thread that calls `message()` | violated: a connection that fails before its handler is bound is heard by nobody |

The violated runs state what a comment or docstring says (quoted in the
findings of PROJECT.json); in each the code does otherwise.

**Bounds.**  The constants named Max... are bounds of the models, said so where
they are declared; `Least` (Starter) and the sets of inputs of the MC modules
are others.  That each message, work or request is used once bounds the rest,
except for requests in `Recycled`.  Configurations say CHECK_DEADLOCK FALSE
because a system whose messages are used up, or that is closed, stops.

**Fairness.**  Weak fairness of the steps of the loop's thread is that a
program goes on, that a clock advances, and that handlers return: netius has
no other scheduler than its `while`.  Nothing is assumed of users: what they
may do they may never do.  Strong fairness is used for the socket that takes
data (and the peer that reads): it is not always ready, and liveness of sending
means nothing for a peer that never reads.  In Wsgi the writes and the ends of
children are strongly fair, as the loop polls between two servings.  Worker
threads are each weakly fair, as threads of one process are.  Of the remote
side: connects are settled, peers of a torrent shake hands, answer and do not
choke for ever, DNS answers or times out, and mail servers answer or end.

## 4. What the properties stop short of

The properties hold of the code as it is.  Writing the models showed places
where a wider property does not hold; each is left out by a constant, a guard
or a conjunct, named here so that the passing runs are not read for more than
they say.

**Loop and heap.**
* `delay(verify=True)` looks for an equal callable in the heap.  While
  `_delays()` runs, those of the next tick are in its local `pendings`: a
  verified next-tick call made then is a second one.  `OneFlush` is about
  immediate calls only.
* A callable that delays itself with `immediate=True` keeps `_delays()` from
  returning, and a bind that notifies its own event does the same to
  `_notifies()`: `Recycled` holds the delay of the next tick only.
* The clause of `TickDrains` about notified events is stated for a loop that no
  other thread notifies.
* Equal targets do not leave the heap in FIFO order (`base/legacy.py:677`; the
  comment of `base/common.py:711-713` reads otherwise).

**Poll and connection.**
* PollPoll unregisters the whole descriptor when reads are unsubscribed, writes
  included, and a later `unsub_write()` raises; with epoll (edge-triggered)
  data that waits while `disable_read()` has taken the descriptor out has no
  event to come.  `Disables` leaves these out, in the runs and in the theorems;
  `tunnel_edge` shows what a proxy makes of it.
* `pending_s` is read and written outside the lock.  When a send of another
  thread overlaps one of the loop an update may be lost and the counter be off
  for good; `Accounted` is stated until that has happened (`raced`).
* A Unix socket whose path does not exist is reported as connected, as ENOENT is
  among the errors that mean "not yet"; "absent" is left out of `Outcomes`.
  The callback of a datagram socket says True even if it was closed meanwhile.
  Errors other than those of the socket and of TLS leave `_connect()` without a
  close and are not modelled.
* In Starter a handshake that waits to write is left out.  A PROXY header of
  version 2 without a body (the LOCAL command) never completes, and its
  connection is closed by the timeout of the header.  A plain client that writes
  ahead and is connected at once stalls as in `tls_greeting`.

**Thread pool.**  `stop()` before a worker has entered `run()` is overwritten by
`self._run = True`; the join waits for ever.  Stops are stated for threads that
run (`early`).

**Protocol and tunnel.**
* What a StreamProtocol is given before its connection is kept behind what is
  given later; `Early` is `{"http"}`, and the theorems assume `"raw" \notin Early`.
* `_throttle()` compares the bytes that are pending at the one time it is called.
  A callback that runs while they are above the mark leaves the client unread
  for ever: `UpToCome` says that a call will come, and nothing says that it
  enables the reads.  What a paused protocol keeps is counted by no mark, hence
  no bound upwards.

**Compat.**  The ways of datagrams and of coroutines open a protocol that was closed
meanwhile; `create_server()` whose bind fails never completes its future; a
task does not mirror the future it wraps once it is made; native
`serve_stream()` passes an instance as a factory.  Left out: stops of the loop,
and a datagram endpoint its user closes before it is ready.

**HTTP.**
* HttpParser: trailers of chunked messages are not supported by the code; what
  follows an error is not modelled.
* Http2: an unknown type of frame desynchronises the parser; a changed initial
  window is not applied to streams that are open; trailers are refused when the
  streams are at their maximum; a second HEADERS of a stream that is not decoded
  yet raises; `close(flush=True)` drops the last of the frames that wait; a
  stream too many is opened without its event.  The instance has frames no
  larger than the window; the throttling of pending data is left out.
* HttpClient: the connect timer of a protocol that was closed sets "timeout" on a
  request that has its answer; a request that is never sent whole has no timer;
  a response without an end that times out has a code and an error.
  Unsolicited responses are assumed absent.
* ReverseProxy: with pipelined requests (`Pipelining`) no property holds; a back
  end that closes in the middle of a response adds a 403 behind the head that
  was relayed; an upgrade leaves the previous back end open; there is no receive
  timeout, and `_on_prx_error()` is never called.  The heap of the balancer is
  exact for two prefixes.  `sorter` changes its list in place
  (`extra/proxy_r.py:646`), and its idle time favours who was released last.
* Discovery: a service whose domain was an alias before loses its host until the
  next tick; a tag whose expression does not compile ends the rebuild, and its
  service stays for ever; of two fetches that overlap the older may be applied
  last; one failed health request removes a service until the next tick; a
  redirect under a suffix goes to the suffixed name; DNS answers without
  addresses leave an empty tuple.  Names are distinct in the instance.
* Wsgi: an application that raises in a part asked for after a future is only
  logged; with requests that cross (`Crossed`) frames mix; a `set_result()` of a
  cancelled future raises, which is logged.  Not modelled: the threads of
  `ensure()`, HEAD, HTTP/2, deflate, an application that raises before its
  iterator.
* FileServer: keep-alive is taken from the parser as it is when the file ends, so
  that a pipelined request changes it; a queue behind an answer that is no file
  does not go on; ranges are not validated; HEAD has a body; 304 with
  "Connection: close" does not close.

**Processes.**
* Prefork: the error of a wake-up between two turns, after a sleep that timed
  out, or an alarm just after `waitpid()`, leaves `fork()`
  (`base/common.py:5115` recommends it); SIGTERM between the binding of the
  signals and `_running = True` is lost; SIGUSR1 coalesces; a signal when
  `_delays()` ends waits for the sleep; children that end are not noticed;
  `block()` restores `_running`; `pause()` with `stop()` in one tick pauses.
* Listener: with an edge-triggered poll a connection that raises ends the accept
  loop, and those behind it wait for the next arrival (`base/server.py:768`).

**Sessions.**
* SmtpClient: a session the remote closes is no error; any greeting is accepted;
  with `mx_dedup` a failed domain named like another's host corrupts `tos_map`;
  no dot-stuffing, no timeouts; no recipients, no callback.
* SmtpServer: what was received stays with the adapter when the connection closes
  in DATA; the second error of the relay comes after local values were
  truncated; clients do not pipeline; names and passwords are raw chunks.
* Pop: STLS is not modelled; a list of no message omits its end; stale keys and
  counts close the session; `RETR` that is pipelined would replace the file.
* Tftp: the number of an acknowledgement is ignored, nothing is sent again,
  sessions stay, and a number above 65535 raises.  Errors of `sendto()` other
  than EWOULDBLOCK keep the head of the queue, here and in Dht.
* Dhcp: a lease may end between the two calls of one answer (`late`); a refused
  request still touches another's lease; each discover reserves one more
  address; RELEASE and DECLINE raise; without an address there is no answer.
* Dht: a callback that raises ends the loop of reads; DNSProtocol has no gc.  Fewer
  requests than identifiers are made while one waits.
* Dns: types other than those asked for raise, and the response is lost; pointers
  go backwards only.
* Torrent: what a choked peer gives back is not taken by connections that idle;
  peers are not connected again; `have` is ignored; the end game asks for the
  same block several times; `on_tracker()` after the unload raises.  Peers
  behave.
* TorrentData: a file of no bytes cannot be opened; a text has its length in
  characters.
* WebSocket: two unmasked frames in one read become one message; opcodes are
  ignored.
* Rsa: `rsa_primes()` never replaces its second prime, and for some sizes does not
  end; composites pass with small probability, which is left out of the keys; a
  message as long as the modulus may exceed it.

## 5. The proofs

TLC checks the instances above; TLAPS proves the following for every value of
the constants that their ASSUMEs allow: any number of requests, messages of any
size, calls, threads, marks, sockets.  In each module the argument is the same:
an inductive invariant, `Init => Inv`, `Inv /\ [Next]_vars => Inv'` with a step
for each action, and `Inv =>` the property.

| module | theorems | states |
|---|---|---|
| `EventLoopProofs` | `TypeCorrect`, `Invariance`, `RequestsOwned`, `TicksDrain`, `FlushedOnce`, `CallsInTurn`, `FatesFinal` | the invariants and action properties of the run `loop` |
| | `PopSafe`, `TransfersSafe`, `LeasesSafe` | `PopSafety`, `TftpSafety`, `DhcpSafety` |
| `StructureProofs` | `PollInvStep`, `PollSafe`, `PoolSafe`, `HeapSafe`, `HeapIsQueue` | `PollSafety`, `PoolSafety`, the part `HeapSafety` of `StructuresSafety`, and the refinement `IsQueue` |
| `ConnectionProofs` | `ConnectionTypeCorrect`, `NothingIsLost`, `CallbacksAreTrue`, `QueueSafe` | `QueueSafety`, `CallbackSafety` |
| `ConnectorProofs` | `ConnectorSafe`, `ConnectionsSafe`, `CompatSafe`, `Http2Safe` | `ConnectionSafety`, which the run checks of both; `CompatSafety`; `Http2Safety` |
| `TunnelProofs` | `ProtocolSafe`, `TunnelSafe` | `ProtocolSafety`, `TunnelSafety` |
| `WebProofs` | `ClientSafe`, `ProxySafe`, `ListenerSafe`, `PreforkSafe` | `ClientSafety`, `ProxySafety`, `ListenerSafety`, `PreforkSafety` |
| `SessionProofs` | `TorrentSafe`, `MailSafe` | `TorrentSafety`, `MailSafety` |

**EventLoop.**  `LostOnlyInMerge` says that a request that waits is in the heap or
in the pendings; to keep it over the merge one needs to know that the elements
of `_delayed_n` past the iterator are distinct and still waiting (`Ownership`),
as those before it may be in the heap already.  `TickDrains` and `CalledInTurn`
need what the loop identifier means: an entry of target 0 with the current
identifier was scheduled in this tick (`fresh`), and what is set aside in the
pendings has that identifier or a time that has not come (`TickIds`), and here
the modulus has to be above 1.  `OneFlush` needs that a verified duplicate of an
immediate call is never in the pendings.  `FatesFinal` assumes that a request
stands for one call (`Recycled = {}`).

**Poll.**  The tables follow the sockets that live: each has a descriptor of its
own, the kernel is asked for exactly the descriptors in the tables, and who
writes also reads.  The last is what keeps PollPoll from asking for a descriptor
it has unregistered, and it is why reads may not be disabled there: the theorem
assumes `"poll" \notin Disables`.

**ThreadPool.**  Each work is in one place: waiting, with one worker, or in the
events.  The wake-up that is not lost is stated over the whole path: whoever
waits at the condition while there is work has a notification under way, and
the counter of the event file covers the events that the loop has not taken.
`Counted` is inductive with it: the number that `denotify()` reads of a pipe or
a socket is what the threads wrote.

**DelayHeap.**  heappush() moves a new element up along the ancestors of its
place, heappop() moves elements up along the way of the smaller children and
the last one down to its place in it.  Both only rearrange the elements along a
part of the tree (`Climb`, `Descent`, `Rearranged`), before them all is in order but
at one place (`IsHeapBut`, `IsHeapBelow`), and after them everywhere (`IsHeap`), so
that the first is one of the earliest (`TopIsFirst`).  Only targets are compared,
so the heap of pairs goes through the places of the heap of calls (`Mirror`); what
is held, set aside and pushed back has identifiers of its own (`Unlike`).  Each
step of the loop is then an `Insert`, a `Take` or a stutter of `DelayQueue`.  The
inductions, over places and over lists, are by the least number of a set
(`Strongly`).

**Connection.**  The history `offered` is what was accepted, unit by unit, and
`ends` where each message ends in it.  What is pending is then a contiguous part
of it that begins where the wire ends; `_send()` inside `_send()` keeps that because
each level of `stack` holds only a message that is sent and whose callback is
owed (`OnceOwed`, `Apart` from what is pending).  `NoneForgotten` follows the same
places the other way: a message leaves the queue only to be owed, and is owed
until it is told (`StillOwed`), unless a close, or code of the user that raises
and so closes, drops it.  Nothing is claimed of the order of callbacks: a
listener of "unpend" that sends has its own called before that of the message
around it.  That `pending_s` counts what
is pending needs the other thread's half-done update accounted for
(`Uncounted`).  `NeverStuck` needs that the wake-up of the loop is on its way
whenever nothing else will send, and the theorem assumes `"edge" \notin Disables`.

**Connector.**  A handler is a chain of calls that may raise in the middle:
`Settled` is what each leaves, an error on its way out or a sound connection.
That the caller is told once follows from what it was told against what is
known of the socket and of the handshake (`Honest`, `Ready`), and from each call
being in the turn of the loop once, in a state that the call expects.  The
theorem assumes `"absent" \notin Outcomes`.

**Compat.**  An opening goes through its steps once, and what waits in the queue
says how far it is (`Opening`, `Making`); a protocol that closes will be finished
(`Closing`); who waits is told by the end of the coroutine (`Telling`).

**HTTP/2.**  A state of what is sent is good (`FlowGood`) when the first delayed
frame of each open stream does not fit in its windows (`Starved`), the numbers of
the delayed frames carry on where those that were sent end (`Ordered`), the
window of the connection and what the client has yet to give back of it make up
its size, and the window of a stream with what is owed on it holds a frame
(`Credited`), and a stream that was answered has its last frame among the
delayed ones or its callback to come (`Answering`).  `NothingStuck` follows:
with all credit given back every frame fits, so none can be the first that does
not.  A part is cut into frames and `flush_frames()` goes over what is delayed;
their models are functions by recursion over a sequence, which `RecursionIs`
shows to be what they say and `UpToAll` takes from one index to the next, both
by well-foundedness of the naturals.  The theorem assumes that a frame fits in
the windows that a client offers (`FrameMax <= Window`: 16384 against 65535,
`common/http2.py`) and that none offers a window of 0 for its new streams, by
which a stream is stuck for as long as the client wishes.

**Protocol and Tunnel.**  The calls under way are a stack, and which of them a write
or a flush may be inside is the heart of the invariant: `Stage` says what each
element expects of those above it, `Flows` that what was kept while paused is
flushed by one level, in order, before anything later enters.  `Bounded` needs
`Sums`: the bytes that the connection counts are those of its queue.  In a tunnel
each end that is not read has a message, in the other connection, whose callback
will look again (`Down`, `Up`).  A protocol that may be given data before its
connection is excluded by `"raw" \notin Early`.

**HTTP client.**  An answer belongs to its call because what a connection has in
flight fits the one request its protocol stands for (`Fits`: the request is to
be sent, or on the wire, or its answer is, and an answer begins at the front of
the wire).  A protocol in the pool has none of these (`Pooled`, with `Quiet`),
so who takes it from there cannot meet an older answer; and the one that a
running call holds is in the pool for its host or nobody is (`CallHolds`), so
that none is forgotten.

**Reverse proxy.**  `Linked` makes `conn_map` and the back end of a front inverses
of each other, but for back ends that an upgrade left behind; `Loaded` says that
a back end owes one answer or none, and how far it is; `Told` counts what a
front was sent from the requests it made and from what its back end still owes,
which gives the order of the answers.  `busy_conn` and the counters of the
PriorityDict are then cardinalities, and each step moves one element
(`Counts`).  The theorem assumes `~Pipelining`: with pipelined requests a second
request finds the back end of the first and nothing of this holds (section 4).

**Listener.**  With a poll by edges the only thing that tells a process of a peer
is the event at its arrival: `ListenerInv` says that while someone waits, every
process that polls has its event still to come, and needs that no connection
raises there (which is what Init leaves out).  It assumes `Servers # {}`.

**Prefork.**  The parent reads one line of the pipe for each call of its
wake-up handler, and blocks if there is none.  `Covered` counts: the calls that
wait, the SIGUSR1 that is pending and the children that have yet to write
never exceed the lines, where what `delay_m()` has merged and not cleared is
counted as it will be.  `Phases` says where each signal may come.

**Torrent.**  A state of the task and the disk is good (`TorrentGood`) when every
block the file lacks may be asked for or is in the requests of a connection
that will give it back, and what counts as downloaded is the number of blocks of
the pieces that are whole, all of them good.  A choked connection has no
requests, so that a choke gives all of them back.  The steps are chains of
these facts over the record of the task, as the code goes from one block to the
next.

**SMTP server.**  While a message is received, each value reserved for it holds
exactly what came (`Receiving`): the end of the contents, which may be cut
anywhere, is not in them until it is whole.  What was acknowledged is `Kept`:
one value for each local recipient, one for the relay, the same text in all; and
a later message has a later number (`Before`), so that it touches none of them.

**SMTP client.**  `Shape` says of a session which commands it has sent from
where it is in its list of states, with and without the upgrade.  Of the
message, `Running(W)`: its keys are W, each of which waits to connect, waits for
its turn, or has its session (`KeysApart`, `Turns`); those whose session ended
are `captured`, and the callback was called exactly when they are all of W.

**Pop.**  `Begun`: what came of an answer and what waits to be sent are the words
of it in their places.  While it is asked for either the file is read and every
word in the queue has the callback (`ReadsOn`), whence the two chains cannot
both write the end, or all of it was said (`HasRead`).

**Tftp.**  The position in the file is the number of the block (`Numbered`).
That nobody waits for nothing where nothing is lost needs that a transfer has
exactly one datagram, on its way or pending, and that it is the one that fits
what both sides know (`Talks`).

**Dhcp.**  A lease that was acknowledged, is being decided or is held is in the
pool as long as it says (`Stands`); the pair at the top of the heap is the first
of those that live (`PeekIsFirst`, by well-foundedness of the naturals), so that
an address is taken from the heap only when its lease has ended.  A second that
passes inside a handler (`late`) is where this stops.

## 6. What is only model-checked

* Liveness of all components: it rests on fairness and on ENABLED, of which TLAPS
  proves nothing here.
* What a recursive definition computes for every input is induction over data.
  A function by recursion over the naturals was within reach (Heapq, Dhcp,
  Http2), by a lemma of its own in place of the induction theorems, which take an
  operator as a parameter.  A RECURSIVE operator is not: encodings (`Rsa`, `Dns`,
  `TorrentData`, `WebSocket`), the handlers of `Wsgi`, `Starter` and
  `HttpParser`, which call one another.  These modules declare RECURSIVE
  operators, or use such modules.
* `Discovery` rebuilds its tables by folds over sequences of services, and
  `FileServer` joins the parts of its answers: their invariants speak of what the
  folds compute.
  `Dht` folds too, and computes distances with the bitwise operators, which the
  provers cannot use.

So `CutFree`, `StarterSafety`, `WsgiSafety`, `DiscoverySafety`,
`ProtocolsSafety`, and of `StructuresSafety` the parts of `Dht` and of the codes,
are checked on the instances above, and nothing more is claimed of them.

## 7. What is not modelled

* *FTP*: a data transfer never begins, as the connections of the passive server
  are of the plain class, of which `new_connection()` (`base/common.py:3521-3524`)
  does not tell the server.  *SOCKS*: the constructor of the server reads
  `raw_client` before it is set; its tunnels would be those of Tunnel.
* *Docker and forward proxies*: by the machinery of ReverseProxy and Tunnel.
* *Observable*: `trigger()` iterates the live list of listeners
  (`base/observer.py:89`).
* *Several owners of one poll* (`poll_owner()`, containers), `acquire_c()` and
  `validate_c()` of stream clients, trackers and discovery of torrents.
* *Middleware, storage adapters, authentication, mail signatures, configuration,
  logging, tools*: sequential, without state that lasts, text or pure I/O.
