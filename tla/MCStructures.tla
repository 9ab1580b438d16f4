---------------------------- MODULE MCStructures ----------------------------
(***************************************************************************)
(* DelayHeap, Poll, ThreadPool, Dht, and what is written and read: Rsa,    *)
(* Dns and TorrentData, on small instances.  Each behaviour is one of one  *)
(* of them, the others stay as they begin.                                 *)
(***************************************************************************)
EXTENDS DelayHeap, Poll, ThreadPool, Dht, Rsa, Dns, TorrentData

CONSTANTS flush, task, w1, w2

MCTargets == {-1, 0, 1}

\* each node names the two others; the third has no valid contact
MCNodes == {1, 2, 3}
MCKnows == [n \in MCNodes |-> <<(n % 3) + 1, ((n + 1) % 3) + 1>>]
MCBootstrap == <<1>>

\* the bytes of some lengths about the one where the long form begins
SomeBytes(n) == [i \in 1 .. n |-> i % 16]
MCLeaves ==
    {IntegerNode(n) : n \in {0, 1, 15, 16, 300}} \cup
    {BytesNode("octets", SomeBytes(n)) : n \in {0, 1, 5, 6, 7, 8, 9, 16, 33}} \cup
    {BytesNode("bits", SomeBytes(3)), BytesNode("object", SomeBytes(1)), Null}
MCTrees ==
    MCLeaves \cup {SequenceNode(<<>>)} \cup {SequenceNode(<<l>>) : l \in MCLeaves} \cup
    {SequenceNode(<<SequenceNode(<<l>>), m>>) : l \in MCLeaves, m \in MCLeaves}

MCNames == {<<<<97>>, <<98, 99>>>>, <<<<98, 99>>>>}
MCAddresses4 == {<<10, 200, 3, 255>>}

MCLayouts == {<<7>>, <<8>>, <<3, 3>>, <<2, 1, 1>>, <<1, 4, 2>>, <<1, 1, 1, 5>>}

Letters(n) == [i \in 1 .. n |-> "e"]
TextOf(t) == Value("text", 0, t, <<>>)
Simple ==
    {TextOf(t) : t \in {<<>>, <<"e">>, <<"1", ":">>, Letters(11)}} \cup
    {Value("int", n, <<>>, <<>>) : n \in {0, -7, 12}}
ListOf(items) == Value("list", 0, <<>>, items)
MCRoots ==
    Simple \cup {ListOf(<<>>)} \cup {ListOf(<<s, ListOf(<<t>>)>>) : s \in Simple, t \in Simple} \cup
    {Value("dict", 0, <<>>, <<TextOf(<<"d">>), s, TextOf(<<"e">>), ListOf(<<t>>)>>)
        : s \in Simple, t \in Simple}

VARIABLE part
structureVars == <<part, heapVars, pollVars, poolVars, dhtVars>>
codeVars == <<codingVars, keyVars, dnsVars, storeVars, torrentParserVars>>

Init ==
    /\ part \in {"heap", "poll", "pool", "dht", "asn", "rsa", "dns", "files", "feed",
                 "bencoding"}
    /\ HeapInit /\ DhtInit /\ KeyInit /\ DnsInit
    /\ PollInit /\ (part # "poll" => backend = "epoll")
    /\ PoolInit /\ (part # "pool" => kind = "files")
    /\ part # "pool" \/ kind = "tasks" => file = "unix"
    /\ AsnInit /\ (part # "asn" => coding.tree = Null)
    /\ FilesInit /\ (part # "files" => store.files = <<Zeros(8)>>)
    /\ TorrentParserInit /\ (part # "bencoding" => bencoding.root = ListOf(<<>>))

CodeNext ==
    \/ /\ part = "asn" /\ AsnNext
       /\ UNCHANGED <<keyVars, dnsVars, storeVars, torrentParserVars>>
    \/ /\ part = "rsa" /\ RsaNext
       /\ UNCHANGED <<codingVars, dnsVars, storeVars, torrentParserVars>>
    \/ /\ part = "dns" /\ DnsNext
       /\ UNCHANGED <<codingVars, keyVars, storeVars, torrentParserVars>>
    \/ /\ part = "files" /\ FilesNext
       /\ UNCHANGED <<codingVars, keyVars, dnsVars, torrentParserVars>>
    \/ /\ part = "feed" /\ FeedNext
       /\ UNCHANGED <<codingVars, keyVars, dnsVars, storeVars, bencoding>>
    \/ /\ part = "bencoding" /\ BencodingNext
       /\ UNCHANGED <<codingVars, keyVars, dnsVars, storeVars, feed>>

Next ==
    /\ UNCHANGED part
    /\ \/ /\ part = "heap" /\ HeapNext
          /\ UNCHANGED <<pollVars, poolVars, dhtVars, codeVars>>
       \/ /\ part = "poll" /\ PollNext
          /\ UNCHANGED <<heapVars, poolVars, dhtVars, codeVars>>
       \/ /\ part = "pool" /\ PoolNext
          /\ UNCHANGED <<heapVars, pollVars, dhtVars, codeVars>>
       \/ /\ part = "dht" /\ DhtNext
          /\ UNCHANGED <<heapVars, pollVars, poolVars, codeVars>>
       \/ CodeNext /\ UNCHANGED <<heapVars, pollVars, poolVars, dhtVars>>

\* the threads of a pool start in any part and the clock goes on: what is
\* fair is fair in its own
Fairness ==
    /\ \A t \in Threads : WF_poolVars(part = "pool" /\ ThreadStep(t))
    /\ WF_poolVars(part = "pool" /\ OwnerStep)
    /\ WF_dhtVars(part = "dht" /\ Gc) /\ WF_dhtVars(part = "dht" /\ Tick)

Spec == Init /\ [][Next]_<<structureVars, codeVars>> /\ Fairness

\* what is written is what is read again: keys, names, files and messages,
\* whatever their lengths, the cuts of the stream and the order of the blocks
CodesSafety ==
    /\ part = "asn" => AsnSafety
    /\ part = "rsa" => RsaSafety
    /\ part = "dns" => DnsSafety
    /\ part = "files" => FilesSafety
    /\ part \in {"feed", "bencoding"} => TorrentParserSafety

\* what an index says and what it is of agree: the heaps of calls, the requests
\* and the nodes of the DHT, and what is written and read
StructuresSafety == HeapSafety /\ DhtSafety /\ CodesSafety

\* what is asked of a pool, and of the other nodes, ends
StructuresEnd == PoolEnds /\ LookupsEnd
=============================================================================
