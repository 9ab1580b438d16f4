--------------------------- MODULE SessionProofs ---------------------------
(***************************************************************************)
(* Theorems about torrents and mail.  A block of a torrent that the file   *)
(* lacks may be asked for, or is in the requests of a connection that will *)
(* give it back; the contents of a message that an SMTP server receives    *)
(* are the same in each value it reserved for it, and a message that it    *)
(* has acknowledged is never touched again; a session of an SMTP client is *)
(* where what it has sent says, and those of one message part its keys.    *)
(*                                                                         *)
(* Two invariants are predicates of constants that the state satisfies:    *)
(* `TorrentGood' of the torrent and the file, `MailGood' of a connection,  *)
(* its values, what it relayed and acknowledged, and what the client sends.*)
(* `DeliveryInv' is of the client's variables.                             *)
(***************************************************************************)
EXTENDS Torrent, Mail, SequenceTheorems, FiniteSetTheorems, WellFoundedInduction, TLAPS

(* Torrent.                                                                *)

LEMMA OneMore ==
    ASSUME NEW S, IsFiniteSet(S), NEW x, x \notin S, NEW T, T = S \cup {x}
    PROVE  Cardinality(T) = Cardinality(S) + 1
  BY FS_AddElement

\* A set of numbers has a least one.
LEMMA Least ==
    ASSUME NEW S, S \subseteq Nat, S # {}
    PROVE  \E m \in S : \A n \in S : m <= n
<1>1. PICK R : R = OpToRel(<, Nat)
  OBVIOUS
<1>2. IsWellFoundedOn(R, Nat)
  BY <1>1, NatLessThanWellFounded
<1>3. PICK m \in S : \A n \in S : ~(<<n, m>> \in R)
  BY <1>2, WFMin
<1>4. \A n \in S : n \in Nat /\ m \in Nat /\ (n < m => <<n, m>> \in R)
  BY <1>1 DEF OpToRel
<1>5. ASSUME NEW n \in S PROVE m <= n
  <2>1. n \in Nat /\ m \in Nat
    OBVIOUS
  <2>2. ~(n < m)
    BY <1>3, <1>4
  <2> QED BY <2>1, <2>2
<1> QED BY <1>5

\* how many are before an element
Rank(S, b) == Cardinality({d \in S : d < b})

\* The elements of a set of numbers have all of the ranks.
LEMMA Ranked ==
    ASSUME NEW S, S \subseteq Nat, IsFiniteSet(S), NEW r \in Nat, r < Cardinality(S)
    PROVE  \E b \in S : Rank(S, b) = r
<1> DEFINE Bare == {k \in Nat : k < Cardinality(S) /\ ~ \E b \in S : Rank(S, b) = k}
<1> SUFFICES ASSUME Bare # {} PROVE FALSE
  OBVIOUS
<1>1. PICK k \in Bare : \A n \in Bare : k <= n
  <2>1. Bare \subseteq Nat
    OBVIOUS
  <2> HIDE DEF Bare
  <2> QED BY <2>1, Least
<1>2. k \in Nat /\ k < Cardinality(S) /\ ~ \E b \in S : Rank(S, b) = k
  OBVIOUS
<1>3. \A n \in Nat : n < k => \E b \in S : Rank(S, b) = n
  <2>1. SUFFICES ASSUME NEW n \in Nat, n < k PROVE \E b \in S : Rank(S, b) = n
    OBVIOUS
  <2>2. n \notin Bare
    BY <1>1, <1>2, <2>1
  <2>3. Cardinality(S) \in Nat
    BY FS_CardinalityType
  <2> QED BY <1>2, <2>1, <2>2, <2>3
<1> HIDE DEF Bare
<1>4. CASE k = 0
  <2>1. S # {}
    BY <1>2, <1>4, FS_EmptySet
  <2>2. PICK b \in S : \A d \in S : b <= d
    BY <2>1, Least
  <2>3. {d \in S : d < b} = {}
    <3>1. ASSUME NEW d \in S PROVE ~(d < b)
      <4>1. d \in Nat /\ b \in Nat /\ b <= d
        BY <2>2
      <4> QED BY <4>1
    <3> QED BY <3>1
  <2>4. Rank(S, b) = 0
    BY <2>3, FS_EmptySet DEF Rank
  <2> QED BY <1>2, <1>4, <2>2, <2>4
<1>5. CASE k # 0
  <2>1. PICK a \in S : Rank(S, a) = k - 1
    BY <1>2, <1>3, <1>5
  <2>2. PICK A : A = {d \in S : d < a}
    OBVIOUS
  <2>3. IsFiniteSet(A) /\ Cardinality(A) = k - 1 /\ a \notin A
    <3>1. A \in SUBSET S
      BY <2>2
    <3>2. Cardinality(A) = k - 1
      BY <2>1, <2>2 DEF Rank
    <3> QED BY <2>2, <3>1, <3>2, FS_Subset
  <2>4. PICK B : B = A \cup {a}
    OBVIOUS
  <2>5. Cardinality(B) = k
    <3>1. Cardinality(B) = Cardinality(A) + 1
      BY <2>3, <2>4, OneMore
    <3> QED BY <1>2, <2>3, <3>1
  <2>6. PICK C : C = S \ B
    OBVIOUS
  <2>7. C # {}
    <3>1. SUFFICES ASSUME C = {} PROVE FALSE
      OBVIOUS
    <3>2. S = B
      BY <2>2, <2>4, <2>6, <3>1
    <3> QED BY <1>2, <2>5, <3>2
  <2>8. PICK b \in C : \A d \in C : b <= d
    <3>1. C \subseteq Nat
      BY <2>6
    <3> QED BY <2>7, <3>1, Least
  <2>9. \A d \in S : d \in B <=> d < b
    <3>1. \A d \in S : d \in Nat
      OBVIOUS
    <3>2. b \in S /\ ~(b < a) /\ b # a
      BY <2>2, <2>4, <2>6, <2>8
    <3>3. \A d \in S : d \in B <=> d < a \/ d = a
      BY <2>2, <2>4
    <3>4. \A d \in S : d \notin B => b <= d
      BY <2>6, <2>8
    <3> QED BY <3>1, <3>2, <3>3, <3>4
  <2>10. B = {d \in S : d < b}
    BY <2>2, <2>4, <2>9
  <2>11. Rank(S, b) = k /\ b \in S
    BY <2>5, <2>6, <2>8, <2>10 DEF Rank
  <2> QED BY <1>2, <2>11
<1> QED BY <1>4, <1>5

-----------------------------------------------------------------------------
(* The torrent.                                                            *)

Statuses == {"unknown", "connecting", "open", "closing", "closed"}
PeerOf == [status : Statuses, shaken : BOOLEAN, choked : BOOLEAN,
           bitfield : SUBSET (0 .. NumberPieces - 1), requests : Seq(Blocks)]
TorrentStates ==
    [requested : SUBSET Blocks, stored : SUBSET Blocks, peers : [Peers -> PeerOf],
     toPeer : [Peers -> Seq(Blocks)], task : {"metadata", "running", "unloaded"},
     downloaded : Nat]

\* the requests of the connections
Flight(ps) == UNION {ToSet(ps[p].requests) : p \in Peers}

\* the blocks of the pieces that are whole
Pieces == 0 .. NumberPieces - 1
Done(st) == UNION {BlocksOf(i) : i \in {j \in Pieces : BlocksOf(j) \cap st = {}}}
Whole(st, n, d) == (\A b \in Done(st) : d[b] = "good") /\ n = Cardinality(Done(st))

\* a state of the task with what is on the disk
TorrentGood(s, d) ==
    /\ s \in TorrentStates
    /\ \A p \in Peers : s.peers[p].choked => s.peers[p].requests = <<>>
    /\ s.task = "metadata" => s.requested = Blocks /\ s.stored = Blocks
    /\ s.task = "running" => s.stored \subseteq s.requested \cup Flight(s.peers)
    /\ Whole(s.stored, s.downloaded, d)
    /\ s.stored = {} <=> s.task = "unloaded"

TorrentInv ==
    /\ TorrentGood(Now, disk)
    /\ disk \in [Blocks -> {"none", "good", "bad"}]
    /\ completes = IF stored = {} THEN 1 ELSE 0
    /\ asking \subseteq Peers

LEMMA TorrentConstants ==
    /\ Blocks \subseteq Nat /\ Blocks # {} /\ IsFiniteSet(Blocks)
    /\ MaxRequests \in Nat /\ NumberBlocks \in Nat /\ NumberBlocks # 0
    /\ \A p \in Peers : Holds[p] \in SUBSET Pieces
<1>1. /\ NumberPieces \in Nat /\ NumberPieces - 1 \in Nat
      /\ NumberBlocks \in Nat /\ NumberBlocks # 0 /\ FinalBlocks \in Nat /\ FinalBlocks # 0
  BY TorrentAssumption
<1>2. PICK n : n = (NumberPieces - 1) * NumberBlocks
  OBVIOUS
<1>3. n \in Nat
  BY <1>1, <1>2
<1>4. PICK m : m = n + FinalBlocks - 1
  OBVIOUS
<1>5. m \in Nat /\ Blocks = 0 .. m
  BY <1>1, <1>2, <1>3, <1>4 DEF Blocks
<1>6. IsFiniteSet(0 .. m)
  BY <1>5, FS_Interval
<1> QED BY <1>1, <1>5, <1>6, TorrentAssumption DEF Pieces

\* A block is of a piece, and of one.
LEMMA PieceOf ==
    ASSUME NEW b \in Blocks
    PROVE  Piece(b) \in Pieces /\ b \in BlocksOf(Piece(b))
<1>1. /\ NumberPieces \in Nat /\ NumberPieces - 1 \in Nat
      /\ NumberBlocks \in Nat /\ NumberBlocks # 0 /\ FinalBlocks \in Nat
      /\ FinalBlocks <= NumberBlocks
  BY TorrentAssumption
<1>2. b \in Nat /\ b < (NumberPieces - 1) * NumberBlocks + FinalBlocks
  BY <1>1 DEF Blocks
<1>3. PICK q : q = b \div NumberBlocks
  OBVIOUS
<1>4. q \in Nat /\ q * NumberBlocks <= b
  BY <1>1, <1>2, <1>3
<1>5. q < NumberPieces
  BY <1>1, <1>2, <1>4
<1> QED BY <1>1, <1>3, <1>4, <1>5 DEF Pieces, Piece, BlocksOf

LEMMA TakenBlocks ==
    ASSUME NEW s \in TorrentStates, NEW p \in Peers, NEW count \in Int
    PROVE  /\ Taken(s, p, count) \in Seq(Blocks)
           /\ s.task # "running" => Taken(s, p, count) = <<>>
<1> DEFINE wanted == Wanted(s, p)
           least == IF count < Cardinality(wanted) THEN count ELSE Cardinality(wanted)
           f == [i \in 1 .. least |-> Nth(wanted, i)]
           g == [i \in 1 .. count |-> Nth(wanted, 1)]
<1>1. /\ s.task # "running" \/ wanted = {} => Taken(s, p, count) = <<>>
      /\ s.task = "running" /\ wanted # {} /\ AtEnd(s) => Taken(s, p, count) = g
      /\ s.task = "running" /\ wanted # {} /\ ~AtEnd(s) => Taken(s, p, count) = f
  BY DEF Taken
<1>2. wanted \subseteq Blocks /\ wanted \subseteq Nat /\ IsFiniteSet(wanted)
  <2>1. wanted \subseteq Blocks
    BY DEF Wanted, TorrentStates
  <2> QED BY <2>1, TorrentConstants, FS_Subset
<1> HIDE DEF wanted
<1>3. \A i \in Nat : i # 0 /\ i <= Cardinality(wanted) => Nth(wanted, i) \in Blocks
  <2>1. SUFFICES ASSUME NEW i \in Nat, i # 0, i <= Cardinality(wanted)
                 PROVE  Nth(wanted, i) \in Blocks
    OBVIOUS
  <2>2. i - 1 \in Nat /\ i - 1 < Cardinality(wanted)
    BY <1>2, <2>1, FS_CardinalityType
  <2>3. \E b \in wanted : Rank(wanted, b) = i - 1
    BY <1>2, <2>2, Ranked
  <2>4. \E b \in wanted : Cardinality({d \in wanted : d < b}) = i - 1
    BY <2>3 DEF Rank
  <2>5. Nth(wanted, i) \in wanted
    BY <2>4 DEF Nth
  <2> QED BY <1>2, <2>5
<1>4. Cardinality(wanted) \in Nat /\ least \in Int /\ least <= Cardinality(wanted)
  BY <1>2, FS_CardinalityType
<1> HIDE DEF least
<1>5. \A n \in Int : \A h \in [1 .. n -> Blocks] : h \in Seq(Blocks)
  <2>1. SUFFICES ASSUME NEW n \in Int, NEW h \in [1 .. n -> Blocks]
                 PROVE  h \in Seq(Blocks)
    OBVIOUS
  <2>2. CASE n \in Nat
    BY <2>1, <2>2
  <2>3. CASE n \notin Nat
    <3>1. 1 .. n = 1 .. 0
      BY <2>3
    <3>2. h \in [1 .. 0 -> Blocks]
      BY <3>1
    <3> QED BY <3>2
  <2> QED BY <2>2, <2>3
<1>6. f \in Seq(Blocks)
  <2>1. \A i \in 1 .. least : Nth(wanted, i) \in Blocks
    BY <1>3, <1>4
  <2>2. f \in [1 .. least -> Blocks]
    BY <2>1
  <2> QED BY <1>4, <1>5, <2>2
<1>7. wanted # {} => g \in Seq(Blocks)
  <2>1. SUFFICES ASSUME wanted # {} PROVE g \in Seq(Blocks)
    OBVIOUS
  <2>2. Cardinality(wanted) # 0
    BY <1>2, <2>1, FS_EmptySet
  <2>3. Nth(wanted, 1) \in Blocks
    BY <1>3, <1>4, <2>2
  <2>4. g \in [1 .. count -> Blocks]
    BY <2>3
  <2> QED BY <1>5, <2>4
<1>8. <<>> \in Seq(Blocks)
  OBVIOUS
<1> QED BY <1>1, <1>6, <1>7, <1>8

\* Requests that are added, and those that are taken away.
LEMMA FlightChanges ==
    ASSUME NEW ps, NEW qs, NEW p \in Peers, NEW X,
           \A q \in Peers \ {p} : qs[q].requests = ps[q].requests,
           ToSet(ps[p].requests) \ X \subseteq ToSet(qs[p].requests)
    PROVE  Flight(ps) \ X \subseteq Flight(qs)
<1>1. SUFFICES ASSUME NEW b \in Flight(ps), b \notin X PROVE b \in Flight(qs)
  OBVIOUS
<1>2. PICK q \in Peers : b \in ToSet(ps[q].requests)
  BY <1>1 DEF Flight
<1>3. b \in ToSet(qs[q].requests)
  BY <1>1, <1>2
<1> QED BY <1>3 DEF Flight

LEMMA ToSetOfTwo ==
    ASSUME NEW q \in Seq(Blocks), NEW r \in Seq(Blocks)
    PROVE  /\ q \o r \in Seq(Blocks) /\ ToSet(q \o r) = ToSet(q) \cup ToSet(r)
           /\ ToSet(q) \subseteq Blocks
<1>1. /\ q \o r \in Seq(Blocks) /\ Len(q \o r) = Len(q) + Len(r)
      /\ \A i \in 1 .. Len(q) + Len(r) :
             (q \o r)[i] = IF i <= Len(q) THEN q[i] ELSE r[i - Len(q)]
      /\ Len(q) \in Nat /\ Len(r) \in Nat
  BY ConcatProperties, LenProperties
<1>2. /\ DOMAIN q = 1 .. Len(q) /\ DOMAIN r = 1 .. Len(r)
      /\ DOMAIN (q \o r) = 1 .. Len(q) + Len(r)
  BY <1>1, LenProperties
<1>3. ASSUME NEW b \in ToSet(q \o r) PROVE b \in ToSet(q) \cup ToSet(r)
  <2>1. PICK i \in 1 .. Len(q) + Len(r) : b = (q \o r)[i]
    BY <1>2 DEF ToSet
  <2>2. CASE i <= Len(q)
    BY <1>1, <1>2, <2>1, <2>2 DEF ToSet
  <2>3. CASE ~(i <= Len(q))
    <3>1. i - Len(q) \in 1 .. Len(r)
      BY <1>1, <2>3
    <3> QED BY <1>1, <1>2, <2>1, <2>3, <3>1 DEF ToSet
  <2> QED BY <2>2, <2>3
<1>4. ASSUME NEW b \in ToSet(q) PROVE b \in ToSet(q \o r)
  <2>1. PICK i \in 1 .. Len(q) : b = q[i]
    BY <1>2 DEF ToSet
  <2>2. i \in 1 .. Len(q) + Len(r) /\ i <= Len(q)
    BY <1>1
  <2> QED BY <1>1, <1>2, <2>1, <2>2 DEF ToSet
<1>5. ASSUME NEW b \in ToSet(r) PROVE b \in ToSet(q \o r)
  <2>1. PICK i \in 1 .. Len(r) : b = r[i]
    BY <1>2 DEF ToSet
  <2>2. PICK k : k = i + Len(q)
    OBVIOUS
  <2>3. k \in 1 .. Len(q) + Len(r) /\ ~(k <= Len(q)) /\ k - Len(q) = i
    BY <1>1, <2>2
  <2> QED BY <1>1, <1>2, <2>1, <2>3 DEF ToSet
<1>6. ToSet(q) \subseteq Blocks
  BY <1>2 DEF ToSet
<1> QED BY <1>1, <1>3, <1>4, <1>5, <1>6

\* remove_request() takes one away.
LEMMA RemoveOne ==
    ASSUME NEW q \in Seq(Blocks), NEW b \in ToSet(q)
    PROVE  /\ RemoveFirst(q, b) \in Seq(Blocks)
           /\ ToSet(q) \ {b} \subseteq ToSet(RemoveFirst(q, b))
<1>1. DOMAIN q = 1 .. Len(q) /\ Len(q) \in Nat
  BY LenProperties
<1>2. PICK I : I = {i \in 1 .. Len(q) : q[i] = b}
  OBVIOUS
<1>3. I # {} /\ I \subseteq Nat
  BY <1>1, <1>2 DEF ToSet
<1>4. PICK i : i = SelectInSeq(q, LAMBDA v : v = b)
  OBVIOUS
<1>5. i = Min(I)
  BY <1>2, <1>3, <1>4 DEF SelectInSeq
<1>6. i \in I
  BY <1>3, <1>5, Least DEF Min
<1>7. PICK u : u = SubSeq(q, 1, i - 1)
  OBVIOUS
<1>8. PICK v : v = SubSeq(q, i + 1, Len(q))
  OBVIOUS
<1>9. i \in 1 .. Len(q) /\ q[i] = b
  BY <1>2, <1>6
<1>10. /\ u \in Seq(Blocks) /\ Len(u) = i - 1
       /\ \A k \in 1 .. i - 1 : u[k] = q[k]
  BY <1>1, <1>7, <1>9
<1>11. /\ v \in Seq(Blocks) /\ Len(v) = Len(q) - i
       /\ \A k \in 1 .. Len(q) - i : v[k] = q[i + k]
  <2>1. PICK m : m = i + 1
    OBVIOUS
  <2>2. /\ m \in Int /\ Len(q) \in Int /\ m <= Len(q) + 1
        /\ \A k \in m .. Len(q) : q[k] \in Blocks
    BY <1>1, <1>9, <2>1
  <2>3. /\ v \in Seq(Blocks) /\ Len(v) = IF m <= Len(q) THEN Len(q) - m + 1 ELSE 0
        /\ \A k \in 1 .. Len(q) - m + 1 : v[k] = q[m + k - 1]
    BY <1>8, <2>1, <2>2, SubSeqProperties
  <2>4. Len(q) - m + 1 = Len(q) - i /\ Len(v) = Len(q) - i
    <3>1. PICK n \in Nat : n = Len(q)
      BY <1>1
    <3>2. i \in Nat /\ i <= n
      BY <1>9, <3>1
    <3>3. n - m + 1 = n - i /\ (m <= n \/ n = i)
      BY <2>1, <3>1, <3>2
    <3>4. Len(v) = IF m <= n THEN n - m + 1 ELSE 0
      BY <2>3, <3>1
    <3> QED BY <3>1, <3>2, <3>3, <3>4
  <2>5. ASSUME NEW k \in 1 .. Len(q) - i PROVE m + k - 1 = i + k
    BY <1>1, <1>9, <2>1
  <2> QED BY <2>3, <2>4, <2>5
<1>12. RemoveFirst(q, b) = u \o v
  BY <1>4, <1>7, <1>8, <1>9 DEF RemoveFirst, RemoveAt
<1>13. ASSUME NEW c \in ToSet(q), c # b PROVE c \in ToSet(u) \cup ToSet(v)
  <2>1. PICK k \in 1 .. Len(q) : c = q[k]
    BY <1>1 DEF ToSet
  <2>2. DOMAIN u = 1 .. i - 1 /\ DOMAIN v = 1 .. Len(q) - i
    BY <1>10, <1>11, LenProperties
  <2>3. CASE k < i
    <3>1. k \in 1 .. i - 1
      BY <1>9, <2>3
    <3> QED BY <1>10, <2>1, <2>2, <3>1 DEF ToSet
  <2>4. CASE k > i
    <3>1. PICK m : m = k - i
      OBVIOUS
    <3>2. m \in 1 .. Len(q) - i /\ k = i + m
      BY <1>9, <2>4, <3>1
    <3> QED BY <1>11, <2>1, <2>2, <3>2 DEF ToSet
  <2>5. k # i /\ k \in Int /\ i \in Int
    BY <1>9, <1>13, <2>1
  <2> QED BY <2>3, <2>4, <2>5
<1> QED BY <1>10, <1>11, <1>12, <1>13, ToSetOfTwo

\* One connection has other requests.
Requests(ps, p, x) == [ps EXCEPT ![p].requests = x]
LEMMA RequestsOf ==
    ASSUME NEW ps \in [Peers -> PeerOf], NEW p \in Peers, NEW x \in Seq(Blocks)
    PROVE  /\ Requests(ps, p, x) \in [Peers -> PeerOf]
           /\ Requests(ps, p, x)[p].requests = x
           /\ Requests(ps, p, x)[p].choked = ps[p].choked
           /\ \A q \in Peers \ {p} : Requests(ps, p, x)[q] = ps[q]
  BY DEF Requests, PeerOf

\* next() loses no block.
LEMMA AskedGood ==
    ASSUME NEW s, NEW d, NEW p \in Peers, TorrentGood(s, d)
    PROVE  TorrentGood(Asked(s, p), d) /\ Asked(s, p).stored = s.stored
<1>1. s \in TorrentStates
  BY DEF TorrentGood
<1>2. CASE s.peers[p].choked
  <2>1. Asked(s, p) = s
    BY <1>2 DEF Asked
  <2> QED BY <2>1
<1>3. CASE ~s.peers[p].choked
  <2>1. PICK old : old = s.peers[p].requests
    OBVIOUS
  <2>2. PICK count : count = MaxRequests - Len(old)
    OBVIOUS
  <2>3. old \in Seq(Blocks) /\ count \in Int
    <3>1. old \in Seq(Blocks)
      BY <1>1, <2>1 DEF TorrentStates, PeerOf
    <3> QED BY <2>2, <3>1, TorrentConstants, LenProperties
  <2>4. PICK taken : taken = Taken(s, p, count)
    OBVIOUS
  <2>5. taken \in Seq(Blocks) /\ (s.task # "running" => taken = <<>>)
    BY <1>1, <2>3, <2>4, TakenBlocks
  <2>6. PICK x : x = old \o taken
    OBVIOUS
  <2>7. PICK y : y = s.toPeer[p] \o taken
    OBVIOUS
  <2>8. PICK z : z = IF AtEnd(s) THEN s.requested ELSE s.requested \ ToSet(taken)
    OBVIOUS
  <2>9. /\ s.toPeer[p] \in Seq(Blocks) /\ s.requested \in SUBSET Blocks
        /\ s.peers \in [Peers -> PeerOf]
    BY <1>1 DEF TorrentStates
  <2>10. /\ x \in Seq(Blocks) /\ ToSet(x) = ToSet(old) \cup ToSet(taken)
         /\ y \in Seq(Blocks)
    BY <2>3, <2>5, <2>6, <2>7, <2>9, ToSetOfTwo
  <2>11. PICK ps : ps = Requests(s.peers, p, x)
    OBVIOUS
  <2>12. /\ ps \in [Peers -> PeerOf] /\ ps[p].requests = x
         /\ ps[p].choked = s.peers[p].choked
         /\ \A q \in Peers \ {p} : ps[q] = s.peers[q]
    BY <2>9, <2>10, <2>11, RequestsOf
  <2>13. PICK u : u = Asked(s, p)
    OBVIOUS
  <2>14. u = [s EXCEPT !.peers = ps, !.toPeer = [s.toPeer EXCEPT ![p] = y],
                       !.requested = z]
    BY <1>1, <1>3, <2>1, <2>2, <2>4, <2>6, <2>7, <2>8, <2>9, <2>11, <2>13
       DEF Asked, Requests, TorrentStates
  <2>15. z \in SUBSET Blocks /\ [s.toPeer EXCEPT ![p] = y] \in [Peers -> Seq(Blocks)]
    BY <1>1, <2>8, <2>9, <2>10 DEF TorrentStates
  <2>16. /\ u \in TorrentStates /\ u.peers = ps /\ u.requested = z
         /\ u.stored = s.stored /\ u.task = s.task /\ u.downloaded = s.downloaded
    BY <1>1, <2>12, <2>14, <2>15 DEF TorrentStates
  <2>17. \A q \in Peers : u.peers[q].choked => u.peers[q].requests = <<>>
    BY <1>3, <2>12, <2>16 DEF TorrentGood
  <2>18. u.task = "metadata" => u.requested = Blocks /\ u.stored = Blocks
    <3>1. SUFFICES ASSUME u.task = "metadata" PROVE u.requested = Blocks /\ u.stored = Blocks
      OBVIOUS
    <3>2. taken = <<>> /\ s.requested = Blocks /\ s.stored = Blocks
      BY <2>5, <2>16, <3>1 DEF TorrentGood
    <3>3. ToSet(taken) = {}
      BY <3>2 DEF ToSet
    <3> QED BY <2>8, <2>16, <3>2, <3>3
  <2>19. u.task = "running" => u.stored \subseteq u.requested \cup Flight(u.peers)
    <3>1. Flight(s.peers) \ {} \subseteq Flight(ps)
      BY <2>1, <2>10, <2>12, FlightChanges
    <3>2. ToSet(taken) \subseteq Flight(ps)
      BY <2>10, <2>12 DEF Flight
    <3> QED BY <2>8, <2>16, <3>1, <3>2 DEF TorrentGood
  <2>20. Whole(u.stored, u.downloaded, d) /\ (u.stored = {} <=> u.task = "unloaded")
    BY <2>16 DEF TorrentGood
  <2> QED BY <2>13, <2>16, <2>17, <2>18, <2>19, <2>20 DEF TorrentGood
<1> QED BY <1>2, <1>3

\* release() gives the requests back.
LEMMA ReleasedGood ==
    ASSUME NEW s, NEW d, NEW p \in Peers, TorrentGood(s, d), NEW u, u = Released(s, p)
    PROVE  /\ TorrentGood(u, d) /\ u.stored = s.stored /\ u.task = s.task
           /\ u.downloaded = s.downloaded /\ u.toPeer = s.toPeer
           /\ u.peers = Requests(s.peers, p, <<>>)
<1>1. s \in TorrentStates
  BY DEF TorrentGood
<1>2. PICK old : old = s.peers[p].requests
  OBVIOUS
<1>3. /\ old \in Seq(Blocks) /\ <<>> \in Seq(Blocks) /\ s.peers \in [Peers -> PeerOf]
      /\ s.requested \in SUBSET Blocks
  BY <1>1, <1>2 DEF TorrentStates, PeerOf
<1>4. PICK ps : ps = Requests(s.peers, p, <<>>)
  OBVIOUS
<1>5. /\ ps \in [Peers -> PeerOf] /\ ps[p].requests = <<>>
      /\ ps[p].choked = s.peers[p].choked
      /\ \A q \in Peers \ {p} : ps[q] = s.peers[q]
  <2>1. PICK none : none = <<>> /\ none \in Seq(Blocks)
    BY <1>3
  <2>2. ps = Requests(s.peers, p, none)
    BY <1>4, <2>1
  <2>3. none \in Seq(Blocks) /\ s.peers \in [Peers -> PeerOf]
    BY <1>3, <2>1
  <2>4. /\ ps \in [Peers -> PeerOf] /\ ps[p].requests = none
        /\ ps[p].choked = s.peers[p].choked
        /\ \A q \in Peers \ {p} : ps[q] = s.peers[q]
    BY <2>2, <2>3, RequestsOf
  <2> QED BY <2>1, <2>4
<1>6. PICK z : z = IF s.task = "unloaded" THEN s.requested
                   ELSE s.requested \cup ToSet(old)
  OBVIOUS
<1>7. z \in SUBSET Blocks
  BY <1>3, <1>6, ToSetOfTwo
<1>8. u = [s EXCEPT !.requested = z, !.peers = ps]
  BY <1>1, <1>2, <1>3, <1>4, <1>6 DEF Released, Requests, TorrentStates
<1>9. /\ u \in TorrentStates /\ u.peers = ps /\ u.requested = z
      /\ u.stored = s.stored /\ u.task = s.task /\ u.downloaded = s.downloaded
      /\ u.toPeer = s.toPeer
  BY <1>1, <1>5, <1>7, <1>8 DEF TorrentStates
<1>10. \A q \in Peers : u.peers[q].choked => u.peers[q].requests = <<>>
  BY <1>5, <1>9 DEF TorrentGood
<1>11. u.task = "metadata" => u.requested = Blocks /\ u.stored = Blocks
  BY <1>6, <1>7, <1>9 DEF TorrentGood
<1>12. u.task = "running" => u.stored \subseteq u.requested \cup Flight(u.peers)
  <2>1. ToSet(s.peers[p].requests) \ ToSet(old) \subseteq ToSet(ps[p].requests)
    BY <1>2
  <2>2. Flight(s.peers) \ ToSet(old) \subseteq Flight(ps)
    BY <1>5, <2>1, FlightChanges
  <2> QED BY <1>6, <1>9, <2>2 DEF TorrentGood
<1>13. Whole(u.stored, u.downloaded, d) /\ (u.stored = {} <=> u.task = "unloaded")
  BY <1>9 DEF TorrentGood
<1> QED BY <1>4, <1>9, <1>10, <1>11, <1>12, <1>13 DEF TorrentGood

\* the file `e' is `d' but for a block
SameBut(e, d, b) == \A c \in Blocks \ {b} : e[c] = d[c]

\* A piece more is whole, and those before it stay.
LEMMA PieceDone ==
    ASSUME NEW st \in SUBSET Blocks, NEW n, NEW d, NEW e, NEW b \in st,
           Whole(st, n, d), NEW t, t = st \ {b}, SameBut(e, d, b)
    PROVE  /\ t \cap BlocksOf(Piece(b)) # {} => Whole(t, n, e)
           /\ t \cap BlocksOf(Piece(b)) = {} =>
                  /\ Whole(t \cup BlocksOf(Piece(b)), n, e)
                  /\ (\A c \in BlocksOf(Piece(b)) : e[c] = "good") =>
                         Whole(t, n + Cardinality(BlocksOf(Piece(b))), e)
<1>1. PICK k : k = Piece(b)
  OBVIOUS
<1>2. k \in Pieces /\ b \in BlocksOf(k)
  BY <1>1, PieceOf
<1>3. \A i \in Pieces : \A c \in BlocksOf(i) : c \in Blocks /\ Piece(c) = i
  BY DEF BlocksOf
<1>4. \A i \in Pieces \ {k} : b \notin BlocksOf(i)
  BY <1>1, <1>3
<1>5. b \notin Done(st)
  BY <1>2, <1>4 DEF Done
<1>6. \A c \in Done(st) : e[c] = d[c] /\ e[c] = "good"
  <2>1. Done(st) \subseteq Blocks
    BY <1>3 DEF Done
  <2> QED BY <1>5, <2>1 DEF Whole, SameBut
<1>7. \A i \in Pieces \ {k} : BlocksOf(i) \cap t = BlocksOf(i) \cap st
  BY <1>4
<1>8. CASE t \cap BlocksOf(k) # {}
  <2>1. \A i \in Pieces : BlocksOf(i) \cap t = {} <=> BlocksOf(i) \cap st = {}
    BY <1>2, <1>7, <1>8
  <2>2. Done(t) = Done(st)
    BY <2>1 DEF Done
  <2> QED BY <1>1, <1>6, <1>8, <2>2 DEF Whole
<1>9. CASE t \cap BlocksOf(k) = {}
  <2>1. PICK r : r = t \cup BlocksOf(k)
    OBVIOUS
  <2>2. \A i \in Pieces \ {k} : BlocksOf(i) \cap BlocksOf(k) = {}
    BY <1>2, <1>3
  <2>3. \A i \in Pieces : BlocksOf(i) \cap r = {} <=> BlocksOf(i) \cap st = {}
    BY <1>2, <1>7, <2>1, <2>2
  <2>4. Done(r) = Done(st)
    BY <2>3 DEF Done
  <2>5. Whole(r, n, e)
    BY <1>6, <2>4 DEF Whole
  <2>6. Done(t) = Done(st) \cup BlocksOf(k)
    <3>1. ASSUME NEW c \in Done(t) PROVE c \in Done(st) \cup BlocksOf(k)
      <4>1. PICK i \in Pieces : BlocksOf(i) \cap t = {} /\ c \in BlocksOf(i)
        BY <3>1 DEF Done
      <4>2. CASE i = k
        BY <4>1, <4>2
      <4>3. CASE i # k
        BY <1>7, <4>1, <4>3 DEF Done
      <4> QED BY <4>2, <4>3
    <3>2. ASSUME NEW c \in Done(st) PROVE c \in Done(t)
      <4>1. PICK i \in Pieces : BlocksOf(i) \cap st = {} /\ c \in BlocksOf(i)
        BY <3>2 DEF Done
      <4>2. BlocksOf(i) \cap t = {}
        BY <4>1
      <4> QED BY <4>1, <4>2 DEF Done
    <3>3. ASSUME NEW c \in BlocksOf(k) PROVE c \in Done(t)
      BY <1>2, <1>9, <3>3 DEF Done
    <3> QED BY <3>1, <3>2, <3>3
  <2>7. ASSUME \A c \in BlocksOf(k) : e[c] = "good"
        PROVE  Whole(t, n + Cardinality(BlocksOf(k)), e)
    <3>1. Done(st) \cap BlocksOf(k) = {}
      <4>1. SUFFICES ASSUME NEW c \in Done(st), c \in BlocksOf(k) PROVE FALSE
        OBVIOUS
      <4>2. PICK i \in Pieces : BlocksOf(i) \cap st = {} /\ c \in BlocksOf(i)
        BY <4>1 DEF Done
      <4>3. i = k
        BY <1>2, <1>3, <4>1, <4>2
      <4> QED BY <1>2, <4>2, <4>3
    <3>2. Done(st) \subseteq Blocks /\ BlocksOf(k) \subseteq Blocks
      BY <1>2, <1>3 DEF Done
    <3>3. IsFiniteSet(Done(st)) /\ IsFiniteSet(BlocksOf(k))
      BY <3>2, TorrentConstants, FS_Subset
    <3>4. /\ Cardinality(Done(st)) \in Nat /\ Cardinality(BlocksOf(k)) \in Nat
          /\ Cardinality(Done(st) \cap BlocksOf(k)) = 0
      BY <3>1, <3>3, FS_CardinalityType, FS_EmptySet
    <3>5. Cardinality(Done(t)) = Cardinality(Done(st)) + Cardinality(BlocksOf(k))
      <4>1. Cardinality(Done(t)) = Cardinality(Done(st)) + Cardinality(BlocksOf(k))
                                   - Cardinality(Done(st) \cap BlocksOf(k))
        BY <2>6, <3>3, FS_Union
      <4> QED BY <3>4, <4>1
    <3>6. \A c \in Done(t) : e[c] = "good"
      BY <1>6, <2>6, <2>7
    <3> QED BY <3>5, <3>6 DEF Whole
  <2> QED BY <1>1, <1>9, <2>1, <2>5, <2>7
<1> QED BY <1>1, <1>8, <1>9

\* set_data(): the last block of a piece has it counted, or asked for again.
LEMMA SetDataGood ==
    ASSUME NEW s, NEW d, TorrentGood(s, d), s.task = "running", NEW b \in s.stored,
           NEW e, SameBut(e, d, b), NEW u, u = SetData(s, e, b)
    PROVE  /\ TorrentGood(u, e) /\ (b \in u.stored => b \in u.requested)
           /\ u.toPeer = s.toPeer
           /\ IF u.stored = {} THEN u.task = "unloaded" ELSE u.task = "running"
<1>1. /\ s \in TorrentStates /\ s.stored \in SUBSET Blocks /\ b \in Blocks
      /\ s.requested \in SUBSET Blocks /\ s.downloaded \in Nat
      /\ s.peers \in [Peers -> PeerOf]
      /\ s.stored \subseteq s.requested \cup Flight(s.peers)
      /\ Whole(s.stored, s.downloaded, d)
  BY DEF TorrentGood, TorrentStates
<1>2. PICK B : B = BlocksOf(Piece(b))
  OBVIOUS
<1>3. b \in B /\ B \in SUBSET Blocks /\ IsFiniteSet(B)
  <2>1. b \in B /\ B \in SUBSET Blocks
    BY <1>1, <1>2, PieceOf DEF BlocksOf
  <2> QED BY <2>1, TorrentConstants, FS_Subset
<1>4. PICK st : st = s.stored \ {b}
  OBVIOUS
<1>5. PICK t : t = [s EXCEPT !.stored = st]
  OBVIOUS
<1>6. /\ t \in TorrentStates /\ t.stored = st /\ t.requested = s.requested
      /\ t.peers = s.peers /\ t.task = s.task /\ t.downloaded = s.downloaded
      /\ t.toPeer = s.toPeer
  BY <1>1, <1>4, <1>5 DEF TorrentStates
<1>7. /\ st \cap B # {} => Whole(st, s.downloaded, e)
      /\ st \cap B = {} =>
             /\ Whole(st \cup B, s.downloaded, e)
             /\ (\A c \in B : e[c] = "good") =>
                    Whole(st, s.downloaded + Cardinality(B), e)
  <2>1. /\ s.stored \in SUBSET Blocks /\ b \in s.stored
        /\ Whole(s.stored, s.downloaded, d) /\ SameBut(e, d, b)
    BY <1>1
  <2> QED BY <1>2, <1>4, <2>1, PieceDone
<1>8. PICK v : v = IF st \cap B = {} THEN Verified(t, e, Piece(b)) ELSE t
  OBVIOUS
<1>9. /\ v \in TorrentStates /\ v.peers = s.peers /\ v.task = s.task
      /\ v.toPeer = s.toPeer /\ Whole(v.stored, v.downloaded, e)
      /\ v.stored \subseteq v.requested \cup Flight(v.peers)
      /\ b \in v.stored => b \in v.requested
  <2>1. CASE st \cap B # {}
    BY <1>1, <1>4, <1>6, <1>7, <1>8, <2>1
  <2>2. CASE st \cap B = {} /\ \A c \in B : e[c] = "good"
    <3>1. PICK n : n = s.downloaded + Cardinality(B)
      OBVIOUS
    <3>2. n \in Nat
      BY <1>1, <1>3, <3>1, FS_CardinalityType
    <3>3. v = [t EXCEPT !.downloaded = n]
      BY <1>2, <1>6, <1>8, <2>2, <3>1 DEF Verified, TorrentStates
    <3>4. /\ v \in TorrentStates /\ v.stored = st /\ v.requested = s.requested
          /\ v.peers = s.peers /\ v.task = s.task /\ v.downloaded = n
          /\ v.toPeer = s.toPeer
      BY <1>6, <3>2, <3>3 DEF TorrentStates
    <3> QED BY <1>1, <1>4, <1>7, <2>2, <3>1, <3>4
  <2>3. CASE st \cap B = {} /\ ~ \A c \in B : e[c] = "good"
    <3>1. PICK x : x = s.requested \cup B
      OBVIOUS
    <3>2. PICK y : y = st \cup B
      OBVIOUS
    <3>3. v = [t EXCEPT !.requested = x, !.stored = y]
      BY <1>2, <1>6, <1>8, <2>3, <3>1, <3>2 DEF Verified, TorrentStates
    <3>4. x \in SUBSET Blocks /\ y \in SUBSET Blocks
      BY <1>1, <1>3, <1>4, <3>1, <3>2
    <3>5. /\ v \in TorrentStates /\ v.stored = y /\ v.requested = x
          /\ v.peers = s.peers /\ v.task = s.task /\ v.downloaded = s.downloaded
          /\ v.toPeer = s.toPeer
      BY <1>6, <3>3, <3>4 DEF TorrentStates
    <3> QED BY <1>1, <1>3, <1>4, <1>7, <2>3, <3>1, <3>2, <3>5
  <2> QED BY <2>1, <2>2, <2>3
<1>10. u = IF v.stored # {} THEN v
           ELSE [v EXCEPT !.task = "unloaded", !.requested = {},
                          !.peers = [q \in Peers |->
                             IF v.peers[q].status \in {"connecting", "open"}
                             THEN [v.peers[q] EXCEPT !.status = "closing"]
                             ELSE v.peers[q]]]
  BY <1>2, <1>4, <1>5, <1>6, <1>8 DEF SetData
<1>11. CASE v.stored # {}
  <2>1. u = v
    BY <1>10, <1>11
  <2>2. \A q \in Peers : u.peers[q].choked => u.peers[q].requests = <<>>
    BY <1>9, <2>1 DEF TorrentGood
  <2> QED BY <1>9, <1>11, <2>1, <2>2 DEF TorrentGood
<1>12. CASE v.stored = {}
  <2>1. PICK ps : ps = [q \in Peers |->
                           IF v.peers[q].status \in {"connecting", "open"}
                           THEN [v.peers[q] EXCEPT !.status = "closing"]
                           ELSE v.peers[q]]
    OBVIOUS
  <2>2. \A q \in Peers : /\ ps[q] \in PeerOf /\ ps[q].requests = s.peers[q].requests
                         /\ ps[q].choked = s.peers[q].choked
    <3>1. SUFFICES ASSUME NEW q \in Peers
                   PROVE  /\ ps[q] \in PeerOf /\ ps[q].requests = s.peers[q].requests
                          /\ ps[q].choked = s.peers[q].choked
      OBVIOUS
    <3>2. PICK r \in PeerOf : r = s.peers[q]
      BY <1>1
    <3>3. PICK w : w = [r EXCEPT !.status = "closing"]
      OBVIOUS
    <3>4. w \in PeerOf /\ w.requests = r.requests /\ w.choked = r.choked
      BY <3>3 DEF PeerOf, Statuses
    <3>5. ps[q] \in {r, w}
      BY <1>9, <2>1, <3>2, <3>3
    <3> QED BY <3>2, <3>4, <3>5
  <2>3. ps \in [Peers -> PeerOf]
    BY <2>1, <2>2
  <2>4. u = [v EXCEPT !.task = "unloaded", !.requested = {}, !.peers = ps]
    BY <1>10, <1>12, <2>1
  <2>5. /\ u \in TorrentStates /\ u.stored = {} /\ u.task = "unloaded"
        /\ u.peers = ps /\ u.downloaded = v.downloaded /\ u.toPeer = v.toPeer
    BY <1>9, <1>12, <2>3, <2>4 DEF TorrentStates
  <2>6. Whole(u.stored, u.downloaded, e)
    BY <1>9, <1>12, <2>5
  <2>7. \A q \in Peers : u.peers[q].choked => u.peers[q].requests = <<>>
    BY <2>2, <2>5 DEF TorrentGood
  <2> QED BY <1>9, <2>5, <2>6, <2>7 DEF TorrentGood
<1> QED BY <1>11, <1>12

\* remove_request(), of a block that is in the file or may be asked for
LEMMA AnsweredGood ==
    ASSUME NEW s, NEW d, NEW p \in Peers, NEW b, TorrentGood(s, d),
           s.task = "running" /\ b \in s.stored => b \in s.requested,
           NEW u, u = Answered(s, p, b)
    PROVE  TorrentGood(u, d) /\ u.stored = s.stored /\ u.task = s.task
<1>1. s \in TorrentStates
  BY DEF TorrentGood
<1>2. PICK old : old = s.peers[p].requests
  OBVIOUS
<1>3. old \in Seq(Blocks) /\ s.peers \in [Peers -> PeerOf]
  BY <1>1, <1>2 DEF TorrentStates, PeerOf
<1>4. PICK x : x = IF b \in ToSet(old) THEN RemoveFirst(old, b) ELSE old
  OBVIOUS
<1>5. x \in Seq(Blocks) /\ ToSet(old) \ {b} \subseteq ToSet(x)
  BY <1>3, <1>4, RemoveOne
<1>6. PICK ps : ps = Requests(s.peers, p, x)
  OBVIOUS
<1>7. /\ ps \in [Peers -> PeerOf] /\ ps[p].requests = x
      /\ ps[p].choked = s.peers[p].choked
      /\ \A q \in Peers \ {p} : ps[q] = s.peers[q]
  BY <1>3, <1>5, <1>6, RequestsOf
<1>8. u = [s EXCEPT !.peers = ps]
  BY <1>1, <1>2, <1>3, <1>4, <1>6 DEF Answered, Requests, TorrentStates
<1>9. /\ u \in TorrentStates /\ u.peers = ps /\ u.requested = s.requested
      /\ u.stored = s.stored /\ u.task = s.task /\ u.downloaded = s.downloaded
  BY <1>1, <1>7, <1>8 DEF TorrentStates
<1>10. old = <<>> => x = <<>>
  BY <1>4 DEF ToSet
<1>11. \A q \in Peers : u.peers[q].choked => u.peers[q].requests = <<>>
  BY <1>2, <1>7, <1>9, <1>10 DEF TorrentGood
<1>12. u.task = "running" => u.stored \subseteq u.requested \cup Flight(u.peers)
  <2>1. Flight(s.peers) \ {b} \subseteq Flight(ps)
    BY <1>2, <1>5, <1>7, FlightChanges
  <2> QED BY <1>9, <2>1 DEF TorrentGood
<1> QED BY <1>9, <1>11, <1>12 DEF TorrentGood

\* What is asked for stays, when nothing of the blocks changes.
AskSame(ps, qs) ==
    \A q \in Peers : /\ ps[q].requests = qs[q].requests
                     /\ ps[q].choked => ps[q].requests = <<>>
Moved(s, ps, tp) == [s EXCEPT !.peers = ps, !.toPeer = tp]
LEMMA SameRequests ==
    ASSUME NEW s, NEW d, TorrentGood(s, d), NEW ps \in [Peers -> PeerOf],
           NEW tp \in [Peers -> Seq(Blocks)],
           AskSame(ps, s.peers), NEW u, u = Moved(s, ps, tp)
    PROVE  /\ TorrentGood(u, d) /\ u.stored = s.stored /\ u.task = s.task
           /\ u.requested = s.requested
<1>1. s \in TorrentStates
  BY DEF TorrentGood
<1>2. /\ u \in TorrentStates /\ u.peers = ps /\ u.requested = s.requested
      /\ u.stored = s.stored /\ u.task = s.task /\ u.downloaded = s.downloaded
  BY <1>1 DEF TorrentStates, Moved
<1>3. Flight(u.peers) = Flight(s.peers)
  BY <1>2 DEF Flight, AskSame
<1>4. \A q \in Peers : u.peers[q].choked => u.peers[q].requests = <<>>
  BY <1>2 DEF AskSame
<1> QED BY <1>2, <1>3, <1>4 DEF TorrentGood

LEMMA NowGood ==
    ASSUME TorrentInv
    PROVE  /\ TorrentGood(Now, disk) /\ Now \in TorrentStates
           /\ Now.peers = peers /\ Now.toPeer = toPeer /\ Now.task = task
           /\ Now.stored = stored /\ Now.requested = requested
           /\ peers \in [Peers -> PeerOf] /\ toPeer \in [Peers -> Seq(Blocks)]
           /\ \A p \in Peers : peers[p].choked => peers[p].requests = <<>>
<1>1. TorrentGood(Now, disk)
  BY DEF TorrentInv
<1>2. Now \in TorrentStates
  BY <1>1 DEF TorrentGood
<1>3. /\ Now.peers = peers /\ Now.toPeer = toPeer /\ Now.task = task
      /\ Now.stored = stored /\ Now.requested = requested
  BY DEF Now
<1>4. peers \in [Peers -> PeerOf] /\ toPeer \in [Peers -> Seq(Blocks)]
  BY <1>2, <1>3 DEF TorrentStates
<1>5. \A p \in Peers : peers[p].choked => peers[p].requests = <<>>
  BY <1>1, <1>3 DEF TorrentGood
<1> QED BY <1>1, <1>2, <1>3, <1>4, <1>5

LEMMA Became ==
    ASSUME NEW u, TorrentGood(u, disk'), Become(u),
           disk' \in [Blocks -> {"none", "good", "bad"}],
           completes' = IF u.stored = {} THEN 1 ELSE 0, asking' \subseteq Peers
    PROVE  TorrentInv'
<1>1. u \in TorrentStates
  BY DEF TorrentGood
<1>2. /\ task' = u.task /\ requested' = u.requested /\ stored' = u.stored
      /\ peers' = u.peers /\ toPeer' = u.toPeer /\ downloaded' = u.downloaded
  BY DEF Become
<1>3. Now' = u
  BY <1>1, <1>2 DEF Now, TorrentStates
<1>4. TorrentGood(Now, disk)'
  BY <1>3 DEF TorrentGood, TorrentStates, Whole
<1> QED BY <1>2, <1>4 DEF TorrentInv

LEMMA TorrentInvInit ==
    ASSUME TorrentInit
    PROVE  TorrentInv
<1>1. Blocks # {} /\ Blocks \subseteq Nat
  BY TorrentConstants
<1>2. Done(Blocks) = {}
  <2>1. \A i \in Pieces : BlocksOf(i) \subseteq Blocks
    BY DEF BlocksOf
  <2> QED BY <2>1 DEF Done
<1>3. Whole(Blocks, 0, disk)
  BY <1>2, FS_EmptySet DEF Whole
<1>4. PICK none : none = <<>> /\ none \in Seq(Blocks)
  <2>1. <<>> \in Seq(Blocks)
    OBVIOUS
  <2> QED BY <2>1
<1>5. /\ peers \in [Peers -> PeerOf] /\ toPeer \in [Peers -> Seq(Blocks)]
      /\ \A p \in Peers : peers[p].requests = <<>>
  <2>1. PICK r : r = [status |-> "unknown", shaken |-> FALSE, choked |-> TRUE,
                      bitfield |-> {}, requests |-> none]
    OBVIOUS
  <2>2. r \in PeerOf /\ r.requests = none
    BY <1>4, <2>1 DEF PeerOf, Statuses
  <2>3. peers = [p \in Peers |-> r] /\ toPeer = [p \in Peers |-> none]
    BY <1>4, <2>1 DEF TorrentInit
  <2> QED BY <1>4, <2>2, <2>3
<1>6. task \in {"metadata", "running"} /\ requested = Blocks /\ stored = Blocks
  BY DEF TorrentInit
<1>7. Now \in TorrentStates
  BY <1>5, <1>6 DEF Now, TorrentStates, TorrentInit
<1>8. TorrentGood(Now, disk)
  <2>1. /\ Now.task = task /\ Now.requested = Blocks /\ Now.stored = Blocks
        /\ Now.peers = peers /\ Now.downloaded = 0
    BY <1>6 DEF Now, TorrentInit
  <2> QED BY <1>1, <1>3, <1>5, <1>6, <1>7, <2>1 DEF TorrentGood
<1>9. disk \in [Blocks -> {"none", "good", "bad"}]
  BY DEF TorrentInit
<1> QED BY <1>1, <1>6, <1>8, <1>9 DEF TorrentInv, TorrentInit

\* Steps that change a connection and none of what it asked for.
LEMMA PeersStep ==
    ASSUME TorrentInv, NEW p \in Peers, NEW r \in PeerOf,
           r.requests = peers[p].requests, r.choked => r.requests = <<>>,
           NEW tp, tp \in [Peers -> Seq(Blocks)],
           peers' = [peers EXCEPT ![p] = r], toPeer' = tp, asking' = asking,
           UNCHANGED <<task, requested, stored, disk, downloaded, completes>>
    PROVE  TorrentInv'
<1>1. PICK ps : ps = [peers EXCEPT ![p] = r]
  OBVIOUS
<1>2. /\ ps \in [Peers -> PeerOf]
      /\ \A q \in Peers : /\ ps[q].requests = peers[q].requests
                          /\ ps[q].choked => ps[q].requests = <<>>
  BY <1>1, NowGood
<1>3. PICK u : u = Moved(Now, ps, tp)
  OBVIOUS
<1>4. PICK s : s = Now
  OBVIOUS
<1>5. /\ TorrentGood(u, disk) /\ u.stored = s.stored /\ u.task = s.task
      /\ u.requested = s.requested
  <2>1. TorrentGood(s, disk) /\ s.peers = peers
    BY <1>4, NowGood
  <2>2. u = Moved(s, ps, tp)
    BY <1>3, <1>4
  <2>3. AskSame(ps, s.peers)
    BY <1>2, <2>1 DEF AskSame
  <2>4. tp \in [Peers -> Seq(Blocks)]
    OBVIOUS
  <2>5. ps \in [Peers -> PeerOf] /\ TorrentGood(s, disk)
    BY <1>2, <2>1
  <2> QED BY <2>2, <2>3, <2>4, <2>5, SameRequests
<1>6. u.peers = ps /\ u.toPeer = tp /\ u.downloaded = downloaded
  BY <1>3 DEF Now, Moved
<1>7. Become(u)
  BY <1>1, <1>4, <1>5, <1>6 DEF Become, Now
<1>8. TorrentGood(u, disk')
  BY <1>5
<1>9. /\ disk' \in [Blocks -> {"none", "good", "bad"}] /\ asking' \subseteq Peers
      /\ completes' = IF u.stored = {} THEN 1 ELSE 0
  BY <1>4, <1>5 DEF TorrentInv, Now
<1> QED BY <1>7, <1>8, <1>9, Became

LEMMA DiscoverStep ==
    ASSUME TorrentInv, NEW p \in Peers, Discover(p), UNCHANGED asking
    PROVE  TorrentInv'
<1>1. PICK r : r = [peers[p] EXCEPT !.status = "connecting"]
  OBVIOUS
<1>2. r \in PeerOf /\ r.requests = peers[p].requests /\ (r.choked => r.requests = <<>>)
  BY <1>1, NowGood DEF PeerOf, Statuses
<1>3. peers' = [peers EXCEPT ![p] = r]
  BY <1>1, NowGood DEF Discover
<1> QED BY <1>2, <1>3, NowGood, PeersStep DEF Discover

LEMMA PeerOpenStep ==
    ASSUME TorrentInv, NEW p \in Peers, PeerOpen(p), UNCHANGED asking
    PROVE  TorrentInv'
<1>1. PICK r : r = [peers[p] EXCEPT !.status = "open"]
  OBVIOUS
<1>2. r \in PeerOf /\ r.requests = peers[p].requests /\ (r.choked => r.requests = <<>>)
  BY <1>1, NowGood DEF PeerOf, Statuses
<1>3. peers' = [peers EXCEPT ![p] = r]
  BY <1>1, NowGood DEF PeerOpen
<1> QED BY <1>2, <1>3, NowGood, PeersStep DEF PeerOpen

LEMMA HandshakeStep ==
    ASSUME TorrentInv, NEW p \in Peers, Handshake(p), UNCHANGED asking
    PROVE  TorrentInv'
<1>1. PICK r : r = [peers[p] EXCEPT !.shaken = TRUE, !.bitfield = Holds[p]]
  OBVIOUS
<1>2. r \in PeerOf /\ r.requests = peers[p].requests /\ (r.choked => r.requests = <<>>)
  BY <1>1, NowGood, TorrentConstants DEF PeerOf, Pieces
<1>3. peers' = [peers EXCEPT ![p] = r]
  BY <1>1, NowGood DEF Handshake
<1> QED BY <1>2, <1>3, NowGood, PeersStep DEF Handshake

LEMMA DiscardStep ==
    ASSUME TorrentInv, NEW p \in Peers, Discard(p), UNCHANGED asking
    PROVE  TorrentInv'
<1>1. PICK r : r = peers[p]
  OBVIOUS
<1>2. r \in PeerOf /\ r.requests = peers[p].requests /\ (r.choked => r.requests = <<>>)
  BY <1>1, NowGood DEF PeerOf
<1>3. peers' = [peers EXCEPT ![p] = r]
  BY <1>1, NowGood DEF Discard
<1>4. PICK tp : tp = [toPeer EXCEPT ![p] = Tail(@)]
  OBVIOUS
<1>5. tp \in [Peers -> Seq(Blocks)]
  <2>1. toPeer[p] \in Seq(Blocks) /\ toPeer[p] # <<>>
    BY NowGood DEF Discard
  <2>2. Tail(toPeer[p]) \in Seq(Blocks)
    BY <2>1, HeadTailProperties
  <2> QED BY <1>4, <2>2, NowGood
<1>6. toPeer' = tp
  BY <1>4 DEF Discard
<1> QED BY <1>2, <1>3, <1>5, <1>6, PeersStep DEF Discard

LEMMA SetMetadataStep ==
    ASSUME TorrentInv, NEW p \in Peers, SetMetadata(p)
    PROVE  TorrentInv'
<1>1. PICK s : s = Now
  OBVIOUS
<1>2. TorrentGood(s, disk) /\ s \in TorrentStates /\ s.task = "metadata"
  BY <1>1, NowGood DEF SetMetadata, MetadataComes
<1>3. PICK u : u = [s EXCEPT !.task = "running"]
  OBVIOUS
<1>4. /\ u \in TorrentStates /\ u.task = "running" /\ u.stored = s.stored
      /\ u.requested = s.requested /\ u.peers = s.peers /\ u.toPeer = s.toPeer
      /\ u.downloaded = s.downloaded
  BY <1>2, <1>3 DEF TorrentStates
<1>5. TorrentGood(u, disk)
  BY <1>2, <1>4 DEF TorrentGood
<1>6. TorrentGood(u, disk')
  BY <1>5 DEF SetMetadata
<1>7. Become(u)
  BY <1>1, <1>4 DEF Become, Now, SetMetadata
<1>8. /\ disk' \in [Blocks -> {"none", "good", "bad"}] /\ asking' \subseteq Peers
      /\ completes' = IF u.stored = {} THEN 1 ELSE 0
  BY <1>1, <1>4 DEF TorrentInv, Now, SetMetadata
<1> QED BY <1>6, <1>7, <1>8, Became

LEMMA NextOfStep ==
    ASSUME TorrentInv, NEW p \in Peers, NextOf(p)
    PROVE  TorrentInv'
<1>1. PICK s : s = Now
  OBVIOUS
<1>2. PICK u : u = Asked(s, p)
  OBVIOUS
<1>3. TorrentGood(u, disk) /\ u.stored = s.stored
  <2>1. TorrentGood(s, disk)
    BY <1>1, NowGood
  <2> QED BY <1>2, <2>1, AskedGood
<1>4. Become(u)
  BY <1>1, <1>2 DEF NextOf, Become, Now
<1>5. TorrentGood(u, disk')
  BY <1>3 DEF NextOf
<1>6. /\ disk' \in [Blocks -> {"none", "good", "bad"}] /\ asking' \subseteq Peers
      /\ completes' = IF u.stored = {} THEN 1 ELSE 0
  BY <1>1, <1>3 DEF TorrentInv, Now, NextOf
<1> QED BY <1>4, <1>5, <1>6, Became

LEMMA UnchokeStep ==
    ASSUME TorrentInv, NEW p \in Peers, Unchoke(p), UNCHANGED asking
    PROVE  TorrentInv'
<1>1. peers[p] \in PeerOf /\ peers[p].choked /\ peers[p].requests = <<>>
  BY NowGood DEF Unchoke
<1>2. PICK r : r = [peers[p] EXCEPT !.choked = FALSE]
  OBVIOUS
<1>3. r \in PeerOf /\ r.requests = peers[p].requests /\ ~r.choked
  BY <1>1, <1>2 DEF PeerOf
<1>4. PICK ps : ps = [peers EXCEPT ![p] = r]
  OBVIOUS
<1>5. ps \in [Peers -> PeerOf] /\ AskSame(ps, peers)
  <2>1. ps \in [Peers -> PeerOf]
    BY <1>3, <1>4, NowGood
  <2>2. \A q \in Peers : /\ ps[q].requests = peers[q].requests
                         /\ ps[q].choked => ps[q].requests = <<>>
    BY <1>3, <1>4, NowGood
  <2> QED BY <2>1, <2>2 DEF AskSame
<1>6. PICK s : s = Now
  OBVIOUS
<1>7. PICK v : v = Moved(s, ps, toPeer)
  OBVIOUS
<1>8. TorrentGood(v, disk) /\ v.stored = s.stored
  <2>1. /\ TorrentGood(s, disk) /\ s.peers = peers
        /\ toPeer \in [Peers -> Seq(Blocks)]
    BY <1>6, NowGood
  <2>2. AskSame(ps, s.peers)
    BY <1>5, <2>1
  <2>3. ps \in [Peers -> PeerOf]
    BY <1>5
  <2>4. PICK tp : tp = toPeer
    OBVIOUS
  <2>5. tp \in [Peers -> Seq(Blocks)] /\ TorrentGood(s, disk)
    BY <2>1, <2>4
  <2>6. v = Moved(s, ps, tp)
    BY <1>7, <2>4
  <2>7. TorrentGood(v, disk) /\ v.stored = s.stored
    BY <2>2, <2>3, <2>5, <2>6, SameRequests
  <2> QED BY <2>7
<1>9. v = [Now EXCEPT !.peers[p].choked = FALSE, !.peers[p].requests = <<>>]
  <2>1. r = [[peers[p] EXCEPT !.choked = FALSE] EXCEPT !.requests = <<>>]
    BY <1>1, <1>2 DEF PeerOf
  <2>2. ps = [[peers EXCEPT ![p].choked = FALSE] EXCEPT ![p].requests = <<>>]
    BY <1>2, <1>4, <2>1, NowGood
  <2>3. v = [Now EXCEPT !.peers = ps]
    <3>1. s \in TorrentStates /\ s.toPeer = toPeer
      BY <1>6, NowGood
    <3>2. v = [s EXCEPT !.peers = ps]
      BY <1>7, <3>1 DEF Moved, TorrentStates
    <3> QED BY <1>6, <3>2
  <2> QED BY <2>2, <2>3 DEF Now
<1>10. PICK u : u = Asked(v, p)
  OBVIOUS
<1>11. TorrentGood(u, disk) /\ u.stored = s.stored
  BY <1>8, <1>10, AskedGood
<1>12. Become(u)
  BY <1>9, <1>10 DEF Unchoke
<1>13. TorrentGood(u, disk')
  BY <1>11 DEF Unchoke
<1>14. /\ disk' \in [Blocks -> {"none", "good", "bad"}] /\ asking' \subseteq Peers
       /\ completes' = IF u.stored = {} THEN 1 ELSE 0
  BY <1>6, <1>11 DEF TorrentInv, Now, Unchoke
<1> QED BY <1>12, <1>13, <1>14, Became

LEMMA ChokeStep ==
    ASSUME TorrentInv, NEW p \in Peers, Choke(p), UNCHANGED asking
    PROVE  TorrentInv'
<1>1. PICK s : s = Now
  OBVIOUS
<1>2. TorrentGood(s, disk) /\ s \in TorrentStates /\ s.peers = peers
  BY <1>1, NowGood
<1>3. PICK v : v = Released(s, p)
  OBVIOUS
<1>4. /\ TorrentGood(v, disk) /\ v.stored = s.stored /\ v.toPeer = s.toPeer
      /\ v.peers = Requests(peers, p, <<>>)
  BY <1>2, <1>3, ReleasedGood
<1>5. v \in TorrentStates
  BY <1>4 DEF TorrentGood
<1>6. PICK r : r = [v.peers[p] EXCEPT !.choked = TRUE]
  OBVIOUS
<1>7. v.peers[p] = [peers[p] EXCEPT !.requests = <<>>]
  BY <1>4, NowGood DEF Requests
<1>8. r \in PeerOf /\ r.requests = v.peers[p].requests /\ r.requests = <<>>
  <2>1. v.peers[p] \in PeerOf
    BY <1>5 DEF TorrentStates
  <2>2. v.peers[p].requests = <<>>
    BY <1>7, NowGood DEF PeerOf
  <2> QED BY <1>6, <2>1, <2>2 DEF PeerOf
<1>9. PICK ps : ps = [v.peers EXCEPT ![p] = r]
  OBVIOUS
<1>10. ps \in [Peers -> PeerOf] /\ AskSame(ps, v.peers)
  <2>1. v.peers \in [Peers -> PeerOf]
    BY <1>5 DEF TorrentStates
  <2>2. \A q \in Peers : /\ ps[q].requests = v.peers[q].requests
                         /\ ps[q].choked => ps[q].requests = <<>>
    BY <1>4, <1>8, <1>9, <2>1 DEF TorrentGood
  <2> QED BY <1>8, <1>9, <2>1, <2>2 DEF AskSame
<1>11. PICK u : u = Moved(v, ps, v.toPeer)
  OBVIOUS
<1>12. TorrentGood(u, disk) /\ u.stored = s.stored
  <2>1. v.toPeer \in [Peers -> Seq(Blocks)]
    BY <1>5 DEF TorrentStates
  <2> QED BY <1>4, <1>10, <1>11, <2>1, SameRequests
<1>13. u = Released([Now EXCEPT !.peers[p].choked = TRUE], p)
  <2>1. PICK c : c = [peers EXCEPT ![p].choked = TRUE]
    OBVIOUS
  <2>2. PICK w : w = [s EXCEPT !.peers = c]
    OBVIOUS
  <2>3. /\ w.peers = c /\ w.requested = s.requested /\ w.task = s.task
        /\ w.toPeer = s.toPeer
        /\ c[p].requests = s.peers[p].requests
    BY <1>2, <2>1, <2>2, NowGood DEF TorrentStates, PeerOf
  <2>4. ps = [c EXCEPT ![p].requests = <<>>]
    <3>1. r = [[peers[p] EXCEPT !.choked = TRUE] EXCEPT !.requests = <<>>]
      BY <1>6, <1>7, NowGood DEF PeerOf
    <3> QED BY <1>4, <1>9, <2>1, <3>1, NowGood DEF Requests
  <2>5. PICK z : z = IF s.task = "unloaded" THEN s.requested
                     ELSE s.requested \cup ToSet(s.peers[p].requests)
    OBVIOUS
  <2>6. Released(w, p) = [[s EXCEPT !.peers = ps] EXCEPT !.requested = z]
    BY <1>2, <2>2, <2>3, <2>4, <2>5 DEF Released, TorrentStates
  <2>7. v = [[s EXCEPT !.peers = v.peers] EXCEPT !.requested = z]
    BY <1>2, <1>3, <1>4, <2>5 DEF Released, Requests, TorrentStates
  <2>8. u = [[s EXCEPT !.peers = ps] EXCEPT !.requested = z]
    <3>1. /\ v.requested = z /\ v.task = s.task /\ v.downloaded = s.downloaded
          /\ v.stored = s.stored /\ v.toPeer = s.toPeer
      BY <1>2, <2>7 DEF TorrentStates
    <3> QED BY <1>2, <1>5, <1>11, <3>1 DEF Moved, TorrentStates
  <2>9. w = [Now EXCEPT !.peers[p].choked = TRUE]
    BY <1>1, <1>2, <2>1, <2>2 DEF Now
  <2> QED BY <2>6, <2>8, <2>9
<1>14. Become(u)
  BY <1>13 DEF Choke
<1>15. TorrentGood(u, disk')
  BY <1>12 DEF Choke
<1>16. /\ disk' \in [Blocks -> {"none", "good", "bad"}] /\ asking' \subseteq Peers
       /\ completes' = IF u.stored = {} THEN 1 ELSE 0
  BY <1>1, <1>12 DEF TorrentInv, Now, Choke
<1> QED BY <1>14, <1>15, <1>16, Became

LEMMA CloseStep ==
    ASSUME TorrentInv, NEW p \in Peers, Close(p), UNCHANGED asking
    PROVE  TorrentInv'
<1>1. PICK s : s = Now
  OBVIOUS
<1>2. TorrentGood(s, disk) /\ s \in TorrentStates /\ s.peers = peers
  BY <1>1, NowGood
<1>3. PICK v : v = Released(s, p)
  OBVIOUS
<1>4. /\ TorrentGood(v, disk) /\ v.stored = s.stored
  BY <1>2, <1>3, ReleasedGood
<1>5. v \in TorrentStates /\ v.peers \in [Peers -> PeerOf] /\ v.toPeer \in [Peers -> Seq(Blocks)]
  BY <1>4 DEF TorrentGood, TorrentStates
<1>6. PICK r : r = [v.peers[p] EXCEPT !.status = "closed"]
  OBVIOUS
<1>7. r \in PeerOf /\ r.requests = v.peers[p].requests /\ r.choked = v.peers[p].choked
  BY <1>5, <1>6 DEF PeerOf, Statuses
<1>8. PICK ps : ps = [v.peers EXCEPT ![p] = r]
  OBVIOUS
<1>9. ps \in [Peers -> PeerOf] /\ AskSame(ps, v.peers)
  <2>1. \A q \in Peers : /\ ps[q].requests = v.peers[q].requests
                         /\ ps[q].choked => ps[q].requests = <<>>
    BY <1>4, <1>5, <1>7, <1>8 DEF TorrentGood
  <2> QED BY <1>5, <1>7, <1>8, <2>1 DEF AskSame
<1>10. PICK tp : tp = [v.toPeer EXCEPT ![p] = <<>>]
  OBVIOUS
<1>11. tp \in [Peers -> Seq(Blocks)]
  <2>1. <<>> \in Seq(Blocks)
    OBVIOUS
  <2> QED BY <1>5, <1>10, <2>1
<1>12. PICK u : u = Moved(v, ps, tp)
  OBVIOUS
<1>13. TorrentGood(u, disk) /\ u.stored = s.stored
  BY <1>4, <1>9, <1>11, <1>12, SameRequests
<1>14. u = Gone(Now, p)
  BY <1>1, <1>3, <1>5, <1>6, <1>8, <1>10, <1>12 DEF Gone, Moved, TorrentStates
<1>15. Become(u)
  BY <1>14 DEF Close
<1>16. TorrentGood(u, disk')
  BY <1>13 DEF Close
<1>17. /\ disk' \in [Blocks -> {"none", "good", "bad"}] /\ asking' \subseteq Peers
       /\ completes' = IF u.stored = {} THEN 1 ELSE 0
  BY <1>1, <1>13 DEF TorrentInv, Now, Close
<1> QED BY <1>15, <1>16, <1>17, Became

LEMMA PieceStep ==
    ASSUME TorrentInv, NEW p \in Peers, NEW data \in {"good", "bad"},
           PieceT(p, data), UNCHANGED asking
    PROVE  TorrentInv'
<1>1. PICK s0 : s0 = Now
  OBVIOUS
<1>2. /\ TorrentGood(s0, disk) /\ s0 \in TorrentStates /\ s0.peers = peers
      /\ s0.toPeer = toPeer /\ s0.stored = stored /\ s0.task = task
      /\ peers \in [Peers -> PeerOf] /\ toPeer \in [Peers -> Seq(Blocks)]
  BY <1>1, NowGood
<1>3. PICK b : b = Head(toPeer[p])
  OBVIOUS
<1>4. PICK tp : tp = [toPeer EXCEPT ![p] = Tail(@)]
  OBVIOUS
<1>5. b \in Blocks /\ tp \in [Peers -> Seq(Blocks)]
  <2>1. toPeer[p] \in Seq(Blocks) /\ toPeer[p] # <<>>
    BY <1>2 DEF PieceT
  <2>2. Tail(toPeer[p]) \in Seq(Blocks) /\ b \in Blocks
    BY <1>3, <2>1, HeadTailProperties
  <2> QED BY <1>2, <1>4, <2>2
<1>6. PICK read : read = Moved(s0, peers, tp)
  OBVIOUS
<1>7. /\ TorrentGood(read, disk) /\ read.stored = stored /\ read.task = task
      /\ read = [Now EXCEPT !.toPeer[p] = Tail(@)]
  <2>1. AskSame(peers, s0.peers)
    BY <1>2 DEF AskSame, TorrentGood
  <2>2. TorrentGood(read, disk) /\ read.stored = s0.stored /\ read.task = s0.task
    <3>1. PICK ps : ps = peers
      OBVIOUS
    <3>2. /\ TorrentGood(s0, disk) /\ ps \in [Peers -> PeerOf]
          /\ tp \in [Peers -> Seq(Blocks)] /\ AskSame(ps, s0.peers)
          /\ read = Moved(s0, ps, tp)
      BY <1>2, <1>5, <1>6, <2>1, <3>1
    <3> QED BY <3>2, SameRequests
  <2>3. read = [s0 EXCEPT !.toPeer = tp]
    BY <1>2, <1>6 DEF Moved, TorrentStates
  <2>4. read = [s0 EXCEPT !.toPeer[p] = Tail(@)]
    BY <1>2, <1>4, <2>3
  <2> QED BY <1>1, <1>2, <2>2, <2>4
<1>8. PICK keeps \in BOOLEAN : keeps <=> task = "running" /\ b \in stored
  OBVIOUS
<1>9. PICK d : d = IF keeps THEN [disk EXCEPT ![b] = data] ELSE disk
  OBVIOUS
<1>10. d \in [Blocks -> {"none", "good", "bad"}] /\ disk' = d
  <2>1. disk \in [Blocks -> {"none", "good", "bad"}]
    BY DEF TorrentInv
  <2>2. d \in [Blocks -> {"none", "good", "bad"}]
    BY <1>9, <2>1
  <2> QED BY <1>3, <1>8, <1>9, <2>2 DEF PieceT
<1>11. PICK s : s = IF keeps THEN SetData(read, d, b) ELSE read
  OBVIOUS
<1>12. PICK t : t = Answered(s, p, b)
  OBVIOUS
<1>13. PICK u : u = Asked(t, p)
  OBVIOUS
<1>14. /\ Become(u)
       /\ completes' = IF s.task # task THEN completes + 1 ELSE completes
  BY <1>3, <1>7, <1>8, <1>9, <1>11, <1>12, <1>13 DEF PieceT
<1>15. completes = IF stored = {} THEN 1 ELSE 0
  BY DEF TorrentInv
<1>16. /\ TorrentGood(s, d) /\ (s.task = "running" /\ b \in s.stored => b \in s.requested)
       /\ completes' = IF s.stored = {} THEN 1 ELSE 0
  <2>1. CASE keeps
    <3>1. s = SetData(read, d, b) /\ read.task = "running" /\ b \in read.stored
      BY <1>7, <1>8, <1>11, <2>1
    <3>2. PICK d0 : d0 = disk
      OBVIOUS
    <3>3. SameBut(d, d0, b)
      <4>1. disk \in [Blocks -> {"none", "good", "bad"}]
        BY DEF TorrentInv
      <4> QED BY <1>9, <2>1, <3>2, <4>1 DEF SameBut
    <3>4. /\ TorrentGood(s, d) /\ (b \in s.stored => b \in s.requested)
          /\ IF s.stored = {} THEN s.task = "unloaded" ELSE s.task = "running"
      <4>1. TorrentGood(read, d0)
        BY <1>7, <3>2
      <4>2. read.task = "running" /\ b \in read.stored /\ s = SetData(read, d, b)
        BY <3>1
      <4> QED BY <3>3, <4>1, <4>2, SetDataGood
    <3>5. task = "running" /\ completes = 0
      BY <1>8, <1>15, <2>1
    <3>6. completes' = IF s.stored = {} THEN 1 ELSE 0
      BY <1>14, <3>4, <3>5
    <3> QED BY <3>4, <3>6
  <2>2. CASE ~keeps
    <3>1. s = read /\ d = disk
      BY <1>9, <1>11, <2>2
    <3> QED BY <1>7, <1>8, <1>14, <1>15, <2>2, <3>1
  <2> QED BY <2>1, <2>2
<1>17. TorrentGood(t, d) /\ t.stored = s.stored
  BY <1>12, <1>16, AnsweredGood
<1>18. TorrentGood(u, d) /\ u.stored = s.stored
  BY <1>13, <1>17, AskedGood
<1>19. TorrentGood(u, disk')
  BY <1>10, <1>18
<1>20. /\ disk' \in [Blocks -> {"none", "good", "bad"}] /\ asking' \subseteq Peers
       /\ completes' = IF u.stored = {} THEN 1 ELSE 0
  BY <1>10, <1>16, <1>18 DEF TorrentInv
<1> QED BY <1>14, <1>19, <1>20, Became

LEMMA TorrentInvStep ==
    ASSUME TorrentInv, [TorrentNext]_torrentVars
    PROVE  TorrentInv'
<1>1. CASE UNCHANGED torrentVars
  BY <1>1 DEF torrentVars, TorrentInv, TorrentGood, TorrentStates, Now, Whole
<1>2. CASE TorrentNext
  <2>1. PICK p \in Peers :
            \/ NextOf(p)
            \/ asking = {} /\ SetMetadata(p)
            \/ /\ asking = {} /\ UNCHANGED asking
               /\ \/ Discover(p) \/ PeerOpen(p) \/ Handshake(p)
                  \/ Unchoke(p) \/ Choke(p) \/ Close(p)
                  \/ \E data \in {"good", "bad"} : PieceT(p, data)
                  \/ Discard(p)
    BY <1>2 DEF TorrentNext
  <2> QED BY <2>1, NextOfStep, SetMetadataStep, DiscoverStep, PeerOpenStep,
             HandshakeStep, UnchokeStep, ChokeStep, CloseStep, PieceStep, DiscardStep
<1> QED BY <1>1, <1>2

LEMMA TorrentInvSafe ==
    ASSUME TorrentInv
    PROVE  TorrentSafety
<1>1. PICK s : s = Now
  OBVIOUS
<1>2. /\ TorrentGood(s, disk) /\ s.stored = stored /\ s.task = task
      /\ s.requested = requested /\ s.peers = peers /\ s.downloaded = downloaded
  BY <1>1, NowGood DEF Now
<1>3. NoLostBlock
  <2>1. InFlight = Flight(s.peers)
    BY <1>2 DEF InFlight, Flight
  <2> QED BY <1>2, <2>1 DEF NoLostBlock, TorrentGood
<1>4. CompleteIsVerified
  <2>1. Whole(stored, downloaded, disk) /\ (stored = {} <=> task = "unloaded")
    BY <1>2 DEF TorrentGood
  <2>2. completes = IF stored = {} THEN 1 ELSE 0
    BY DEF TorrentInv
  <2>3. UNION {BlocksOf(i) : i \in {i \in 0 .. NumberPieces - 1 : BlocksOf(i) \cap stored = {}}}
            = Done(stored)
    BY DEF Done, Pieces
  <2> QED BY <2>1, <2>2, <2>3 DEF CompleteIsVerified, Whole
<1> QED BY <1>3, <1>4 DEF TorrentSafety

THEOREM TorrentSafe == TorrentInit /\ [][TorrentNext]_torrentVars => []TorrentSafety
<1>1. TorrentInit => TorrentInv
  BY TorrentInvInit
<1>2. TorrentInv /\ [TorrentNext]_torrentVars => TorrentInv'
  BY TorrentInvStep
<1>3. TorrentInv => TorrentSafety
  BY TorrentInvSafe
<1> QED BY <1>1, <1>2, <1>3, PTL
-----------------------------------------------------------------------------
(* The connection of an SMTP server.                                       *)

Units == {"text", "dot", "end"}
ServerOf == [status : {"open", "closed"},
             state : {"HELO", "HEADER", "USERNAME", "PASSWORD", "DATA"},
             user : BOOLEAN, to : SUBSET Addresses, keys : SUBSET Nat,
             remotes : SUBSET Addresses, relay : Seq(Units), previous : Seq(Units),
             upgrades : Nat]
BoxOf == [owner : Addresses, number : Nat, data : Seq(Units)]
RelayOf == [to : SUBSET Addresses, number : Nat, data : Seq(Units)]
AckOf == [to : SUBSET Addresses, keys : SUBSET Nat, number : Nat]
SendingOf == [number : Nat, to : SUBSET Addresses, contents : Seq(Units)]

\* the values, or the calls of relay(), of a message
Numbered(values, n) == {k \in DOMAIN values : values[k].number = n}

\* what is promised of an answer
Kept(a, bs, rs) ==
    LET own == Numbered(bs, a.number)
        away == Numbered(rs, a.number)
    IN  /\ own = a.keys
        /\ {bs[k].owner : k \in own} = a.to \cap Locals
        /\ \A k, m \in own : /\ Text(bs[k].data) /\ bs[k].data = bs[m].data
                             /\ bs[k].owner = bs[m].owner => k = m
        /\ \A r \in away : rs[r].to = a.to \ Locals /\ Text(rs[r].data)
        /\ (away # {}) = (a.to \ Locals # {})
        /\ \A r, s \in away : r = s

Contents(m) == [i \in 1 .. m |-> "text"] \o End

\* while a message is received: what came of it is in each of its values
Receiving(sv, bs, rs, ans, sd) ==
    /\ sv.keys = Numbered(bs, sd.number)
    /\ {bs[k].owner : k \in sv.keys} = sd.to \cap Locals
    /\ \A k, m \in sv.keys : bs[k].owner = bs[m].owner => k = m
    /\ \A k \in sv.keys : bs[k].data = sv.relay
    /\ sv.previous = sv.relay /\ sv.remotes = sd.to \ Locals
    /\ Numbered(rs, sd.number) = {} /\ Numbered(ans, sd.number) = {}
    /\ \E m \in Nat : sv.relay \o sd.contents = Contents(m)
    /\ sd.contents # <<>>

\* what a value is of: an acknowledged message, or the last one
Placed(sv, bs, ans, sd) ==
    \A k \in DOMAIN bs : \/ Numbered(ans, bs[k].number) # {}
                         \/ bs[k].number = sd.number /\ sv.state = "DATA"

MailTypes(sv, bs, rs, ans, sd) ==
    /\ sv \in ServerOf /\ bs \in Seq(BoxOf) /\ rs \in Seq(RelayOf)
    /\ ans \in Seq(AckOf) /\ sd \in SendingOf

Before(values, n) == \A k \in DOMAIN values : values[k].number <= n

MailGood(sv, bs, rs, ans, sd) ==
    /\ MailTypes(sv, bs, rs, ans, sd)
    /\ sv.to = sd.to
    /\ Before(bs, sd.number) /\ Before(rs, sd.number) /\ Before(ans, sd.number)
    /\ Placed(sv, bs, ans, sd)
    /\ \A i \in DOMAIN ans : Kept(ans[i], bs, rs)
    /\ sv.status = "open" =>
          IF sv.state = "DATA" THEN Receiving(sv, bs, rs, ans, sd)
          ELSE sd.contents = <<>>

MailInv ==
    \E sv, bs, rs, ans, sd :
        /\ sv = server /\ bs = boxes /\ rs = relayed /\ ans = acks /\ sd = sending
        /\ MailGood(sv, bs, rs, ans, sd)

LEMMA Elements ==
    ASSUME NEW T, NEW q, q \in Seq(T)
    PROVE  \A k \in DOMAIN q : q[k] \in T
  OBVIOUS

\* The numbers of the messages, as far as they go.
LEMMA Numbers ==
    ASSUME NEW sv, NEW bs, NEW rs, NEW ans, NEW sd, MailGood(sv, bs, rs, ans, sd)
    PROVE  /\ \A k \in DOMAIN bs : bs[k].number \in Nat /\ bs[k].number <= sd.number
           /\ \A k \in DOMAIN rs : rs[k].number \in Nat /\ rs[k].number <= sd.number
           /\ \A k \in DOMAIN ans : ans[k].number \in Nat /\ ans[k].number <= sd.number
           /\ sd.number \in Nat
<1>1. bs \in Seq(BoxOf) /\ rs \in Seq(RelayOf) /\ ans \in Seq(AckOf) /\ sd \in SendingOf
  BY DEF MailGood, MailTypes
<1>2. \A k \in DOMAIN bs : bs[k] \in BoxOf
  BY <1>1, Elements
<1>3. \A k \in DOMAIN rs : rs[k] \in RelayOf
  BY <1>1, Elements
<1>4. \A k \in DOMAIN ans : ans[k] \in AckOf
  BY <1>1, Elements
<1>5. Before(bs, sd.number) /\ Before(rs, sd.number) /\ Before(ans, sd.number)
  BY DEF MailGood
<1> QED BY <1>1, <1>2, <1>3, <1>4, <1>5 DEF Before, BoxOf, RelayOf, AckOf, SendingOf

LEMMA MailInvInit ==
    ASSUME ServerInit
    PROVE  MailInv
<1>1. PICK none : none = <<>>
  OBVIOUS
<1>2. none \in Seq(Units) /\ none \in Seq(BoxOf) /\ none \in Seq(RelayOf) /\ none \in Seq(AckOf)
      /\ DOMAIN none = {}
  BY <1>1
<1>3. PICK sv : sv = server
  OBVIOUS
<1>4. PICK sd : sd = sending
  OBVIOUS
<1>5. /\ sv \in ServerOf /\ sv.to = {} /\ sv.state = "HELO"
  BY <1>1, <1>2, <1>3 DEF ServerInit, ServerOf
<1>6. /\ sd \in SendingOf /\ sd.to = {} /\ sd.contents = <<>>
  BY <1>1, <1>2, <1>4 DEF ServerInit, SendingOf
<1>7. MailGood(sv, none, none, none, sd)
  BY <1>2, <1>5, <1>6 DEF MailGood, MailTypes, Before, Placed
<1> QED BY <1>1, <1>3, <1>4, <1>7 DEF MailInv, ServerInit

\* Commands that are no message.
LEMMA CommandGood ==
    ASSUME NEW sv, NEW bs, NEW rs, NEW ans, NEW sd, MailGood(sv, bs, rs, ans, sd),
           NEW s \in ServerOf, s.to = sv.to, sv.state = "DATA" => s.state = "DATA",
           s.status = "open" => /\ sv.status = "open" /\ sv.state # "DATA"
                                /\ s.state # "DATA"
    PROVE  MailGood(s, bs, rs, ans, sd)
  BY DEF MailGood, MailTypes, Placed

LEMMA AddressGood ==
    ASSUME NEW sv, NEW bs, NEW rs, NEW ans, NEW sd, MailGood(sv, bs, rs, ans, sd),
           sv.status = "open", sv.state # "DATA", NEW T \in SUBSET Addresses,
           NEW s \in ServerOf, s.to = T, s.state = sv.state,
           NEW e, e = [sd EXCEPT !.to = T]
    PROVE  MailGood(s, bs, rs, ans, e)
<1>1. sd \in SendingOf
  BY DEF MailGood, MailTypes
<1>2. e \in SendingOf /\ e.to = T /\ e.number = sd.number /\ e.contents = sd.contents
  BY <1>1 DEF SendingOf
<1>3. Placed(s, bs, ans, e)
  BY <1>2 DEF MailGood, Placed
<1> QED BY <1>2, <1>3 DEF MailGood, MailTypes

\* What is promised of an answer is of its values alone.
LEMMA KeptSame ==
    ASSUME NEW a, NEW bs, NEW rs, NEW cs, NEW qs, Kept(a, bs, rs),
           Numbered(cs, a.number) = Numbered(bs, a.number),
           Numbered(qs, a.number) = Numbered(rs, a.number),
           \A k \in Numbered(bs, a.number) : cs[k] = bs[k],
           \A k \in Numbered(rs, a.number) : qs[k] = rs[k]
    PROVE  Kept(a, cs, qs)
  BY DEF Kept

\* SetToSeq() has each element once.
LEMMA Ordered ==
    ASSUME NEW S, IsFiniteSet(S), NEW q, q = SetToSeq(S)
    PROVE  /\ q \in Seq(S) /\ DOMAIN q = 1 .. Len(q) /\ Len(q) \in Nat
           /\ {q[i] : i \in DOMAIN q} = S
           /\ \A i, j \in DOMAIN q : q[i] = q[j] => i = j
<1>1. PICK n : n = Cardinality(S)
  OBVIOUS
<1>2. n \in Nat /\ ExistsBijection(1 .. n, S)
  BY <1>1, FS_CardinalityType
<1>3. PICK f : f \in Bijection(1 .. n, S)
  BY <1>2 DEF ExistsBijection
<1>4. f \in [1 .. n -> S] /\ IsInjective(f)
  BY <1>3 DEF Bijection, Injection, IsInjective
<1>5. q \in [1 .. n -> S] /\ IsInjective(q)
  BY <1>1, <1>4 DEF SetToSeq
<1>6. \A i, j \in 1 .. n : q[i] = q[j] => i = j
  BY <1>5 DEF IsInjective
<1>7. q \in Injection(1 .. n, S)
  BY <1>5, <1>6 DEF Injection
<1>8. Cardinality(1 .. n) = n
  BY <1>2, FS_Interval
<1>9. q \in Surjection(1 .. n, S)
  BY <1>1, <1>7, <1>8, FS_Injection
<1>10. \A s \in S : \E i \in 1 .. n : q[i] = s
  BY <1>9 DEF Surjection
<1>11. q \in Seq(S) /\ DOMAIN q = 1 .. n /\ Len(q) = n
  BY <1>2, <1>5
<1> QED BY <1>2, <1>5, <1>6, <1>10, <1>11

LEMMA ContentsOf ==
    ASSUME NEW m \in Nat, NEW c, c = Contents(m)
    PROVE  /\ c \in Seq(Units) /\ Len(c) = m + 2
           /\ \A i \in 1 .. m : c[i] = "text"
           /\ c[m + 1] = "dot" /\ c[m + 2] = "end"
<1>1. PICK t : t = [i \in 1 .. m |-> "text"]
  OBVIOUS
<1>2. PICK u : u = End
  OBVIOUS
<1>3. t \in Seq(Units) /\ Len(t) = m /\ \A i \in 1 .. m : t[i] = "text"
  BY <1>1 DEF Units
<1>4. u \in Seq(Units) /\ Len(u) = 2 /\ u[1] = "dot" /\ u[2] = "end"
  BY <1>2 DEF Units, End
<1>5. c = t \o u
  BY <1>1, <1>2 DEF Contents
<1>6. /\ c \in Seq(Units) /\ Len(c) = Len(t) + Len(u)
      /\ \A i \in 1 .. Len(t) + Len(u) : c[i] = IF i <= Len(t) THEN t[i] ELSE u[i - Len(t)]
  <2>1. t \in Seq(Units) /\ u \in Seq(Units)
    BY <1>3, <1>4
  <2> QED BY <1>5, <2>1, ConcatProperties
<1>7. \A i \in 1 .. m + 2 : c[i] = IF i <= m THEN t[i] ELSE u[i - m]
  <2>1. Len(t) + Len(u) = m + 2
    BY <1>3, <1>4
  <2> QED BY <1>3, <1>6, <2>1
<1>8. /\ m + 1 \in 1 .. m + 2 /\ ~(m + 1 <= m) /\ m + 1 - m = 1
      /\ m + 2 \in 1 .. m + 2 /\ ~(m + 2 <= m) /\ m + 2 - m = 2
  OBVIOUS
<1>9. c[m + 1] = "dot" /\ c[m + 2] = "end"
  <2>1. PICK j : j = m + 1
    OBVIOUS
  <2>2. PICK k : k = m + 2
    OBVIOUS
  <2>3. /\ j \in 1 .. m + 2 /\ ~(j <= m) /\ j - m = 1
        /\ k \in 1 .. m + 2 /\ ~(k <= m) /\ k - m = 2
    BY <1>8, <2>1, <2>2
  <2>4. c[j] = u[1] /\ c[k] = u[2]
    BY <1>7, <2>3
  <2> QED BY <1>4, <2>1, <2>2, <2>4
<1>10. \A i \in 1 .. m : c[i] = "text"
  BY <1>3, <1>7
<1> QED BY <1>3, <1>4, <1>6, <1>9, <1>10

\* data(): a value of its own for each local recipient.
Fresh(owners, number) ==
    [i \in DOMAIN owners |-> [owner |-> owners[i], number |-> number, data |-> <<>>]]
Begun(sv, bs, sd, n, e, cs, s) ==
    LET owners == SetToSeq(sv.to \cap Locals)
    IN  /\ e = [sd EXCEPT !.number = @ + 1, !.contents = Contents(n)]
        /\ cs = bs \o Fresh(owners, e.number)
        /\ s = [sv EXCEPT !.state = "DATA",
                   !.keys = Len(bs) + 1 .. Len(bs) + Len(owners),
                   !.remotes = sv.to \ Locals, !.relay = <<>>, !.previous = <<>>]
LEMMA DataGood ==
    ASSUME NEW sv, NEW bs, NEW rs, NEW ans, NEW sd, MailGood(sv, bs, rs, ans, sd),
           sv.status = "open", sv.state # "DATA", NEW n \in Nat, NEW e, NEW cs, NEW s,
           Begun(sv, bs, sd, n, e, cs, s)
    PROVE  MailGood(s, cs, rs, ans, e)
<1>1. /\ sv \in ServerOf /\ bs \in Seq(BoxOf) /\ rs \in Seq(RelayOf)
      /\ ans \in Seq(AckOf) /\ sd \in SendingOf /\ sv.to = sd.to
  BY DEF MailGood, MailTypes
<1>b. PICK owners : owners = SetToSeq(sv.to \cap Locals)
  OBVIOUS
<1>c. PICK more : more = Fresh(owners, e.number)
  OBVIOUS
<1>a. /\ e = [sd EXCEPT !.number = @ + 1, !.contents = Contents(n)]
      /\ cs = bs \o more
      /\ s = [sv EXCEPT !.state = "DATA",
                 !.keys = Len(bs) + 1 .. Len(bs) + Len(owners),
                 !.remotes = sv.to \ Locals, !.relay = <<>>, !.previous = <<>>]
  BY <1>b, <1>c DEF Begun
<1>2. PICK none : none = <<>>
  OBVIOUS
<1>3. none \in Seq(Units)
  BY <1>2
<1>4. PICK S : S = sv.to \cap Locals
  OBVIOUS
<1>5. /\ IsFiniteSet(S) /\ S \subseteq Addresses
  <2>1. S \in SUBSET Addresses /\ IsFiniteSet(Addresses)
    BY <1>1, <1>4, SmtpServerAssumption DEF ServerOf
  <2> QED BY <2>1, FS_Subset
<1>6. /\ owners \in Seq(S) /\ DOMAIN owners = 1 .. Len(owners) /\ Len(owners) \in Nat
      /\ {owners[i] : i \in DOMAIN owners} = S
      /\ \A i, j \in DOMAIN owners : owners[i] = owners[j] => i = j
  <2>1. owners = SetToSeq(S)
    BY <1>4, <1>b
  <2> QED BY <1>5, <2>1, Ordered
<1>7. PICK b \in Nat : b = Len(bs) /\ DOMAIN bs = 1 .. b
  BY <1>1, LenProperties
<1>8. PICK l \in Nat : l = Len(owners)
  BY <1>6
<1>9. PICK number \in Nat : number = sd.number + 1
  BY <1>1 DEF SendingOf
<1>10. PICK contents : contents = Contents(n)
  OBVIOUS
<1>11. contents \in Seq(Units) /\ contents # <<>>
  <2>1. contents \in Seq(Units) /\ Len(contents) = n + 2
    BY <1>10, ContentsOf
  <2> QED BY <2>1
<1>12. /\ e \in SendingOf /\ e.number = number /\ e.to = sd.to
       /\ e.contents = contents
  <2>1. e = [sd EXCEPT !.number = number, !.contents = contents]
    BY <1>1, <1>9, <1>10, <1>a DEF SendingOf
  <2> QED BY <1>1, <1>11, <2>1 DEF SendingOf
<1>13. /\ more \in Seq(BoxOf) /\ DOMAIN more = 1 .. l /\ Len(more) = l
       /\ \A i \in 1 .. l : /\ more[i].owner = owners[i] /\ more[i].number = number
                            /\ more[i].data = none
  <2>1. \A i \in 1 .. l : owners[i] \in Addresses
    BY <1>5, <1>6, <1>8
  <2>2. more = [i \in 1 .. l |-> [owner |-> owners[i], number |-> number, data |-> none]]
    BY <1>2, <1>6, <1>8, <1>12, <1>c DEF Fresh
  <2>3. \A i \in 1 .. l : more[i] \in BoxOf
    BY <1>3, <2>1, <2>2 DEF BoxOf
  <2> QED BY <2>2, <2>3
<1>14. /\ cs \in Seq(BoxOf) /\ DOMAIN cs = 1 .. b + l
       /\ \A k \in 1 .. b : cs[k] = bs[k]
       /\ \A i \in 1 .. l : cs[b + i] = more[i]
  <2>1. /\ cs \in Seq(BoxOf) /\ Len(cs) = Len(bs) + Len(more)
        /\ \A k \in 1 .. Len(bs) + Len(more) :
               cs[k] = IF k <= Len(bs) THEN bs[k] ELSE more[k - Len(bs)]
    BY <1>1, <1>13, <1>a, ConcatProperties
  <2>2. DOMAIN cs = 1 .. b + l
    BY <1>7, <1>13, <2>1, LenProperties
  <2>3. \A k \in 1 .. b : cs[k] = bs[k]
    BY <1>7, <1>13, <2>1
  <2>4. ASSUME NEW i \in 1 .. l PROVE cs[b + i] = more[i]
    <3>1. PICK k : k = b + i
      OBVIOUS
    <3>2. k \in 1 .. b + l /\ ~(k <= b) /\ k - b = i
      BY <3>1
    <3> QED BY <1>7, <1>13, <2>1, <3>1, <3>2
  <2> QED BY <2>1, <2>2, <2>3, <2>4
<1>15. \A k \in b + 1 .. b + l : \E i \in 1 .. l : k = b + i
  <2>1. SUFFICES ASSUME NEW k \in b + 1 .. b + l PROVE \E i \in 1 .. l : k = b + i
    OBVIOUS
  <2>2. k - b \in 1 .. l /\ k = b + (k - b)
    OBVIOUS
  <2> QED BY <2>2
<1>16. \A k \in b + 1 .. b + l : cs[k].number = number /\ cs[k].data = none
  <2>1. SUFFICES ASSUME NEW k \in b + 1 .. b + l
                 PROVE  cs[k].number = number /\ cs[k].data = none
    OBVIOUS
  <2>2. PICK i \in 1 .. l : k = b + i
    BY <1>15, <2>1
  <2>3. cs[b + i] = more[i]
    BY <1>14, <2>2
  <2> QED BY <1>13, <2>2, <2>3
<1>17. /\ \A k \in 1 .. b : bs[k].number <= sd.number /\ cs[k].number # number
       /\ sd.number \in Nat
  <2>1. sd.number \in Nat
    BY Numbers
  <2>2. \A k \in 1 .. b : bs[k].number \in Nat /\ bs[k].number <= sd.number
    BY <1>7, Numbers
  <2> QED BY <1>9, <1>14, <2>1, <2>2
<1>18. PICK keys : keys = b + 1 .. b + l
  OBVIOUS
<1>19. Numbered(cs, number) = keys
  <2>1. \A k \in 1 .. b + l : k \in 1 .. b \/ k \in keys
    BY <1>18
  <2>2. keys \subseteq 1 .. b + l
    BY <1>18
  <2> QED BY <1>14, <1>16, <1>17, <1>18, <2>1, <2>2 DEF Numbered
<1>20. \A m \in Nat : m <= sd.number => Numbered(cs, m) = Numbered(bs, m)
  <2>1. SUFFICES ASSUME NEW m \in Nat, m <= sd.number
                 PROVE  Numbered(cs, m) = Numbered(bs, m)
    OBVIOUS
  <2>2. m # number
    BY <1>9, <1>17, <2>1
  <2>3. \A k \in 1 .. b + l : cs[k].number = m <=> k \in 1 .. b /\ bs[k].number = m
    <3>1. \A k \in 1 .. b + l : k \in 1 .. b \/ k \in keys
      BY <1>18
    <3> QED BY <1>14, <1>16, <1>18, <2>2, <3>1
  <2>4. 1 .. b \subseteq 1 .. b + l
    OBVIOUS
  <2> QED BY <1>7, <1>14, <2>3, <2>4 DEF Numbered
<1>21. /\ s \in ServerOf /\ s.keys = keys /\ s.remotes = sv.to \ Locals
       /\ s.relay = none /\ s.previous = none /\ s.state = "DATA" /\ s.to = sv.to
  <2>1. keys \in SUBSET Nat /\ sv.to \ Locals \in SUBSET Addresses
    BY <1>1, <1>18 DEF ServerOf
  <2>2. s = [sv EXCEPT !.state = "DATA", !.keys = keys, !.remotes = sv.to \ Locals,
                       !.relay = none, !.previous = none]
    BY <1>2, <1>7, <1>8, <1>18, <1>a
  <2> QED BY <1>1, <1>3, <2>1, <2>2 DEF ServerOf
<1>22. /\ Before(cs, number) /\ Before(rs, number) /\ Before(ans, number)
       /\ Numbered(rs, number) = {} /\ Numbered(ans, number) = {}
  <2>1. \A k \in DOMAIN rs : rs[k].number \in Nat /\ rs[k].number <= sd.number
    BY Numbers
  <2>2. \A k \in DOMAIN ans : ans[k].number \in Nat /\ ans[k].number <= sd.number
    BY Numbers
  <2>3. \A m \in Nat : m <= sd.number => m <= number /\ m # number
    BY <1>9, <1>17
  <2>4. \A k \in DOMAIN cs : cs[k].number <= number
    <3>1. \A k \in 1 .. b : cs[k].number <= number
      <4>1. \A k \in 1 .. b : bs[k].number \in Nat
        BY <1>7, Numbers
      <4> QED BY <1>14, <1>17, <2>3, <4>1
    <3>2. \A k \in 1 .. b + l : k \in 1 .. b \/ k \in b + 1 .. b + l
      OBVIOUS
    <3>3. number <= number
      OBVIOUS
    <3> QED BY <1>14, <1>16, <3>1, <3>2, <3>3
  <2> QED BY <2>1, <2>2, <2>3, <2>4 DEF Before, Numbered
<1>23. Placed(s, cs, ans, e)
  <2>1. ASSUME NEW k \in 1 .. b PROVE Numbered(ans, cs[k].number) # {}
    BY <1>7, <1>14 DEF MailGood, Placed
  <2>2. \A k \in 1 .. b + l : k \in 1 .. b \/ k \in b + 1 .. b + l
    OBVIOUS
  <2> QED BY <1>12, <1>14, <1>16, <1>21, <2>1, <2>2 DEF Placed
<1>24. \A i \in DOMAIN ans : Kept(ans[i], cs, rs)
  <2>1. SUFFICES ASSUME NEW i \in DOMAIN ans PROVE Kept(ans[i], cs, rs)
    OBVIOUS
  <2>2. PICK a : a = ans[i]
    OBVIOUS
  <2>3. Kept(a, bs, rs) /\ a.number \in Nat /\ a.number <= sd.number
    BY <2>2, Numbers DEF MailGood
  <2>4. Numbered(cs, a.number) = Numbered(bs, a.number)
    BY <1>20, <2>3
  <2>5. \A k \in Numbered(bs, a.number) : cs[k] = bs[k]
    BY <1>7, <1>14 DEF Numbered
  <2>6. Kept(a, cs, rs)
    BY <2>3, <2>4, <2>5, KeptSame
  <2> QED BY <2>2, <2>6
<1>25. Receiving(s, cs, rs, ans, e)
  <2>1. {cs[k].owner : k \in keys} = sd.to \cap Locals
    <3>1. \A k \in keys : \E i \in 1 .. l : cs[k].owner = owners[i]
      <4>1. SUFFICES ASSUME NEW k \in b + 1 .. b + l
                     PROVE  \E i \in 1 .. l : cs[k].owner = owners[i]
        BY <1>18
      <4>2. PICK i \in 1 .. l : k = b + i
        BY <1>15, <4>1
      <4>3. cs[b + i] = more[i] /\ more[i].owner = owners[i]
        BY <1>13, <1>14, <4>2
      <4> QED BY <4>2, <4>3
    <3>2. \A i \in 1 .. l : \E k \in keys : cs[k].owner = owners[i]
      <4>1. \A i \in 1 .. l : b + i \in keys /\ cs[b + i].owner = owners[i]
        BY <1>13, <1>14, <1>18
      <4> QED BY <4>1
    <3>3. {cs[k].owner : k \in keys} = {owners[i] : i \in 1 .. l}
      BY <3>1, <3>2
    <3> QED BY <1>1, <1>4, <1>6, <1>8, <3>3
  <2>2. ASSUME NEW k \in keys, NEW m \in keys, cs[k].owner = cs[m].owner PROVE k = m
    <3>1. PICK i \in 1 .. l : k = b + i
      BY <1>15, <1>18
    <3>2. PICK j \in 1 .. l : m = b + j
      BY <1>15, <1>18
    <3>3. owners[i] = owners[j]
      BY <1>13, <1>14, <2>2, <3>1, <3>2
    <3> QED BY <1>6, <1>8, <3>1, <3>2, <3>3
  <2>3. none \o contents = contents
    BY <1>2, <1>11
  <2> QED BY <1>1, <1>10, <1>11, <1>12, <1>16, <1>18, <1>19, <1>21, <1>22, <2>1, <2>2, <2>3
          DEF Receiving
<1> QED BY <1>1, <1>12, <1>14, <1>21, <1>22, <1>23, <1>24, <1>25 DEF MailGood, MailTypes

\* A message that is cut in two.
Cut(c, chunk, rest) ==
    \E n \in 1 .. Len(c) :
        chunk = SubSeq(c, 1, n) /\ rest = SubSeq(c, n + 1, Len(c))
LEMMA Halves ==
    ASSUME NEW c \in Seq(Units), NEW chunk, NEW rest, Cut(c, chunk, rest)
    PROVE  /\ chunk \in Seq(Units) /\ rest \in Seq(Units)
           /\ chunk \o rest = c
<1>a. PICK n \in 1 .. Len(c) : chunk = SubSeq(c, 1, n) /\ rest = SubSeq(c, n + 1, Len(c))
  BY DEF Cut
<1>1. Len(c) \in Nat /\ \A i \in 1 .. Len(c) : c[i] \in Units
  BY <1>a, ElementOfSeq
<1>2. PICK k : k = n + 1
  OBVIOUS
<1>3. /\ k \in Int /\ \A i \in 1 .. n : c[i] \in Units
      /\ \A i \in k .. Len(c) : c[i] \in Units
  BY <1>a, <1>1, <1>2
<1>4. chunk \in Seq(Units) /\ rest \in Seq(Units)
  <2>1. n \in Int /\ Len(c) \in Int /\ 1 \in Int
    BY <1>a, <1>1
  <2>2. chunk \in Seq(Units)
    BY <1>a, <1>3, <2>1, SubSeqProperties
  <2>3. rest = SubSeq(c, k, Len(c))
    BY <1>a, <1>2
  <2> QED BY <1>3, <2>1, <2>2, <2>3, SubSeqProperties
<1>5. 1 \in 1 .. Len(c) + 1 /\ n \in 1 - 1 .. Len(c) /\ Len(c) \in n .. Len(c)
  BY <1>a, <1>1
<1>6. chunk \o rest = SubSeq(c, 1, Len(c))
  BY <1>a, <1>5, ConcatAdjacentSubSeq
<1> QED BY <1>4, <1>6, SubSeqFull

\* The line that ends a message is at the end of what came when nothing of the
\* message is left, and before it is text.
Ended(r) == Len(r) >= 2 /\ SubSeq(r, Len(r) - 1, Len(r)) = End
LEMMA Ending ==
    ASSUME NEW r \in Seq(Units), NEW rest \in Seq(Units), NEW m \in Nat,
           r \o rest = Contents(m)
    PROVE  /\ Ended(r) <=> rest = <<>>
           /\ Ended(r) => Text(SubSeq(r, 1, Len(r) - Len(End)))
<1>1. PICK c : c = Contents(m)
  OBVIOUS
<1>2. /\ c \in Seq(Units) /\ Len(c) = m + 2 /\ \A i \in 1 .. m : c[i] = "text"
      /\ c[m + 1] = "dot" /\ c[m + 2] = "end"
  BY <1>1, ContentsOf
<1>3. PICK l \in Nat : l = Len(r)
  BY LenProperties
<1>4. PICK h \in Nat : h = Len(rest)
  BY LenProperties
<1>5. c = r \o rest
  BY <1>1
<1>6. Len(c) = Len(r) + Len(rest) /\ \A i \in 1 .. Len(r) + Len(rest) :
          c[i] = IF i <= Len(r) THEN r[i] ELSE rest[i - Len(r)]
  BY <1>5, ConcatProperties
<1>7. l + h = m + 2 /\ \A i \in 1 .. l : c[i] = r[i]
  <2>1. \A i \in 1 .. l : i \in 1 .. l + h /\ i <= l
    OBVIOUS
  <2> QED BY <1>2, <1>3, <1>4, <1>6, <2>1
<1>8. rest = <<>> <=> h = 0
  BY <1>4
<1>9. PICK q : q = SubSeq(r, l - 1, l)
  OBVIOUS
<1>10. l >= 2 => /\ q \in Seq(Units) /\ Len(q) = 2 /\ q[1] = r[l - 1] /\ q[2] = r[l]
  <2>1. SUFFICES ASSUME l >= 2
                 PROVE  q \in Seq(Units) /\ Len(q) = 2 /\ q[1] = r[l - 1] /\ q[2] = r[l]
    OBVIOUS
  <2>2. PICK j : j = l - 1
    OBVIOUS
  <2>3. j \in Nat /\ j <= l /\ l - j + 1 = 2 /\ \A i \in j .. l : i \in 1 .. l
    BY <2>1, <2>2
  <2>4. \A i \in j .. l : r[i] \in Units
    BY <1>3, <2>3, ElementOfSeq
  <2>5. /\ q \in Seq(Units) /\ Len(q) = IF j <= l THEN l - j + 1 ELSE 0
        /\ \A i \in 1 .. l - j + 1 : q[i] = r[j + i - 1]
    BY <1>9, <2>2, <2>3, <2>4, SubSeqProperties
  <2>6. Len(q) = 2 /\ \A i \in 1 .. 2 : q[i] = r[j + i - 1]
    BY <2>3, <2>5
  <2>7. j + 1 - 1 = l - 1 /\ j + 2 - 1 = l /\ 1 \in 1 .. 2 /\ 2 \in 1 .. 2
    BY <2>2
  <2> QED BY <2>5, <2>6, <2>7
<1>11. PICK u : u = End
  OBVIOUS
<1>12. u \in Seq(Units) /\ Len(u) = 2 /\ u[1] = "dot" /\ u[2] = "end"
  BY <1>11 DEF Units, End
<1>13. ASSUME Ended(r) PROVE h = 0
  <2>1. l >= 2 /\ q = u
    BY <1>3, <1>9, <1>11, <1>13 DEF Ended
  <2>2. r[l] = "end" /\ l \in 1 .. l
    BY <1>10, <1>12, <2>1
  <2>3. c[l] = "end"
    BY <1>7, <2>2
  <2>4. l \notin 1 .. m
    BY <1>2, <2>3
  <2>5. l # m + 1
    BY <1>2, <2>3
  <2> QED BY <1>7, <2>1, <2>4, <2>5
<1>14. ASSUME h = 0 PROVE Ended(r)
  <2>1. l = m + 2 /\ l >= 2 /\ l - 1 = m + 1 /\ l \in 1 .. l /\ l - 1 \in 1 .. l
    BY <1>7, <1>14
  <2>2. r[l] = "end" /\ r[l - 1] = "dot"
    BY <1>2, <1>7, <2>1
  <2>3. Len(q) = Len(u) /\ \A i \in 1 .. Len(q) : q[i] = u[i]
    <3>1. \A i \in 1 .. 2 : i = 1 \/ i = 2
      OBVIOUS
    <3> QED BY <1>10, <1>12, <2>1, <2>2, <3>1
  <2>4. q \in Seq(Units) /\ u \in Seq(Units)
    BY <1>10, <1>12, <2>1
  <2>5. q = u
    BY <2>3, <2>4, SeqEqual
  <2> QED BY <1>3, <1>9, <1>11, <2>1, <2>5 DEF Ended
<1>15. ASSUME Ended(r) PROVE Text(SubSeq(r, 1, Len(r) - Len(End)))
  <2>1. l = m + 2 /\ l - Len(End) = m
    <3>1. l = m + 2
      BY <1>7, <1>13, <1>15
    <3> QED BY <1>11, <1>12, <3>1
  <2>2. \A i \in 1 .. m : i \in 1 .. l
    BY <2>1
  <2>3. \A i \in 1 .. m : r[i] = "text"
    BY <1>2, <1>7, <2>2
  <2>4. PICK t : t = SubSeq(r, 1, m)
    OBVIOUS
  <2>5. \A i \in 1 .. m : r[i] \in {"text"}
    BY <2>3
  <2>6. t \in Seq({"text"})
    BY <2>4, <2>5, SubSeqProperties
  <2>7. \A i \in DOMAIN t : t[i] = "text"
    BY <2>6, Elements
  <2>8. Text(t)
    BY <2>7 DEF Text, ToSet
  <2> QED BY <1>3, <2>1, <2>4, <2>8
<1> QED BY <1>8, <1>13, <1>14, <1>15

\* The values of the message that is received have other contents.
Changed(bs, cs, keys) ==
    /\ cs \in Seq(BoxOf) /\ DOMAIN cs = DOMAIN bs
    /\ \A k \in DOMAIN bs : cs[k].owner = bs[k].owner /\ cs[k].number = bs[k].number
    /\ \A k \in DOMAIN bs \ keys : cs[k] = bs[k]

LEMMA ChangedGood ==
    ASSUME NEW sv, NEW bs, NEW rs, NEW ans, NEW sd, MailGood(sv, bs, rs, ans, sd),
           sv.status = "open", sv.state = "DATA", NEW cs, Changed(bs, cs, sv.keys)
    PROVE  /\ Before(cs, sd.number) /\ Placed(sv, cs, ans, sd)
           /\ \A i \in DOMAIN ans : Kept(ans[i], cs, rs)
           /\ Numbered(cs, sd.number) = Numbered(bs, sd.number)
           /\ {cs[k].owner : k \in sv.keys} = {bs[k].owner : k \in sv.keys}
           /\ \A k \in sv.keys : k \in DOMAIN bs
<1>1. \A n : Numbered(cs, n) = Numbered(bs, n)
  BY DEF Changed, Numbered
<1>2. sv.keys = Numbered(bs, sd.number) /\ Numbered(ans, sd.number) = {}
  BY DEF MailGood, Receiving
<1>3. Before(cs, sd.number)
  BY DEF MailGood, Before, Changed
<1>4. Placed(sv, cs, ans, sd)
  BY DEF MailGood, Placed, Changed
<1>5. ASSUME NEW i \in DOMAIN ans PROVE Kept(ans[i], cs, rs)
  <2>1. PICK a : a = ans[i]
    OBVIOUS
  <2>2. Kept(a, bs, rs) /\ a.number # sd.number
    BY <1>2, <2>1 DEF MailGood, Numbered
  <2>3. \A k \in Numbered(bs, a.number) : cs[k] = bs[k]
    BY <1>2, <2>2 DEF Numbered, Changed
  <2>4. Numbered(cs, a.number) = Numbered(bs, a.number)
    BY <1>1
  <2>5. Kept(a, cs, rs)
    BY <2>2, <2>3, <2>4, KeptSame
  <2> QED BY <2>1, <2>5
<1>6. \A k \in sv.keys : k \in DOMAIN bs
  BY <1>2 DEF Numbered
<1>7. {cs[k].owner : k \in sv.keys} = {bs[k].owner : k \in sv.keys}
  BY <1>6 DEF Changed
<1> QED BY <1>1, <1>3, <1>4, <1>5, <1>6, <1>7

\* what came, and what is still to come
Leaves(r, rest) == \E m \in Nat : r \o rest = Contents(m)

\* Contents that come and do not end the message.
LEMMA PartGood ==
    ASSUME NEW sv, NEW bs, NEW rs, NEW ans, NEW sd, MailGood(sv, bs, rs, ans, sd),
           sv.status = "open", sv.state = "DATA", NEW cs, Changed(bs, cs, sv.keys),
           NEW relay \in Seq(Units), NEW rest \in Seq(Units), rest # <<>>,
           Leaves(relay, rest),
           \A k \in sv.keys : cs[k].data = relay,
           NEW s, s = [sv EXCEPT !.previous = relay, !.relay = relay],
           NEW e, e = [sd EXCEPT !.contents = rest]
    PROVE  MailGood(s, cs, rs, ans, e)
<1>1. sv \in ServerOf /\ sd \in SendingOf /\ sv.to = sd.to
  BY DEF MailGood, MailTypes
<1>2. /\ e \in SendingOf /\ e.number = sd.number /\ e.to = sd.to /\ e.contents = rest
  BY <1>1 DEF SendingOf
<1>3. /\ s \in ServerOf /\ s.state = "DATA" /\ s.to = sv.to /\ s.keys = sv.keys
      /\ s.remotes = sv.remotes /\ s.relay = relay /\ s.previous = relay
  BY <1>1 DEF ServerOf
<1>4. /\ Before(cs, sd.number) /\ Placed(sv, cs, ans, sd)
      /\ \A i \in DOMAIN ans : Kept(ans[i], cs, rs)
      /\ Numbered(cs, sd.number) = Numbered(bs, sd.number)
      /\ {cs[k].owner : k \in sv.keys} = {bs[k].owner : k \in sv.keys}
      /\ \A k \in sv.keys : k \in DOMAIN bs
  BY ChangedGood
<1>5. Receiving(sv, bs, rs, ans, sd)
  BY DEF MailGood
<1>6. \A k, l \in sv.keys : cs[k].owner = cs[l].owner => k = l
  BY <1>4, <1>5 DEF Receiving, Changed
<1>7. Receiving(s, cs, rs, ans, e)
  BY <1>2, <1>3, <1>4, <1>5, <1>6 DEF Receiving, Leaves
<1>8. Placed(s, cs, ans, e)
  BY <1>2, <1>3, <1>4 DEF Placed
<1>9. cs \in Seq(BoxOf)
  BY DEF Changed
<1> QED BY <1>1, <1>2, <1>3, <1>4, <1>7, <1>8, <1>9 DEF MailGood, MailTypes

\* The end comes, and the connection closes without an answer.
LEMMA UnansweredGood ==
    ASSUME NEW sv, NEW bs, NEW rs, NEW ans, NEW sd, MailGood(sv, bs, rs, ans, sd),
           sv.status = "open", sv.state = "DATA", NEW cs, Changed(bs, cs, sv.keys),
           NEW rest \in Seq(Units),
           NEW s, s = [sv EXCEPT !.status = "closed"],
           NEW e, e = [sd EXCEPT !.contents = rest]
    PROVE  MailGood(s, cs, rs, ans, e)
<1>1. sv \in ServerOf /\ sd \in SendingOf /\ sv.to = sd.to
  BY DEF MailGood, MailTypes
<1>2. /\ e \in SendingOf /\ e.number = sd.number /\ e.to = sd.to
  BY <1>1 DEF SendingOf
<1>3. /\ s \in ServerOf /\ s.state = "DATA" /\ s.to = sv.to /\ s.status = "closed"
  BY <1>1 DEF ServerOf
<1>4. /\ Before(cs, sd.number) /\ Placed(sv, cs, ans, sd)
      /\ \A i \in DOMAIN ans : Kept(ans[i], cs, rs)
  BY ChangedGood
<1>5. Placed(s, cs, ans, e)
  BY <1>2, <1>3, <1>4 DEF Placed
<1>6. cs \in Seq(BoxOf)
  BY DEF Changed
<1> QED BY <1>1, <1>2, <1>3, <1>4, <1>5, <1>6 DEF MailGood, MailTypes

\* What Append() does.
LEMMA Longer ==
    ASSUME NEW T, NEW q \in Seq(T), NEW x \in T, NEW p, p = Append(q, x),
           NEW l, l = Len(q)
    PROVE  /\ p \in Seq(T) /\ DOMAIN p = 1 .. l + 1 /\ p[l + 1] = x
           /\ \A i \in 1 .. l : p[i] = q[i]
<1>1. /\ p \in Seq(T) /\ Len(p) = l + 1 /\ p[l + 1] = x
      /\ \A i \in 1 .. l : p[i] = q[i]
  BY AppendProperties
<1>2. DOMAIN p = 1 .. Len(p)
  BY <1>1, LenProperties
<1> QED BY <1>1, <1>2

Replied(sv, rs, ans, sd, text, s, e, qs, acs) ==
    /\ s = [sv EXCEPT !.state = "HEADER"]
    /\ e = [sd EXCEPT !.contents = <<>>]
    /\ qs = IF sv.remotes = {} THEN rs
            ELSE Append(rs, [to |-> sv.remotes, number |-> sd.number, data |-> text])
    /\ acs = Append(ans, [to |-> sd.to, keys |-> sv.keys, number |-> sd.number])

\* The end comes, what is for others is relayed, and the client has its answer.
LEMMA AnsweredMailGood ==
    ASSUME NEW sv, NEW bs, NEW rs, NEW ans, NEW sd, MailGood(sv, bs, rs, ans, sd),
           sv.status = "open", sv.state = "DATA", NEW cs, Changed(bs, cs, sv.keys),
           NEW text \in Seq(Units), Text(text),
           \A k \in sv.keys : cs[k].data = text,
           NEW s, NEW e, NEW qs, NEW acs, Replied(sv, rs, ans, sd, text, s, e, qs, acs)
    PROVE  MailGood(s, cs, qs, acs, e)
<1>r. PICK x : x = [to |-> sv.remotes, number |-> sd.number, data |-> text]
  OBVIOUS
<1>a. PICK a : a = [to |-> sd.to, keys |-> sv.keys, number |-> sd.number]
  OBVIOUS
<1>q. /\ s = [sv EXCEPT !.state = "HEADER"]
      /\ e = [sd EXCEPT !.contents = <<>>]
      /\ qs = IF sv.remotes = {} THEN rs ELSE Append(rs, x)
      /\ acs = Append(ans, a)
  BY <1>r, <1>a DEF Replied
<1>1. /\ sv \in ServerOf /\ sd \in SendingOf /\ sv.to = sd.to
      /\ rs \in Seq(RelayOf) /\ ans \in Seq(AckOf) /\ cs \in Seq(BoxOf)
  BY DEF MailGood, MailTypes, Changed
<1>2. PICK none : none = <<>>
  OBVIOUS
<1>3. /\ e \in SendingOf /\ e.number = sd.number /\ e.to = sd.to /\ e.contents = none
  <2>1. none \in Seq(Units)
    BY <1>2
  <2> QED BY <1>q, <1>1, <1>2, <2>1 DEF SendingOf
<1>4. /\ s \in ServerOf /\ s.state = "HEADER" /\ s.to = sv.to
  BY <1>q, <1>1 DEF ServerOf
<1>5. /\ Before(cs, sd.number) /\ Placed(sv, cs, ans, sd)
      /\ \A i \in DOMAIN ans : Kept(ans[i], cs, rs)
      /\ Numbered(cs, sd.number) = Numbered(bs, sd.number)
      /\ {cs[k].owner : k \in sv.keys} = {bs[k].owner : k \in sv.keys}
      /\ \A k \in sv.keys : k \in DOMAIN bs
  BY ChangedGood
<1>6. Receiving(sv, bs, rs, ans, sd)
  BY DEF MailGood
<1>7. x \in RelayOf /\ x.to = sv.remotes /\ x.number = sd.number /\ x.data = text
  BY <1>r, <1>1 DEF RelayOf, ServerOf, SendingOf
<1>8. a \in AckOf /\ a.to = sd.to /\ a.keys = sv.keys /\ a.number = sd.number
  BY <1>a, <1>1 DEF AckOf, ServerOf, SendingOf
<1>9. PICK l \in Nat : l = Len(ans) /\ DOMAIN ans = 1 .. l
  BY <1>1, LenProperties
<1>10. /\ acs \in Seq(AckOf) /\ DOMAIN acs = 1 .. l + 1 /\ acs[l + 1] = a
       /\ \A i \in 1 .. l : acs[i] = ans[i]
  <2>1. a \in AckOf /\ ans \in Seq(AckOf) /\ acs = Append(ans, a)
    BY <1>q, <1>1, <1>8
  <2>2. /\ acs \in Seq(AckOf) /\ DOMAIN acs = 1 .. Len(ans) + 1
        /\ acs[Len(ans) + 1] = a /\ \A i \in 1 .. Len(ans) : acs[i] = ans[i]
    BY <2>1, Longer
  <2> QED BY <1>9, <2>2
<1>11. \A i \in 1 .. l + 1 : i \in 1 .. l \/ i = l + 1
  OBVIOUS
<1>12. PICK r \in Nat : r = Len(rs) /\ DOMAIN rs = 1 .. r
  BY <1>1, LenProperties
<1>13. sv.remotes # {} => /\ qs \in Seq(RelayOf) /\ DOMAIN qs = 1 .. r + 1
                          /\ qs[r + 1] = x /\ \A i \in 1 .. r : qs[i] = rs[i]
  <2>1. SUFFICES ASSUME sv.remotes # {}
                 PROVE  /\ qs \in Seq(RelayOf) /\ DOMAIN qs = 1 .. r + 1
                        /\ qs[r + 1] = x /\ \A i \in 1 .. r : qs[i] = rs[i]
    OBVIOUS
  <2>2. qs = Append(rs, x)
    BY <1>q, <2>1
  <2>3. x \in RelayOf /\ rs \in Seq(RelayOf)
    BY <1>1, <1>7
  <2> QED BY <1>12, <2>2, <2>3, Longer
<1>14. \A i \in 1 .. r + 1 : i \in 1 .. r \/ i = r + 1
  OBVIOUS
<1>15. sv.remotes = {} => qs = rs
  BY <1>q
<1>16. /\ qs \in Seq(RelayOf)
       /\ \A n : n # sd.number => Numbered(qs, n) = Numbered(rs, n)
       /\ \A i \in DOMAIN rs : qs[i] = rs[i]
       /\ Numbered(qs, sd.number) = IF sv.remotes = {} THEN {} ELSE {r + 1}
  <2>1. Numbered(rs, sd.number) = {}
    BY <1>6 DEF Receiving
  <2>2. CASE sv.remotes = {}
    BY <1>1, <1>15, <2>1, <2>2
  <2>3. CASE sv.remotes # {}
    <3>1. 1 .. r \subseteq 1 .. r + 1 /\ r + 1 \in 1 .. r + 1 /\ r + 1 \notin 1 .. r
      OBVIOUS
    <3>2. \A n : n # sd.number => Numbered(qs, n) = Numbered(rs, n)
      BY <1>7, <1>12, <1>13, <1>14, <2>3, <3>1 DEF Numbered
    <3>3. Numbered(qs, sd.number) = {r + 1}
      BY <1>7, <1>12, <1>13, <1>14, <2>1, <2>3, <3>1 DEF Numbered
    <3> QED BY <1>12, <1>13, <2>3, <3>2, <3>3
  <2> QED BY <2>2, <2>3
<1>17. /\ sd.number \in Nat /\ sd.number <= sd.number
       /\ Before(cs, e.number) /\ Before(qs, e.number) /\ Before(acs, e.number)
  <2>1. sd.number \in Nat /\ sd.number <= sd.number
    BY <1>1 DEF SendingOf
  <2>2. Before(rs, sd.number) /\ Before(ans, sd.number)
    BY DEF MailGood
  <2>3. Before(acs, sd.number)
    BY <1>8, <1>9, <1>10, <1>11, <2>1, <2>2 DEF Before
  <2>4. Before(qs, sd.number)
    <3>1. CASE sv.remotes = {}
      BY <1>15, <2>2, <3>1
    <3>2. CASE sv.remotes # {}
      BY <1>7, <1>12, <1>13, <1>14, <2>1, <2>2, <3>2 DEF Before
    <3> QED BY <3>1, <3>2
  <2> QED BY <1>3, <1>5, <2>1, <2>3, <2>4
<1>18. Placed(s, cs, acs, e)
  <2>1. 1 .. l \subseteq 1 .. l + 1 /\ l + 1 \in 1 .. l + 1
    OBVIOUS
  <2>2. ASSUME NEW k \in DOMAIN cs PROVE Numbered(acs, cs[k].number) # {}
    <3>1. CASE cs[k].number = sd.number
      BY <1>8, <1>10, <2>1, <3>1 DEF Numbered
    <3>2. CASE cs[k].number # sd.number
      <4>1. PICK i \in DOMAIN ans : ans[i].number = cs[k].number
        BY <1>5, <2>2, <3>2 DEF Placed, Numbered
      <4> QED BY <1>9, <1>10, <2>1, <4>1 DEF Numbered
    <3> QED BY <3>1, <3>2
  <2> QED BY <2>2 DEF Placed
<1>19. Kept(a, cs, qs)
  <2>1. Numbered(cs, a.number) = a.keys
    BY <1>5, <1>6, <1>8 DEF Receiving
  <2>a. a.keys = sv.keys
    BY <1>8
  <2>2. {cs[k].owner : k \in Numbered(cs, a.number)} = a.to \cap Locals
    BY <1>5, <1>6, <1>8, <2>1 DEF Receiving
  <2>3. \A k, m \in Numbered(cs, a.number) :
            /\ Text(cs[k].data) /\ cs[k].data = cs[m].data
            /\ cs[k].owner = cs[m].owner => k = m
    BY <1>5, <1>6, <2>a, <2>1 DEF Receiving, Changed
  <2>4. sv.remotes = a.to \ Locals
    BY <1>6, <1>8 DEF Receiving
  <2>5. \A i \in Numbered(qs, a.number) : qs[i].to = a.to \ Locals /\ Text(qs[i].data)
    BY <1>7, <1>8, <1>13, <1>16, <2>4
  <2>6. /\ (Numbered(qs, a.number) # {}) = (a.to \ Locals # {})
        /\ \A i, j \in Numbered(qs, a.number) : i = j
    BY <1>8, <1>16, <2>4
  <2> QED BY <2>1, <2>2, <2>3, <2>5, <2>6 DEF Kept
<1>20. ASSUME NEW i \in DOMAIN acs PROVE Kept(acs[i], cs, qs)
  <2>1. CASE i = l + 1
    BY <1>10, <1>19, <2>1
  <2>2. CASE i \in 1 .. l
    <3>1. PICK b : b = ans[i]
      OBVIOUS
    <3>2. acs[i] = b /\ Kept(b, cs, rs)
      BY <1>5, <1>9, <1>10, <2>2, <3>1
    <3>3. b.number # sd.number
      BY <1>6, <1>9, <2>2, <3>1 DEF Receiving, Numbered
    <3>4. Numbered(qs, b.number) = Numbered(rs, b.number)
      BY <1>16, <3>3
    <3>5. \A j \in Numbered(rs, b.number) : qs[j] = rs[j]
      BY <1>16 DEF Numbered
    <3>6. Numbered(cs, b.number) = Numbered(cs, b.number)
          /\ \A j \in Numbered(cs, b.number) : cs[j] = cs[j]
      OBVIOUS
    <3>7. Kept(b, cs, qs)
      BY <3>2, <3>4, <3>5, <3>6, KeptSame
    <3> QED BY <3>2, <3>7
  <2> QED BY <1>10, <1>11, <2>1, <2>2
<1> QED BY <1>1, <1>2, <1>3, <1>4, <1>10, <1>16, <1>17, <1>18, <1>20 DEF MailGood, MailTypes
\* The state after a step, as the invariant has it.
LEMMA AfterStep ==
    ASSUME NEW sv, NEW bs, NEW rs, NEW ans, NEW sd, MailGood(sv, bs, rs, ans, sd),
           sv = server', bs = boxes', rs = relayed', ans = acks', sd = sending'
    PROVE  MailInv'
  BY DEF MailInv

Command ==
    \/ OnHelo \/ OnStarttls \/ OnAuthPlain \/ OnAuthLogin
    \/ OnUsername \/ OnPassword \/ Leave

LEMMA CommandStep ==
    ASSUME MailInv, Command
    PROVE  MailInv'
<1>1. PICK sv, bs, rs, ans, sd :
         /\ sv = server /\ bs = boxes /\ rs = relayed /\ ans = acks /\ sd = sending
         /\ MailGood(sv, bs, rs, ans, sd)
  BY DEF MailInv
<1>2. PICK s : s = server'
  OBVIOUS
<1>3. sv \in ServerOf
  BY <1>1 DEF MailGood, MailTypes
<1>4. bs = boxes' /\ rs = relayed' /\ ans = acks' /\ sd = sending' /\ sv.status = "open"
  BY <1>1 DEF Command, OnHelo, OnStarttls, OnAuthPlain, OnAuthLogin, OnUsername,
     OnPassword, Leave, Quiet, Lines
<1>5. \/ s = [sv EXCEPT !.status = "closed"]
      \/ /\ sv.state # "DATA"
         /\ \/ s = [sv EXCEPT !.state = "HEADER"]
            \/ s = [sv EXCEPT !.state = "HELO", !.upgrades = @ + 1]
            \/ s = [sv EXCEPT !.user = TRUE, !.state = "HEADER"]
            \/ s = [sv EXCEPT !.state = "USERNAME"]
            \/ s = [sv EXCEPT !.state = "PASSWORD"]
  BY <1>1, <1>2 DEF Command, OnHelo, OnStarttls, OnAuthPlain, OnAuthLogin, OnUsername,
     OnPassword, Leave, Lines, Closing
<1>6. /\ s \in ServerOf /\ s.to = sv.to /\ (sv.state = "DATA" => s.state = "DATA")
      /\ s.status = "open" => sv.state # "DATA" /\ s.state # "DATA"
  <2>1. CASE s = [sv EXCEPT !.status = "closed"]
    BY <1>3, <2>1 DEF ServerOf
  <2>2. CASE sv.state # "DATA" /\ s = [sv EXCEPT !.state = "HELO", !.upgrades = @ + 1]
    <3>1. PICK u : u = sv.upgrades + 1
      OBVIOUS
    <3>2. u \in Nat
      BY <1>3, <3>1 DEF ServerOf
    <3>3. s = [sv EXCEPT !.state = "HELO", !.upgrades = u]
      BY <2>2, <3>1
    <3> QED BY <1>3, <2>2, <3>2, <3>3 DEF ServerOf
  <2>3. CASE sv.state # "DATA" /\ s = [sv EXCEPT !.user = TRUE, !.state = "HEADER"]
    BY <1>3, <2>3 DEF ServerOf
  <2>4. ASSUME NEW x \in {"HEADER", "USERNAME", "PASSWORD"}, sv.state # "DATA",
               s = [sv EXCEPT !.state = x]
        PROVE  /\ s \in ServerOf /\ s.to = sv.to /\ (sv.state = "DATA" => s.state = "DATA")
               /\ s.status = "open" => sv.state # "DATA" /\ s.state # "DATA"
    BY <1>3, <2>4 DEF ServerOf
  <2> QED BY <1>5, <2>1, <2>2, <2>3, <2>4
<1>7. MailGood(s, bs, rs, ans, sd)
  BY <1>1, <1>4, <1>6, CommandGood
<1> QED BY <1>2, <1>4, <1>7, AfterStep

LEMMA AddressStep ==
    ASSUME MailInv, OnMail \/ \E a \in Addresses : OnRcpt(a)
    PROVE  MailInv'
<1>1. PICK sv, bs, rs, ans, sd :
         /\ sv = server /\ bs = boxes /\ rs = relayed /\ ans = acks /\ sd = sending
         /\ MailGood(sv, bs, rs, ans, sd)
  BY DEF MailInv
<1>2. PICK s : s = server'
  OBVIOUS
<1>3. sv \in ServerOf /\ sd \in SendingOf /\ sv.to = sd.to
  BY <1>1 DEF MailGood, MailTypes
<1>4. /\ bs = boxes' /\ rs = relayed' /\ ans = acks'
      /\ sv.status = "open" /\ sv.state # "DATA"
  BY <1>1 DEF OnMail, OnRcpt, Lines
<1>5. PICK none : none = <<>>
  OBVIOUS
<1>6. none \in Seq(Units)
  BY <1>5
<1>7. CASE OnMail
  <2>1. PICK T : T = {}
    OBVIOUS
  <2>2. PICK e : e = [sd EXCEPT !.to = T]
    OBVIOUS
  <2>3. e = sending' /\ s = [sv EXCEPT !.to = T, !.previous = none]
    BY <1>1, <1>2, <1>5, <1>7, <2>1, <2>2 DEF OnMail
  <2>4. T \in SUBSET Addresses /\ s \in ServerOf /\ s.to = T /\ s.state = sv.state
    BY <1>3, <1>6, <2>1, <2>3 DEF ServerOf
  <2>5. MailGood(s, bs, rs, ans, e)
    BY <1>1, <1>4, <2>2, <2>4, AddressGood
  <2> QED BY <1>2, <1>4, <2>3, <2>5, AfterStep
<1>8. ASSUME NEW a \in Addresses, OnRcpt(a) PROVE MailInv'
  <2>1. PICK T : T = sd.to \cup {a}
    OBVIOUS
  <2>2. PICK e : e = [sd EXCEPT !.to = T]
    OBVIOUS
  <2>3. e = sending' /\ s = [sv EXCEPT !.to = T]
    BY <1>1, <1>2, <1>3, <1>8, <2>1, <2>2 DEF OnRcpt
  <2>4. T \in SUBSET Addresses /\ s \in ServerOf /\ s.to = T /\ s.state = sv.state
    BY <1>3, <2>1, <2>3 DEF ServerOf, SendingOf
  <2>5. MailGood(s, bs, rs, ans, e)
    BY <1>1, <1>4, <2>2, <2>4, AddressGood
  <2> QED BY <1>2, <1>4, <2>3, <2>5, AfterStep
<1> QED BY <1>7, <1>8

LEMMA DataStep ==
    ASSUME MailInv, OnData
    PROVE  MailInv'
<1>1. PICK sv, bs, rs, ans, sd :
         /\ sv = server /\ bs = boxes /\ rs = relayed /\ ans = acks /\ sd = sending
         /\ MailGood(sv, bs, rs, ans, sd)
  BY DEF MailInv
<1>2. PICK s : s = server'
  OBVIOUS
<1>3. sv \in ServerOf
  BY <1>1 DEF MailGood, MailTypes
<1>4. rs = relayed' /\ ans = acks' /\ sv.status = "open" /\ sv.state # "DATA"
  BY <1>1 DEF OnData, Lines
<1>5. CASE sv.state # "HEADER"
  <2>1. s = [sv EXCEPT !.status = "closed"] /\ bs = boxes' /\ sd = sending'
    BY <1>1, <1>2, <1>5 DEF OnData, Closing
  <2>2. s \in ServerOf /\ s.to = sv.to /\ s.status = "closed"
    BY <1>3, <2>1 DEF ServerOf
  <2>3. MailGood(s, bs, rs, ans, sd)
    BY <1>1, <1>4, <2>2, CommandGood
  <2> QED BY <1>2, <1>4, <2>1, <2>3, AfterStep
<1>6. CASE sv.state = "HEADER"
  <2>1. PICK e : e = sending'
    OBVIOUS
  <2>2. PICK cs : cs = boxes'
    OBVIOUS
  <2>3. PICK n \in 0 .. MaxText :
           e = [sd EXCEPT !.number = @ + 1, !.contents = [i \in 1 .. n |-> "text"] \o End]
    BY <1>1, <1>6, <2>1 DEF OnData
  <2>4. PICK owners : owners = SetToSeq(sv.to \cap Locals)
    OBVIOUS
  <2>5. /\ cs = bs \o [i \in DOMAIN owners |->
                        [owner |-> owners[i], number |-> e.number, data |-> <<>>]]
        /\ s = [sv EXCEPT !.state = "DATA",
                   !.keys = Len(bs) + 1 .. Len(bs) + Len(owners),
                   !.remotes = sv.to \ Locals, !.relay = <<>>, !.previous = <<>>]
    BY <1>1, <1>2, <1>6, <2>1, <2>2, <2>4 DEF OnData
  <2>6. Begun(sv, bs, sd, n, e, cs, s)
    BY <2>3, <2>4, <2>5 DEF Begun, Fresh, Contents
  <2>7. n \in Nat
    BY <2>3, SmtpServerAssumption
  <2>8. MailGood(s, cs, rs, ans, e)
    BY <1>1, <1>4, <2>6, <2>7, DataGood
  <2> QED BY <1>2, <1>4, <2>1, <2>2, <2>8, AfterStep
<1> QED BY <1>5, <1>6
\* What append() and truncate() leave in the values of the message.
Written(bs, keys, text, cs) ==
    /\ DOMAIN cs = DOMAIN bs /\ cs = [i \in DOMAIN bs |-> cs[i]]
    /\ \A i \in DOMAIN bs :
          cs[i] = IF i \in keys THEN [bs[i] EXCEPT !.data = text] ELSE bs[i]
\* the contents of the values of the message
Holding(bs, keys, text, cs) == \A k \in keys : k \in DOMAIN bs => cs[k].data = text
LEMMA WrittenGood ==
    ASSUME NEW bs \in Seq(BoxOf), NEW keys, NEW text \in Seq(Units), NEW cs,
           Written(bs, keys, text, cs)
    PROVE  /\ Changed(bs, cs, keys)
           /\ Holding(bs, keys, text, cs)
<1>1. \A i \in DOMAIN bs : bs[i] \in BoxOf
  BY Elements
<1>2. ASSUME NEW i \in DOMAIN bs
      PROVE  /\ cs[i] \in BoxOf
             /\ cs[i].owner = bs[i].owner /\ cs[i].number = bs[i].number
             /\ i \in keys => cs[i].data = text
             /\ i \notin keys => cs[i] = bs[i]
  BY <1>1 DEF BoxOf, Written
<1>3. PICK l \in Nat : l = Len(bs) /\ DOMAIN bs = 1 .. l
  BY LenProperties
<1>4. cs \in Seq(BoxOf)
  BY <1>2, <1>3 DEF Written
<1> QED BY <1>2, <1>4 DEF Changed, Written, Holding

LEMMA Rejoin ==
    ASSUME NEW b \in Seq(Units), NEW x \in Seq(Units), NEW y \in Seq(Units)
    PROVE  (b \o x) \o y = b \o (x \o y)
  BY ConcatAssociative

\* what came ends with the line that ends it when nothing is to come, and is text
\* but for it
Complete(r, rest) ==
    /\ Ended(r) <=> rest = <<>>
    /\ Ended(r) => Text(SubSeq(r, 1, Len(r) - Len(End)))
    /\ Ended(r) => SubSeq(r, 1, Len(r) - Len(End)) \in Seq(Units)

\* A chunk of what is left of the contents, after what came.
LEMMA Joined ==
    ASSUME NEW b \in Seq(Units), NEW c \in Seq(Units),
           Leaves(b, c), NEW chunk, NEW rest, Cut(c, chunk, rest),
           NEW r, r = b \o chunk
    PROVE  /\ chunk \in Seq(Units) /\ rest \in Seq(Units) /\ r \in Seq(Units)
           /\ Leaves(r, rest) /\ Complete(r, rest)
<1>1. chunk \in Seq(Units) /\ rest \in Seq(Units) /\ chunk \o rest = c
  BY Halves
<1>m. PICK m \in Nat : b \o c = Contents(m)
  BY DEF Leaves
<1>2. r \in Seq(Units)
  BY <1>1, ConcatProperties
<1>3. r \o rest = Contents(m)
  <2>1. PICK x : x = chunk
    OBVIOUS
  <2>2. PICK y : y = rest
    OBVIOUS
  <2>3. x \in Seq(Units) /\ y \in Seq(Units) /\ x \o y = c
    BY <1>1, <2>1, <2>2
  <2>4. (b \o x) \o y = b \o (x \o y)
    BY <2>3, Rejoin
  <2> QED BY <1>m, <2>1, <2>2, <2>3, <2>4
<1>4. /\ Ended(r) <=> rest = <<>>
      /\ Ended(r) => Text(SubSeq(r, 1, Len(r) - Len(End)))
  BY <1>m, <1>1, <1>2, <1>3, Ending
<1>5. PICK l \in Nat : l = Len(r) /\ DOMAIN r = 1 .. l
  BY <1>2, LenProperties
<1>6. PICK k : k = l - 2
  OBVIOUS
<1>7. k \in Int /\ \A i \in 1 .. k : i \in 1 .. l
  BY <1>5, <1>6
<1>8. 1 \in Int /\ \A i \in 1 .. k : r[i] \in Units
  BY <1>2, <1>5, <1>7, Elements
<1>9. SubSeq(r, 1, k) \in Seq(Units)
  BY <1>2, <1>7, <1>8, SubSeqProperties
<1>10. Len(End) = 2
  BY DEF End
<1>11. Leaves(r, rest)
  BY <1>m, <1>3 DEF Leaves
<1>12. Complete(r, rest)
  BY <1>4, <1>5, <1>6, <1>9, <1>10 DEF Complete
<1> QED BY <1>1, <1>2, <1>11, <1>12

\* What came of the message with this chunk.
LEMMA ChunkGood ==
    ASSUME NEW sv, NEW bs, NEW rs, NEW ans, NEW sd, MailGood(sv, bs, rs, ans, sd),
           sv.status = "open", sv.state = "DATA"
    PROVE  /\ sv.relay \in Seq(Units) /\ sd.contents \in Seq(Units)
           /\ sv.previous = sv.relay
           /\ Leaves(sv.relay, sd.contents)
           /\ \A k \in sv.keys : k \in DOMAIN bs /\ bs[k].data = sv.relay
<1>1. sv \in ServerOf /\ sd \in SendingOf
  BY DEF MailGood, MailTypes
<1>2. Receiving(sv, bs, rs, ans, sd)
  BY DEF MailGood
<1> QED BY <1>1, <1>2 DEF Receiving, Numbered, ServerOf, SendingOf, Leaves

LEMMA RawDataStep ==
    ASSUME MailInv, NEW n \in 1 .. MaxText + Len(End), OnRawData(n)
    PROVE  MailInv'
<1>1. PICK sv, bs, rs, ans, sd :
         /\ sv = server /\ bs = boxes /\ rs = relayed /\ ans = acks /\ sd = sending
         /\ MailGood(sv, bs, rs, ans, sd)
  BY DEF MailInv
<1>2. /\ sv \in ServerOf /\ bs \in Seq(BoxOf) /\ rs \in Seq(RelayOf)
      /\ ans \in Seq(AckOf) /\ sd \in SendingOf
  BY <1>1 DEF MailGood, MailTypes
<1>3. sv.status = "open" /\ sv.state = "DATA" /\ n <= Len(sd.contents)
  BY <1>1 DEF OnRawData
<1>4. PICK c : c = sd.contents
  OBVIOUS
<1>5. PICK b : b = sv.relay
  OBVIOUS
<1>6. /\ b \in Seq(Units) /\ c \in Seq(Units) /\ sv.previous = b
      /\ Leaves(b, c)
      /\ \A k \in sv.keys : k \in DOMAIN bs /\ bs[k].data = b
  <2>1. /\ sv.relay \in Seq(Units) /\ sd.contents \in Seq(Units)
        /\ sv.previous = sv.relay
        /\ Leaves(sv.relay, sd.contents)
        /\ \A k \in sv.keys : k \in DOMAIN bs /\ bs[k].data = sv.relay
    BY <1>1, <1>3, ChunkGood
  <2> QED BY <1>4, <1>5, <2>1
<1>7. n \in 1 .. Len(c)
  <2>1. Len(c) \in Nat /\ Len(End) = 2
    BY <1>6, LenProperties DEF End
  <2> QED BY <1>3, <1>4, <2>1, SmtpServerAssumption
<1>9. PICK chunk : chunk = SubSeq(c, 1, n)
  OBVIOUS
<1>10. PICK rest : rest = SubSeq(c, n + 1, Len(c))
  OBVIOUS
<1>11. PICK r : r = b \o chunk
  OBVIOUS
<1>c. Cut(c, chunk, rest)
  BY <1>7, <1>9, <1>10 DEF Cut
<1>12. /\ chunk \in Seq(Units) /\ rest \in Seq(Units) /\ r \in Seq(Units)
       /\ Leaves(r, rest)
       /\ Ended(r) <=> rest = <<>>
       /\ Ended(r) => Text(SubSeq(r, 1, Len(r) - Len(End)))
       /\ Ended(r) => SubSeq(r, 1, Len(r) - Len(End)) \in Seq(Units)
  <2>1. b \in Seq(Units) /\ c \in Seq(Units) /\ Leaves(b, c) /\ r = b \o chunk
    BY <1>6, <1>11
  <2>2. /\ chunk \in Seq(Units) /\ rest \in Seq(Units) /\ r \in Seq(Units)
        /\ Leaves(r, rest) /\ Complete(r, rest)
    BY <1>c, <2>1, Joined
  <2> QED BY <2>2 DEF Complete
<1>13. PICK e : e = [sd EXCEPT !.contents = rest]
  OBVIOUS
<1>14. e = sending'
  BY <1>1, <1>4, <1>10, <1>13 DEF OnRawData
<1>15. PICK s : s = server'
  OBVIOUS
<1>16. PICK cs : cs = boxes'
  OBVIOUS
<1>17. Terminated(chunk) <=> Ended(r)
  BY <1>1, <1>6, <1>11 DEF Terminated, Ended
<1>18. PICK written : written = [i \in DOMAIN bs |-> IF i \in sv.keys
            THEN [bs[i] EXCEPT !.data = @ \o chunk] ELSE bs[i]]
  OBVIOUS
<1>19. written = Appended(chunk)
  BY <1>1, <1>18 DEF Appended
<1>20. /\ Changed(bs, written, sv.keys)
       /\ \A k \in sv.keys : k \in DOMAIN bs /\ written[k].data = r
  <2>1. Written(bs, sv.keys, r, written)
    BY <1>6, <1>11, <1>18 DEF Written
  <2>2. bs \in Seq(BoxOf) /\ r \in Seq(Units)
    BY <1>2, <1>12
  <2>3. /\ Changed(bs, written, sv.keys)
        /\ Holding(bs, sv.keys, r, written)
    BY <2>1, <2>2, WrittenGood
  <2> QED BY <1>6, <2>3 DEF Holding
<1>21. CASE ~Ended(r)
  <2>1. /\ cs = written /\ rs = relayed' /\ ans = acks'
        /\ s = [sv EXCEPT !.previous = r, !.relay = r]
    BY <1>1, <1>4, <1>5, <1>6, <1>9, <1>11, <1>15, <1>16, <1>17, <1>19, <1>21
    DEF OnRawData
  <2>2. rest # <<>>
    BY <1>12, <1>21
  <2>3. MailGood(s, cs, rs, ans, e)
    BY <1>1, <1>3, <1>12, <1>13, <1>20, <2>1, <2>2, PartGood
  <2> QED BY <1>14, <1>15, <1>16, <2>1, <2>3, AfterStep
<1>22. CASE Ended(r)
  <2>1. PICK text : text = SubSeq(r, 1, Len(r) - Len(End))
    OBVIOUS
  <2>2. rest = <<>> /\ text \in Seq(Units) /\ Text(text)
    BY <1>12, <1>22, <2>1
  <2>3. cs = Truncated(written) /\ Queued(r)
    BY <1>1, <1>4, <1>5, <1>9, <1>11, <1>16, <1>17, <1>19, <1>22 DEF OnRawData
  <2>4. /\ Changed(bs, cs, sv.keys)
        /\ \A k \in sv.keys : cs[k].data = text
    <3>1. \A i \in DOMAIN bs : i \in sv.keys =>
              [[bs[i] EXCEPT !.data = r] EXCEPT !.data = text] = [bs[i] EXCEPT !.data = text]
      <4>1. \A i \in DOMAIN bs : bs[i] \in BoxOf
        BY <1>2, Elements
      <4> QED BY <4>1 DEF BoxOf
    <3>2. \A i \in DOMAIN bs : written[i] =
              IF i \in sv.keys THEN [bs[i] EXCEPT !.data = r] ELSE bs[i]
      BY <1>6, <1>11, <1>18
    <3>3. DOMAIN written = DOMAIN bs
      BY <1>18
    <3>4. /\ DOMAIN cs = DOMAIN bs /\ cs = [i \in DOMAIN bs |-> cs[i]]
          /\ \A i \in DOMAIN bs : cs[i] = IF i \in sv.keys
                THEN [written[i] EXCEPT !.data = SubSeq(@, 1, Len(@) - Len(End))]
                ELSE written[i]
      BY <1>1, <2>3, <3>3 DEF Truncated
    <3>5. \A i \in DOMAIN bs : i \in sv.keys => written[i].data = r
      BY <1>20
    <3>6. \A i \in DOMAIN bs : cs[i] = IF i \in sv.keys
              THEN [bs[i] EXCEPT !.data = text] ELSE bs[i]
      <4>1. ASSUME NEW i \in DOMAIN bs, i \in sv.keys
            PROVE  cs[i] = [bs[i] EXCEPT !.data = text]
        <5>1. cs[i] = [written[i] EXCEPT !.data = text]
          BY <2>1, <3>4, <3>5, <4>1
        <5> QED BY <3>1, <3>2, <4>1, <5>1
      <4>2. ASSUME NEW i \in DOMAIN bs, i \notin sv.keys PROVE cs[i] = bs[i]
        BY <3>2, <3>4, <4>2
      <4> QED BY <4>1, <4>2
    <3>7. Written(bs, sv.keys, text, cs)
      BY <3>4, <3>6 DEF Written
    <3>8. bs \in Seq(BoxOf) /\ text \in Seq(Units)
      BY <1>2, <2>2
    <3>9. /\ Changed(bs, cs, sv.keys)
          /\ Holding(bs, sv.keys, text, cs)
      BY <3>7, <3>8, WrittenGood
    <3> QED BY <1>6, <3>9 DEF Holding
  <2>5. CASE /\ server' = Closing /\ UNCHANGED <<relayed, acks>>
    <3>1. s = [sv EXCEPT !.status = "closed"] /\ rs = relayed' /\ ans = acks'
      BY <1>1, <1>15, <2>5 DEF Closing
    <3>2. MailGood(s, cs, rs, ans, e)
      BY <1>1, <1>3, <1>12, <1>13, <2>4, <3>1, UnansweredGood
    <3> QED BY <1>14, <1>15, <1>16, <3>1, <3>2, AfterStep
  <2>6. CASE ~(server' = Closing /\ UNCHANGED <<relayed, acks>>)
    <3>1. PICK qs : qs = relayed'
      OBVIOUS
    <3>2. PICK acs : acs = acks'
      OBVIOUS
    <3>3. Replied(sv, rs, ans, sd, text, s, e, qs, acs)
      BY <1>1, <1>13, <1>15, <2>1, <2>2, <2>3, <2>6, <3>1, <3>2 DEF Queued, Relay, Ack, Replied
    <3>4. MailGood(s, cs, qs, acs, e)
      BY <1>1, <1>3, <2>2, <2>4, <3>3, AnsweredMailGood
    <3> QED BY <1>14, <1>15, <1>16, <3>1, <3>2, <3>4, AfterStep
  <2> QED BY <2>5, <2>6
<1> QED BY <1>21, <1>22

\* Every step keeps the invariant.
LEMMA MailInvStep ==
    ASSUME MailInv, [ServerNext]_serverVars
    PROVE  MailInv'
<1>1. CASE UNCHANGED serverVars
  BY <1>1, AfterStep DEF MailInv, serverVars
<1>2. CASE Command
  BY <1>2, CommandStep
<1>3. CASE OnMail \/ \E a \in Addresses : OnRcpt(a)
  BY <1>3, AddressStep
<1>4. CASE OnData
  BY <1>4, DataStep
<1>5. CASE \E n \in 1 .. MaxText + Len(End) : OnRawData(n)
  BY <1>5, RawDataStep
<1> QED BY <1>1, <1>2, <1>3, <1>4, <1>5 DEF ServerNext, Command

LEMMA MailInvSafety ==
    ASSUME MailInv
    PROVE  MailboxSafety
<1>1. PICK sv, bs, rs, ans, sd :
         /\ sv = server /\ bs = boxes /\ rs = relayed /\ ans = acks /\ sd = sending
         /\ MailGood(sv, bs, rs, ans, sd)
  BY DEF MailInv
<1>2. EndsTogether
  BY <1>1 DEF EndsTogether, MailGood, Receiving
<1>3. PartialIsLast
  BY <1>1 DEF PartialIsLast, MailGood, Placed, Numbered
<1>4. \A i \in DOMAIN acks : Kept(acks[i], boxes, relayed)
  BY <1>1 DEF MailGood
<1>5. Acknowledged
  BY <1>3, <1>4 DEF Acknowledged, Kept, Numbered
<1> QED BY <1>2, <1>5 DEF MailboxSafety

-----------------------------------------------------------------------------
(* SMTP client.                                                            *)

Commands == {"ehlo", "starttls", "auth", "username", "password", "mail", "rcpt", "data",
             "contents", "quit"}
Auths == {<<>>, <<"auth">>, <<"auth", "username", "password">>}

Names == {"EHLO", "CAPA", "STLS", "UPGRADE", "AUTH", "USERNAME", "PASSWORD", "FROM",
          "TO", "DATA", "CONTENTS", "QUIT", "FINAL"}

\* the sequences of a session: the second has the message after four states
Sequence(o) == IF o = 0 THEN Plain ELSE WithStls

LEMMA PlainStates ==
    /\ Plain[1] = "EHLO" /\ Plain[2] = "CAPA" /\ Plain[3] = "AUTH"
    /\ Plain[4] = "USERNAME" /\ Plain[5] = "PASSWORD" /\ Plain[6] = "FROM"
    /\ Plain[7] = "TO" /\ Plain[8] = "DATA" /\ Plain[9] = "CONTENTS"
    /\ Plain[10] = "QUIT" /\ Plain[11] = "FINAL" /\ Len(Plain) = 11
    /\ DOMAIN Plain = 1 .. 11 /\ Plain \in Seq(Names)
<1>1. PICK p : p = Plain
  OBVIOUS
<1>2. p = <<"EHLO", "CAPA", "AUTH", "USERNAME", "PASSWORD", "FROM", "TO", "DATA",
            "CONTENTS", "QUIT", "FINAL">>
  BY <1>1 DEF Plain
<1>3. /\ p[1] = "EHLO" /\ p[2] = "CAPA" /\ p[3] = "AUTH" /\ p[4] = "USERNAME"
      /\ p[5] = "PASSWORD" /\ p[6] = "FROM" /\ p[7] = "TO" /\ p[8] = "DATA"
      /\ p[9] = "CONTENTS" /\ p[10] = "QUIT" /\ p[11] = "FINAL"
  BY <1>2
<1>4. Len(p) = 11
  BY <1>2
<1>5. DOMAIN p = 1 .. 11
  BY <1>2
<1>7. p \in Seq(Names)
  BY <1>2, <1>3 DEF Names
<1> QED BY <1>1, <1>3, <1>4, <1>5, <1>7

LEMMA StlsStates ==
    /\ WithStls[1] = "EHLO" /\ WithStls[2] = "CAPA" /\ WithStls[3] = "STLS"
    /\ WithStls[4] = "UPGRADE" /\ DOMAIN WithStls = 1 .. 15 /\ WithStls \in Seq(Names)
    /\ \A i \in 1 .. 11 : WithStls[i + 4] = Plain[i]
<1>1. PICK f : f = <<"EHLO", "CAPA", "STLS", "UPGRADE">>
  OBVIOUS
<1>2. /\ f \in Seq(Names) /\ Len(f) = 4 /\ f[1] = "EHLO" /\ f[2] = "CAPA"
      /\ f[3] = "STLS" /\ f[4] = "UPGRADE"
  BY <1>1 DEF Names
<1>3. PICK p : p = Plain
  OBVIOUS
<1>4. p \in Seq(Names) /\ Len(p) = 11
  BY <1>3, PlainStates
<1>5. PICK w : w = WithStls
  OBVIOUS
<1>6. w = f \o p
  BY <1>1, <1>3, <1>5 DEF WithStls
<1>7. /\ w \in Seq(Names) /\ Len(w) = 15
      /\ \A i \in 1 .. 15 : w[i] = IF i <= 4 THEN f[i] ELSE p[i - 4]
  <2>1. f \in Seq(Names) /\ p \in Seq(Names)
    BY <1>2, <1>4
  <2>2. /\ w \in Seq(Names) /\ Len(w) = Len(f) + Len(p)
        /\ \A i \in 1 .. Len(f) + Len(p) : w[i] = IF i <= Len(f) THEN f[i] ELSE p[i - Len(f)]
    BY <1>6, <2>1, ConcatProperties
  <2> QED BY <1>2, <1>4, <2>2
<1>8. DOMAIN w = 1 .. 15
  BY <1>7, LenProperties
<1>9. w[1] = f[1] /\ w[2] = f[2] /\ w[3] = f[3] /\ w[4] = f[4]
  BY <1>7
<1>10. ASSUME NEW i \in 1 .. 11 PROVE w[i + 4] = p[i]
  <2>1. PICK j : j = i + 4
    OBVIOUS
  <2>2. j \in 1 .. 15 /\ ~(j <= 4) /\ j - 4 = i
    BY <2>1
  <2> QED BY <1>7, <2>1, <2>2
<1> QED BY <1>2, <1>3, <1>5, <1>7, <1>8, <1>9, <1>10

Follows(o) ==
    \A s : s = Sequence(o) =>
           /\ s[o + 1] = "EHLO" /\ s[o + 2] = "CAPA" /\ s[o + 3] = "AUTH"
           /\ s[o + 4] = "USERNAME" /\ s[o + 5] = "PASSWORD" /\ s[o + 6] = "FROM"
           /\ s[o + 7] = "TO" /\ s[o + 8] = "DATA" /\ s[o + 9] = "CONTENTS"
           /\ s[o + 10] = "QUIT" /\ s[o + 11] = "FINAL"
           /\ DOMAIN s = 1 .. o + 11 /\ s \in Seq(Names)
           /\ \A i \in DOMAIN s : s[i] = "FROM" => i = o + 6

\* The states of a message in both sequences.
LEMMA States ==
    ASSUME NEW o \in {0, 4}
    PROVE  Follows(o)
<1>s. PICK s : s = Sequence(o)
  OBVIOUS
<1>1. CASE o = 0
  <2>1. s = Plain
    BY <1>s, <1>1 DEF Sequence
  <2> QED BY <1>s, <1>1, <2>1, PlainStates DEF Follows
<1>2. CASE o = 4
  <2>1. s = WithStls
    BY <1>s, <1>2 DEF Sequence
  <2>2. \A i \in 1 .. 11 : s[i + 4] = Plain[i]
    BY <2>1, StlsStates
  <2>3. \A i \in 1 .. 11 : s[4 + i] = Plain[i]
    <3>1. SUFFICES ASSUME NEW i \in 1 .. 11 PROVE s[4 + i] = Plain[i]
      OBVIOUS
    <3>2. 4 + i = i + 4
      OBVIOUS
    <3> QED BY <2>2, <3>2
  <2>4. \A i \in 1 .. 15 : i \in 1 .. 4 \/ \E j \in 1 .. 11 : i = 4 + j
    <3>1. SUFFICES ASSUME NEW i \in 1 .. 15, i \notin 1 .. 4
                   PROVE \E j \in 1 .. 11 : i = 4 + j
      OBVIOUS
    <3>2. i - 4 \in 1 .. 11 /\ i = 4 + (i - 4)
      BY <3>1
    <3> QED BY <3>2
  <2>5. \A j \in 1 .. 11 : Plain[j] = "FROM" => j = 6
    BY PlainStates
  <2>6. \A i \in DOMAIN s : s[i] = "FROM" => i = o + 6
    <3>a. DOMAIN s = 1 .. 15
      BY <2>1, StlsStates
    <3>1. SUFFICES ASSUME NEW i \in 1 .. 15, s[i] = "FROM" PROVE i = 10
      BY <1>2, <3>a
    <3>2. i \notin 1 .. 4
      BY <2>1, <3>1, StlsStates
    <3>3. PICK j \in 1 .. 11 : i = 4 + j
      BY <2>4, <3>2
    <3>4. j = 6
      BY <2>3, <2>5, <3>1, <3>3
    <3> QED BY <3>3, <3>4
  <2> QED BY <1>s, <1>2, <2>1, <2>3, <2>6, PlainStates, StlsStates DEF Follows
<1> QED BY <1>1, <1>2

\* The commands of one message to n recipients.
Exchange(a, n) ==
    <<"ehlo">> \o a \o <<"mail">> \o Repeat("rcpt", n) \o <<"data", "contents", "quit">>

\* z is x and then y, which are so long
Glued(T, x, y, z, k, m) ==
    /\ z \in Seq(T) /\ Len(z) = k + m
    /\ \A i \in 1 .. k : z[i] = x[i]
    /\ \A i \in 1 .. m : z[k + i] = y[i]
LEMMA Joins ==
    ASSUME NEW T, NEW x \in Seq(T), NEW y \in Seq(T), NEW z, z = x \o y,
           NEW k \in Nat, k = Len(x), NEW m \in Nat, m = Len(y)
    PROVE  Glued(T, x, y, z, k, m)
<1>1. /\ z \in Seq(T) /\ Len(z) = k + m
      /\ \A i \in 1 .. k + m : z[i] = IF i <= k THEN x[i] ELSE y[i - k]
  BY ConcatProperties
<1>2. ASSUME NEW i \in 1 .. k PROVE z[i] = x[i]
  <2>1. i \in 1 .. k + m /\ i <= k
    OBVIOUS
  <2> QED BY <1>1, <2>1
<1>3. ASSUME NEW i \in 1 .. m PROVE z[k + i] = y[i]
  <2>1. PICK j : j = k + i
    OBVIOUS
  <2>2. j \in 1 .. k + m /\ ~(j <= k) /\ j - k = i
    BY <2>1
  <2> QED BY <1>1, <2>1, <2>2
<1> QED BY <1>1, <1>2, <1>3 DEF Glued

LEMMA Repeated ==
    ASSUME NEW n \in Nat, NEW x \in Commands, NEW r, r = Repeat(x, n)
    PROVE  r \in Seq(Commands) /\ Len(r) = n /\ \A i \in 1 .. n : r[i] = x
  BY DEF Repeat

\* its commands, by their places
Exchanged(a, n) ==
    LET s == Exchange(a, n)
        l == Len(a)
    IN     /\ s \in Seq(Commands) /\ l \in {0, 1, 3} /\ Len(s) = l + n + 5
           /\ s[1] = "ehlo" /\ \A i \in 1 .. l : s[1 + i] = a[i]
           /\ s[l + 2] = "mail" /\ \A i \in 1 .. n : s[l + 2 + i] = "rcpt"
           /\ s[l + n + 3] = "data" /\ s[l + n + 4] = "contents"
           /\ s[l + n + 5] = "quit"

LEMMA ExchangeOf ==
    ASSUME NEW n \in Nat, NEW a \in Auths
    PROVE  Exchanged(a, n)
<1>s. PICK s : s = Exchange(a, n)
  OBVIOUS
<1>l. PICK l : l = Len(a)
  OBVIOUS
<1>1. PICK e : e = <<"ehlo">>
  OBVIOUS
<1>2. PICK m : m = <<"mail">>
  OBVIOUS
<1>3. PICK d : d = <<"data", "contents", "quit">>
  OBVIOUS
<1>4. PICK r : r = Repeat("rcpt", n)
  OBVIOUS
<1>5. e \in Seq(Commands) /\ Len(e) = 1 /\ e[1] = "ehlo"
  BY <1>1 DEF Commands
<1>6. m \in Seq(Commands) /\ Len(m) = 1 /\ m[1] = "mail"
  BY <1>2 DEF Commands
<1>7. /\ d \in Seq(Commands) /\ Len(d) = 3
      /\ d[1] = "data" /\ d[2] = "contents" /\ d[3] = "quit"
  BY <1>3 DEF Commands
<1>8. r \in Seq(Commands) /\ Len(r) = n /\ \A i \in 1 .. n : r[i] = "rcpt"
  <2>1. "rcpt" \in Commands
    BY DEF Commands
  <2> QED BY <1>4, <2>1, Repeated
<1>9. a \in Seq(Commands) /\ l \in {0, 1, 3}
  <2>1. CASE a = <<>>
    BY <1>l, <2>1
  <2>2. CASE a = <<"auth">>
    BY <1>l, <2>2 DEF Commands
  <2>3. CASE a = <<"auth", "username", "password">>
    BY <1>l, <2>3 DEF Commands
  <2> QED BY <2>1, <2>2, <2>3 DEF Auths
<1>10. PICK s1 : s1 = e \o a
  OBVIOUS
<1>11. PICK s2 : s2 = s1 \o m
  OBVIOUS
<1>12. PICK s3 : s3 = s2 \o r
  OBVIOUS
<1>13. s = s3 \o d
  BY <1>s, <1>1, <1>2, <1>3, <1>4, <1>10, <1>11, <1>12 DEF Exchange
<1>14. /\ s1 \in Seq(Commands) /\ Len(s1) = 1 + l /\ s1[1] = "ehlo"
       /\ \A i \in 1 .. l : s1[1 + i] = a[i]
  <2>1. PICK k \in Nat : k = 1
    OBVIOUS
  <2>2. l \in Nat /\ l = Len(a) /\ k = Len(e) /\ e \in Seq(Commands) /\ a \in Seq(Commands)
    BY <1>l, <1>5, <1>9, <2>1
  <2>3. Glued(Commands, e, a, s1, k, l)
    BY <1>10, <2>2, Joins
  <2>4. 1 \in 1 .. k
    BY <2>1
  <2> QED BY <1>5, <2>1, <2>3, <2>4 DEF Glued
<1>15. /\ s2 \in Seq(Commands) /\ Len(s2) = l + 2
       /\ \A i \in 1 .. l + 1 : s2[i] = s1[i]
       /\ s2[l + 2] = "mail"
  <2>1. PICK k \in Nat : k = l + 1
    BY <1>9
  <2>a. PICK one \in Nat : one = 1
    OBVIOUS
  <2>2. s1 \in Seq(Commands) /\ k = Len(s1) /\ m \in Seq(Commands) /\ one = Len(m)
    BY <1>6, <1>9, <1>14, <2>1, <2>a
  <2>b. Glued(Commands, s1, m, s2, k, one)
    BY <1>11, <2>2, Joins
  <2>3. /\ s2 \in Seq(Commands) /\ Len(s2) = k + 1
        /\ \A i \in 1 .. k : s2[i] = s1[i]
        /\ \A i \in 1 .. 1 : s2[k + i] = m[i]
    BY <2>a, <2>b DEF Glued
  <2>4. s2[k + 1] = m[1]
    BY <2>3
  <2>5. k + 1 = l + 2
    BY <1>9, <2>1
  <2> QED BY <1>6, <2>1, <2>3, <2>4, <2>5
<1>16. /\ s3 \in Seq(Commands) /\ Len(s3) = l + 2 + n
       /\ \A i \in 1 .. l + 2 : s3[i] = s2[i]
       /\ \A i \in 1 .. n : s3[l + 2 + i] = "rcpt"
  <2>1. PICK k \in Nat : k = l + 2
    BY <1>9
  <2>2. s2 \in Seq(Commands) /\ k = Len(s2) /\ r \in Seq(Commands) /\ n = Len(r)
    BY <1>8, <1>15, <2>1
  <2>b. Glued(Commands, s2, r, s3, k, n)
    BY <1>12, <2>2, Joins
  <2>3. /\ s3 \in Seq(Commands) /\ Len(s3) = k + n
        /\ \A i \in 1 .. k : s3[i] = s2[i]
        /\ \A i \in 1 .. n : s3[k + i] = r[i]
    BY <2>b DEF Glued
  <2> QED BY <1>8, <2>1, <2>3
<1>17. /\ s \in Seq(Commands) /\ Len(s) = l + n + 5
       /\ \A i \in 1 .. l + n + 2 : s[i] = s3[i]
       /\ s[l + n + 3] = "data" /\ s[l + n + 4] = "contents" /\ s[l + n + 5] = "quit"
  <2>1. PICK k \in Nat : k = l + n + 2
    BY <1>9
  <2>a. PICK three \in Nat : three = 3
    OBVIOUS
  <2>2. s3 \in Seq(Commands) /\ k = Len(s3) /\ d \in Seq(Commands) /\ three = Len(d)
    BY <1>7, <1>9, <1>16, <2>1, <2>a
  <2>b. Glued(Commands, s3, d, s, k, three)
    BY <1>13, <2>2, Joins
  <2>3. /\ s \in Seq(Commands) /\ Len(s) = k + 3
        /\ \A i \in 1 .. k : s[i] = s3[i]
        /\ \A i \in 1 .. 3 : s[k + i] = d[i]
    BY <2>a, <2>b DEF Glued
  <2>4. s[k + 1] = d[1] /\ s[k + 2] = d[2] /\ s[k + 3] = d[3]
    BY <2>3
  <2>5. k + 1 = l + n + 3 /\ k + 2 = l + n + 4 /\ k + 3 = l + n + 5
    BY <1>9, <2>1
  <2> QED BY <1>7, <2>1, <2>3, <2>4, <2>5
<1>18. s[1] = "ehlo"
  <2>1. 1 \in 1 .. l + n + 2 /\ 1 \in 1 .. l + 2 /\ 1 \in 1 .. l + 1
    BY <1>9
  <2> QED BY <1>14, <1>15, <1>16, <1>17, <2>1
<1>19. ASSUME NEW i \in 1 .. l PROVE s[1 + i] = a[i]
  <2>1. PICK j : j = 1 + i
    OBVIOUS
  <2>2. j \in 1 .. l + n + 2 /\ j \in 1 .. l + 2 /\ j \in 1 .. l + 1
    BY <1>9, <2>1
  <2>3. s[j] = s3[j] /\ s3[j] = s2[j] /\ s2[j] = s1[j]
    BY <1>15, <1>16, <1>17, <2>2
  <2>4. s1[1 + i] = a[i]
    BY <1>14
  <2> QED BY <2>1, <2>3, <2>4
<1>20. s[l + 2] = "mail"
  <2>1. PICK j : j = l + 2
    OBVIOUS
  <2>2. j \in 1 .. l + n + 2 /\ j \in 1 .. l + 2
    BY <1>9, <2>1
  <2> QED BY <1>15, <1>16, <1>17, <2>1, <2>2
<1>21. ASSUME NEW i \in 1 .. n PROVE s[l + 2 + i] = "rcpt"
  <2>1. PICK j : j = l + 2 + i
    OBVIOUS
  <2>2. j \in 1 .. l + n + 2
    BY <1>9, <2>1
  <2>3. s[j] = s3[j] /\ s3[l + 2 + i] = "rcpt"
    BY <1>16, <1>17, <2>2
  <2> QED BY <2>1, <2>3
<1> QED BY <1>s, <1>l, <1>9, <1>17, <1>18, <1>19, <1>20, <1>21 DEF Exchanged

\* what is sent begins a sequence of commands
Begins(t, s) ==
    /\ t \in Seq(Commands) /\ Len(t) <= Len(s)
    /\ \A i \in 1 .. Len(t) : t[i] = s[i]

LEMMA BeginsLonger ==
    ASSUME NEW s \in Seq(Commands), NEW t, Begins(t, s), NEW x, NEW u,
           u = Append(t, x), Len(t) < Len(s), x = s[Len(t) + 1]
    PROVE  Begins(u, s) /\ Len(u) = Len(t) + 1
<1>1. PICK m \in Nat : m = Len(t)
  BY LenProperties DEF Begins
<1>2. PICK k \in Nat : k = Len(s)
  BY LenProperties
<1>3. t \in Seq(Commands) /\ x \in Commands
  <2>1. m + 1 \in 1 .. k
    BY <1>1, <1>2
  <2>2. \A i \in 1 .. k : s[i] \in Commands
    BY <1>2, ElementOfSeq
  <2> QED BY <1>1, <2>1, <2>2 DEF Begins
<1>4. /\ u \in Seq(Commands) /\ Len(u) = m + 1 /\ u[m + 1] = x
      /\ \A i \in 1 .. m : u[i] = t[i]
  BY <1>1, <1>3, AppendProperties
<1>5. \A i \in 1 .. m + 1 : i \in 1 .. m \/ i = m + 1
  OBVIOUS
<1>6. \A i \in 1 .. m + 1 : u[i] = s[i]
  BY <1>1, <1>4, <1>5 DEF Begins
<1>7. m + 1 <= k
  BY <1>1, <1>2
<1> QED BY <1>1, <1>2, <1>4, <1>6, <1>7 DEF Begins

LEMMA BeginsIs ==
    ASSUME NEW s \in Seq(Commands), NEW t, Begins(t, s)
    PROVE  Len(t) <= Len(s) /\ SubSeq(s, 1, Len(t)) = t
<1>1. PICK m \in Nat : m = Len(t)
  BY LenProperties DEF Begins
<1>2. PICK k \in Nat : k = Len(s)
  BY LenProperties
<1>3. m <= k /\ t \in Seq(Commands) /\ \A i \in 1 .. m : t[i] = s[i]
  BY <1>1, <1>2 DEF Begins
<1>4. PICK u : u = SubSeq(s, 1, m)
  OBVIOUS
<1>5. u \in Seq(Commands) /\ Len(u) = m /\ \A i \in 1 .. m : u[i] = s[i]
  <2>1. \A i \in 1 .. k : s[i] \in Commands
    BY <1>2, ElementOfSeq
  <2>2. \A i \in 1 .. m : s[i] \in Commands
    BY <1>1, <1>2, <1>3, <2>1
  <2> QED BY <1>4, <2>2
<1>6. u = t
  <2>1. u \in Seq(Commands) /\ t \in Seq(Commands) /\ Len(u) = Len(t)
        /\ \A i \in 1 .. Len(u) : u[i] = t[i]
    BY <1>1, <1>3, <1>5
  <2> QED BY <2>1, SeqEqual
<1> QED BY <1>1, <1>2, <1>3, <1>4, <1>6

SessionOf == [status : {"none", "pending", "open", "closed"}, bound : BOOLEAN,
              sequence : {Plain, WithStls}, sindex : Nat, toIndex : Nat,
              awaits : Commands \cup {"none", "greeting", "upgrade"},
              sent : Seq(Commands)]
HeardOf == [starttls : BOOLEAN, still : BOOLEAN, tls : BOOLEAN, accepted : BOOLEAN]

\* How far a session is with its commands: before the first, after EHLO, until it
\* is upgraded, and in the message, which goes to n recipients.
Unsent(c, tls) ==
    /\ c.sent = <<>> /\ c.sindex = 1 /\ c.toIndex = 0 /\ ~tls
    /\ c.awaits \in {"none", "greeting"}
Greeted(c, tls) ==
    /\ c.sent = <<"ehlo">> /\ c.toIndex = 0 /\ c.awaits = "ehlo"
    /\ IF tls THEN c.sequence = WithStls /\ c.sindex = 6 ELSE c.sindex = 2
Upgrading(c, tls) ==
    /\ c.sent = <<"ehlo", "starttls">> /\ c.toIndex = 0 /\ ~tls
    /\ c.sequence = WithStls
    /\ \/ c.sindex = 4 /\ c.awaits = "starttls"
       \/ c.sindex = 5 /\ c.awaits = "upgrade"
\* m commands are sent, l of which at the most are of the authentication, and it
\* is in a state of a sequence that has o states before
At(c, l, o, m, n) ==
    \/ m \in 2 .. l + 1 /\ c.toIndex = 0 /\ c.sindex = IF m = l + 1 THEN o + 6 ELSE o + m + 2
    \/ c.toIndex < n /\ c.sindex = o + 7 /\ m = l + 2 + c.toIndex
    \/ c.toIndex = n /\ c.sindex \in o + 8 .. o + 11 /\ m = l + n + c.sindex - o - 6
Exchanging(c, tls, starttls, n) ==
    /\ c.awaits \in Commands
    /\ \E a \in Auths, o \in {0, 4} :
          /\ c.sequence = Sequence(o) /\ Begins(c.sent, Exchange(a, n))
          /\ IF o = 4 THEN tls ELSE ~tls /\ ~starttls
          /\ At(c, Len(a), o, Len(c.sent), n)
Shape(c, tls, starttls, n) ==
    \/ Unsent(c, tls) \/ Greeted(c, tls) \/ Upgrading(c, tls)
    \/ Exchanging(c, tls, starttls, n)

LEMMA Sequences ==
    /\ Plain # WithStls /\ Plain = Sequence(0) /\ WithStls = Sequence(4)
    /\ Plain[1] = "EHLO" /\ Plain[2] = "CAPA" /\ Plain[3] = "AUTH"
    /\ WithStls[1] = "EHLO" /\ WithStls[2] = "CAPA" /\ WithStls[3] = "STLS"
    /\ WithStls[4] = "UPGRADE" /\ WithStls[5] = "EHLO" /\ WithStls[6] = "CAPA"
    /\ WithStls[7] = "AUTH"
<1>1. WithStls[1 + 4] = Plain[1] /\ WithStls[2 + 4] = Plain[2] /\ WithStls[3 + 4] = Plain[3]
  BY StlsStates
<1>2. Plain[3] # WithStls[3]
  BY PlainStates, StlsStates
<1> QED BY <1>1, <1>2, PlainStates, StlsStates DEF Sequence

LEMMA SendsOf ==
    ASSUME NEW c \in SessionOf, NEW x \in Commands, NEW u, u = Sends(c, x)
    PROVE  /\ u \in SessionOf /\ u.sent = Append(c.sent, x) /\ u.awaits = x
           /\ u.status = c.status /\ u.bound = c.bound /\ u.sequence = c.sequence
           /\ u.sindex = c.sindex /\ u.toIndex = c.toIndex
<1>1. c.sent \in Seq(Commands)
  BY DEF SessionOf
<1>2. PICK t : t = Append(c.sent, x)
  OBVIOUS
<1>3. t \in Seq(Commands)
  BY <1>1, <1>2, AppendProperties
<1>4. u = [c EXCEPT !.awaits = x, !.sent = t]
  BY <1>2 DEF Sends
<1> QED BY <1>2, <1>3, <1>4 DEF SessionOf

LEMMA Next1Of ==
    ASSUME NEW c \in SessionOf, NEW u, u = Next1(c)
    PROVE  /\ u \in SessionOf /\ u.sent = c.sent /\ u.awaits = c.awaits
           /\ u.status = c.status /\ u.bound = c.bound /\ u.sequence = c.sequence
           /\ u.sindex = c.sindex + 1 /\ u.toIndex = c.toIndex
<1>1. PICK i : i = c.sindex + 1
  OBVIOUS
<1>2. i \in Nat
  BY <1>1 DEF SessionOf
<1>3. u = [c EXCEPT !.sindex = i]
  BY <1>1 DEF Next1
<1> QED BY <1>1, <1>2, <1>3 DEF SessionOf

LEMMA ToFrom ==
    ASSUME NEW c \in SessionOf, NEW o \in {0, 4}, c.sequence = Sequence(o),
           NEW u, u = To(c, "FROM")
    PROVE  /\ u \in SessionOf /\ u.sent = c.sent /\ u.awaits = c.awaits
           /\ u.status = c.status /\ u.bound = c.bound /\ u.sequence = c.sequence
           /\ u.sindex = o + 6 /\ u.toIndex = c.toIndex
<1>1. PICK s : s = c.sequence
  OBVIOUS
<1>2. PICK i : i = CHOOSE k \in DOMAIN s : s[k] = "FROM"
  OBVIOUS
<1>3. PICK j : j = o + 6
  OBVIOUS
<1>4. /\ s[o + 6] = "FROM" /\ DOMAIN s = 1 .. o + 11
      /\ \A k \in DOMAIN s : s[k] = "FROM" => k = o + 6
  <2>1. s = Sequence(o)
    BY <1>1
  <2>2. Follows(o)
    BY States
  <2> QED BY <2>1, <2>2 DEF Follows
<1>5. j \in DOMAIN s /\ s[j] = "FROM"
  BY <1>3, <1>4
<1>6. i \in DOMAIN s /\ s[i] = "FROM"
  BY <1>2, <1>5
<1>7. i = j
  BY <1>3, <1>4, <1>6
<1>8. i \in Nat
  BY <1>3, <1>7
<1>9. u = [c EXCEPT !.sindex = i]
  BY <1>1, <1>2 DEF To
<1> QED BY <1>3, <1>7, <1>8, <1>9 DEF SessionOf

LEMMA Pair ==
    ASSUME NEW x \in Commands, NEW y \in Commands
    PROVE  Append(<<x>>, y) = <<x, y>>
<1>1. PICK t : t = <<x>>
  OBVIOUS
<1>2. PICK u : u = Append(t, y)
  OBVIOUS
<1>3. PICK v : v = <<x, y>>
  OBVIOUS
<1>4. t \in Seq(Commands) /\ Len(t) = 1 /\ t[1] = x
  BY <1>1
<1>5. v \in Seq(Commands) /\ Len(v) = 2 /\ v[1] = x /\ v[2] = y
  BY <1>3
<1>6. u \in Seq(Commands) /\ Len(u) = Len(t) + 1 /\ u[Len(t) + 1] = y
      /\ \A i \in 1 .. Len(t) : u[i] = t[i]
  BY <1>2, <1>4, AppendProperties
<1>7. \A i \in 1 .. 2 : i = 1 \/ i = 2
  OBVIOUS
<1>8. Len(u) = 2 /\ u[1] = x /\ u[2] = y
  BY <1>4, <1>6
<1>9. u = v
  <2>1. /\ u \in Seq(Commands) /\ v \in Seq(Commands) /\ Len(u) = Len(v)
        /\ \A i \in 1 .. Len(u) : u[i] = v[i]
    BY <1>5, <1>6, <1>7, <1>8
  <2> QED BY <2>1, SeqEqual
<1> QED BY <1>1, <1>2, <1>3, <1>9

LEMMA FirstCommand ==
    ASSUME NEW d, d = <<>>, NEW w, w = Append(d, "ehlo")
    PROVE  w = <<"ehlo">>
OBVIOUS

LEMMA LongAuth ==
    ASSUME NEW a \in Auths, Len(a) = 3
    PROVE  a[2] = "username" /\ a[3] = "password"
<1>1. CASE a = <<>>
  <2>1. Len(a) = 0
    BY <1>1
  <2> QED BY <2>1
<1>2. CASE a = <<"auth">>
  <2>1. Len(a) = 1
    BY <1>2
  <2> QED BY <2>1
<1>3. CASE a = <<"auth", "username", "password">>
  BY <1>3
<1> QED BY <1>1, <1>2, <1>3 DEF Auths

LEMMA FirstCommands ==
    /\ Append(<<>>, "ehlo") = <<"ehlo">>
    /\ Append(<<"ehlo">>, "starttls") = <<"ehlo", "starttls">>
    /\ Append(<<"ehlo">>, "mail") = <<"ehlo", "mail">>
    /\ Append(<<"ehlo">>, "auth") = <<"ehlo", "auth">>
<1>1. Append(<<>>, "ehlo") = <<"ehlo">>
  OBVIOUS
<1>2. /\ "ehlo" \in Commands /\ "starttls" \in Commands
      /\ "mail" \in Commands /\ "auth" \in Commands
  BY DEF Commands
<1> QED BY <1>1, <1>2, Pair

LEMMA EhloGood ==
    ASSUME NEW c \in SessionOf, NEW tls \in BOOLEAN, NEW starttls \in BOOLEAN,
           Unsent(c, tls), NEW n, NEW u, u = Call(c, n, starttls)
    PROVE  /\ u \in SessionOf /\ Greeted(u, tls) /\ u.status = c.status /\ u.bound = c.bound
<1>1. State(c) = "EHLO"
  BY Sequences DEF State, SessionOf, Unsent
<1>2. PICK t : t = Sends(c, "ehlo")
  OBVIOUS
<1>3. u = Next1(t)
  BY <1>1, <1>2 DEF Call
<1>4. "ehlo" \in Commands
  BY DEF Commands
<1>5. /\ t \in SessionOf /\ t.sent = Append(c.sent, "ehlo") /\ t.awaits = "ehlo"
      /\ t.status = c.status /\ t.bound = c.bound
      /\ t.sindex = c.sindex /\ t.toIndex = c.toIndex
  BY <1>2, <1>4, SendsOf
<1>6. /\ u \in SessionOf /\ u.sent = t.sent /\ u.awaits = t.awaits
      /\ u.status = t.status /\ u.bound = t.bound
      /\ u.sindex = t.sindex + 1 /\ u.toIndex = t.toIndex
  BY <1>3, <1>5, Next1Of
<1> QED BY <1>5, <1>6, FirstCommands DEF Unsent, Greeted

\* What is known of a session after EHLO that goes on with the message.
AtAuth(c, o) ==
    /\ c.sequence = Sequence(o) /\ c.sindex = o + 3
    /\ c.toIndex = 0 /\ c.sent = <<"ehlo">>
LEMMA AuthGood ==
    ASSUME NEW c \in SessionOf, NEW o \in {0, 4}, AtAuth(c, o),
           NEW tls \in BOOLEAN, NEW starttls \in BOOLEAN, IF o = 4 THEN tls ELSE ~tls /\ ~starttls,
           NEW n \in Nat, n > 0, job.method \in {"none", "plain", "login"},
           NEW u, u = AuthT(c)
    PROVE  /\ u \in SessionOf /\ Exchanging(u, tls, starttls, n)
           /\ u.status = c.status /\ u.bound = c.bound
<1>1. "auth" \in Commands /\ "mail" \in Commands
  BY DEF Commands
<1>2. ASSUME NEW a \in Auths, u \in SessionOf, u.sequence = Sequence(o),
             u.awaits \in Commands, Begins(u.sent, Exchange(a, n)),
             At(u, Len(a), o, Len(u.sent), n)
      PROVE  Exchanging(u, tls, starttls, n)
  BY <1>2 DEF Exchanging
<1>3. ASSUME NEW a \in Auths, NEW x \in Commands, u.sent = <<"ehlo", x>>,
             Len(a) = 0 => x = "mail", Len(a) # 0 => x = a[1]
      PROVE  Begins(u.sent, Exchange(a, n)) /\ Len(u.sent) = 2
  <2>1. PICK s : s = Exchange(a, n)
    OBVIOUS
  <2>2. PICK l : l = Len(a)
    OBVIOUS
  <2>3. /\ s \in Seq(Commands) /\ l \in {0, 1, 3} /\ Len(s) = l + n + 5
        /\ s[1] = "ehlo" /\ \A i \in 1 .. l : s[1 + i] = a[i]
        /\ s[l + 2] = "mail"
    <3>1. Exchanged(a, n)
      BY ExchangeOf
    <3> QED BY <2>1, <2>2, <3>1 DEF Exchanged
  <2>4. s[2] = x
    <3>1. CASE l = 0
      BY <1>3, <2>2, <2>3, <3>1
    <3>2. CASE l # 0
      <4>1. 1 \in 1 .. l /\ 1 + 1 = 2
        BY <2>3, <3>2
      <4>2. s[1 + 1] = a[1]
        BY <2>3, <4>1
      <4> QED BY <1>3, <2>2, <3>2, <4>1, <4>2
    <3> QED BY <3>1, <3>2
  <2>5. PICK t : t = <<"ehlo", x>>
    OBVIOUS
  <2>6. t \in Seq(Commands) /\ Len(t) = 2 /\ t[1] = "ehlo" /\ t[2] = x
    BY <2>5 DEF Commands
  <2>7. \A i \in 1 .. 2 : t[i] = s[i]
    <3>1. \A i \in 1 .. 2 : i = 1 \/ i = 2
      OBVIOUS
    <3> QED BY <2>3, <2>4, <2>6, <3>1
  <2>8. 2 <= Len(s)
    BY <2>3
  <2> QED BY <1>3, <2>1, <2>5, <2>6, <2>7, <2>8 DEF Begins
<1>4. CASE job.method = "none"
  <2>1. PICK t : t = To(c, "FROM")
    OBVIOUS
  <2>2. PICK v : v = Sends(t, "mail")
    OBVIOUS
  <2>3. u = Next1(v)
    BY <1>4, <2>1, <2>2 DEF AuthT
  <2>4. /\ t \in SessionOf /\ t.sent = c.sent /\ t.status = c.status
        /\ t.bound = c.bound /\ t.sequence = c.sequence
        /\ t.sindex = o + 6 /\ t.toIndex = c.toIndex
    <3>1. c.sequence = Sequence(o)
      BY DEF AtAuth
    <3> QED BY <2>1, <3>1, ToFrom
  <2>5. /\ v \in SessionOf /\ v.sent = Append(t.sent, "mail") /\ v.awaits = "mail"
        /\ v.status = t.status /\ v.bound = t.bound /\ v.sequence = t.sequence
        /\ v.sindex = t.sindex /\ v.toIndex = t.toIndex
    <3>1. "mail" \in Commands /\ t \in SessionOf
      BY <1>1, <2>4
    <3> QED BY <2>2, <3>1, SendsOf
  <2>6. /\ u \in SessionOf /\ u.sent = v.sent /\ u.awaits = v.awaits
        /\ u.status = v.status /\ u.bound = v.bound /\ u.sequence = v.sequence
        /\ u.sindex = v.sindex + 1 /\ u.toIndex = v.toIndex
    BY <2>3, <2>5, Next1Of
  <2>7. PICK a \in Auths : a = <<>>
    BY DEF Auths
  <2>8. Len(a) = 0
    BY <2>7
  <2>9. u.sent = <<"ehlo", "mail">>
    BY <2>4, <2>5, <2>6, FirstCommands DEF AtAuth
  <2>10. Begins(u.sent, Exchange(a, n)) /\ Len(u.sent) = 2
    BY <1>1, <1>3, <2>8, <2>9
  <2>11. u.sindex = o + 7 /\ u.toIndex = 0
    BY <2>4, <2>5, <2>6 DEF AtAuth
  <2>12. At(u, 0, o, 2, n)
    BY <2>11 DEF At
  <2>13. u.sequence = Sequence(o) /\ u.awaits \in Commands
    BY <1>1, <2>4, <2>5, <2>6 DEF AtAuth
  <2> QED BY <1>2, <2>4, <2>5, <2>6, <2>8, <2>10, <2>12, <2>13
<1>5. PICK v : v = Sends(c, "auth")
  OBVIOUS
<1>6. /\ v \in SessionOf /\ v.sent = Append(c.sent, "auth") /\ v.awaits = "auth"
      /\ v.status = c.status /\ v.bound = c.bound /\ v.sequence = c.sequence
      /\ v.sindex = c.sindex /\ v.toIndex = c.toIndex
  <2>1. "auth" \in Commands
    BY <1>1
  <2> QED BY <1>5, <2>1, SendsOf
<1>7. CASE job.method = "plain"
  <2>1. u = To(v, "FROM")
    BY <1>5, <1>7 DEF AuthT
  <2>a. v.sequence = Sequence(o)
    BY <1>6 DEF AtAuth
  <2>2. /\ u \in SessionOf /\ u.sent = v.sent /\ u.awaits = v.awaits
        /\ u.status = v.status /\ u.bound = v.bound /\ u.sequence = v.sequence
        /\ u.sindex = o + 6 /\ u.toIndex = v.toIndex
    BY <1>6, <2>1, <2>a, ToFrom
  <2>3. PICK a \in Auths : a = <<"auth">>
    BY DEF Auths
  <2>4. Len(a) = 1 /\ a[1] = "auth"
    BY <2>3
  <2>5. u.sent = <<"ehlo", "auth">>
    BY <1>6, <2>2, FirstCommands DEF AtAuth
  <2>6. Begins(u.sent, Exchange(a, n)) /\ Len(u.sent) = 2
    BY <1>1, <1>3, <2>4, <2>5
  <2>7. At(u, 1, o, 2, n)
    BY <1>6, <2>2 DEF At, AtAuth
  <2>8. u.sequence = Sequence(o) /\ u.awaits \in Commands
    BY <1>1, <1>6, <2>2 DEF AtAuth
  <2> QED BY <1>2, <1>6, <2>2, <2>4, <2>6, <2>7, <2>8
<1>8. CASE job.method = "login"
  <2>1. u = Next1(v)
    BY <1>5, <1>8 DEF AuthT
  <2>2. /\ u \in SessionOf /\ u.sent = v.sent /\ u.awaits = v.awaits
        /\ u.status = v.status /\ u.bound = v.bound /\ u.sequence = v.sequence
        /\ u.sindex = v.sindex + 1 /\ u.toIndex = v.toIndex
    BY <1>6, <2>1, Next1Of
  <2>3. PICK a \in Auths : a = <<"auth", "username", "password">>
    BY DEF Auths
  <2>4. Len(a) = 3 /\ a[1] = "auth"
    BY <2>3
  <2>5. u.sent = <<"ehlo", "auth">>
    BY <1>6, <2>2, FirstCommands DEF AtAuth
  <2>6. Begins(u.sent, Exchange(a, n)) /\ Len(u.sent) = 2
    BY <1>1, <1>3, <2>4, <2>5
  <2>7. u.sindex = o + 4 /\ u.toIndex = 0
    BY <1>6, <2>2 DEF AtAuth
  <2>9. At(u, 3, o, 2, n)
    BY <2>7 DEF At
  <2>8. u.sequence = Sequence(o) /\ u.awaits \in Commands
    BY <1>1, <1>6, <2>2 DEF AtAuth
  <2> QED BY <1>2, <1>6, <2>2, <2>4, <2>6, <2>8, <2>9
<1> QED BY <1>4, <1>7, <1>8

LEMMA CapaGood ==
    ASSUME NEW c \in SessionOf, NEW tls \in BOOLEAN, NEW starttls \in BOOLEAN,
           NEW still \in BOOLEAN, Greeted(c, tls),
           NEW n \in Nat, n > 0, job.method \in {"none", "plain", "login"},
           NEW u, u = Call(c, n, IF tls THEN still ELSE starttls)
    PROVE  /\ u \in SessionOf /\ u.status = c.status /\ u.bound = c.bound
           /\ Upgrading(u, tls) \/ Exchanging(u, tls, starttls, n)
<1>1. State(c) = "CAPA" /\ c.sequence \in {Plain, WithStls}
  BY Sequences DEF State, SessionOf, Greeted
<1>2. PICK offers \in BOOLEAN : offers = IF tls THEN still ELSE starttls
  OBVIOUS
<1>3. u = CapaT(c, offers)
  BY <1>1, <1>2 DEF Call
<1>4. PICK restart \in BOOLEAN : restart <=> (offers /\ c.sequence # WithStls)
  OBVIOUS
<1>5. PICK t : t = IF restart THEN [c EXCEPT !.sequence = WithStls, !.sindex = 2] ELSE c
  OBVIOUS
<1>6. PICK v : v = Next1(t)
  OBVIOUS
<1>7. u = IF State(v) = "STLS" THEN Next1(Sends(v, "starttls")) ELSE AuthT(v)
  BY <1>3, <1>4, <1>5, <1>6 DEF CapaT
<1>8. /\ t \in SessionOf /\ t.sent = c.sent /\ t.status = c.status
      /\ t.bound = c.bound /\ t.toIndex = c.toIndex
      /\ t.sequence = (IF restart THEN WithStls ELSE c.sequence)
      /\ t.sindex = (IF restart THEN 2 ELSE c.sindex)
  BY <1>5 DEF SessionOf
<1>9. /\ v \in SessionOf /\ v.sent = t.sent /\ v.status = t.status
      /\ v.bound = t.bound /\ v.toIndex = t.toIndex
      /\ v.sequence = t.sequence /\ v.sindex = t.sindex + 1
  BY <1>6, <1>8, Next1Of
<1>10. v.sent = <<"ehlo">> /\ v.toIndex = 0 /\ v.status = c.status /\ v.bound = c.bound
  BY <1>8, <1>9 DEF Greeted
<1>11. CASE ~tls /\ v.sequence = WithStls
  <2>1. v.sindex = 3 /\ State(v) = "STLS"
    BY <1>8, <1>9, <1>11, Sequences DEF Greeted, State
  <2>2. PICK w : w = Sends(v, "starttls")
    OBVIOUS
  <2>3. u = Next1(w)
    BY <1>7, <2>1, <2>2
  <2>4. "starttls" \in Commands
    BY DEF Commands
  <2>5. /\ w \in SessionOf /\ w.sent = Append(v.sent, "starttls") /\ w.awaits = "starttls"
        /\ w.status = v.status /\ w.bound = v.bound /\ w.sequence = v.sequence
        /\ w.sindex = v.sindex /\ w.toIndex = v.toIndex
    BY <1>9, <2>2, <2>4, SendsOf
  <2>6. /\ u \in SessionOf /\ u.sent = w.sent /\ u.awaits = w.awaits
        /\ u.status = w.status /\ u.bound = w.bound /\ u.sequence = w.sequence
        /\ u.sindex = w.sindex + 1 /\ u.toIndex = w.toIndex
    BY <2>3, <2>5, Next1Of
  <2>7. u.sindex = 4 /\ u.sent = <<"ehlo", "starttls">> /\ u.toIndex = 0
    BY <1>10, <2>1, <2>5, <2>6, FirstCommands
  <2>8. Upgrading(u, tls)
    BY <1>11, <2>5, <2>6, <2>7 DEF Upgrading
  <2> QED BY <1>10, <2>5, <2>6, <2>8
<1>12. CASE ~tls /\ v.sequence # WithStls
  <2>1. ~restart /\ v.sequence = Plain /\ ~starttls /\ v.sindex = 3
    BY <1>1, <1>2, <1>4, <1>8, <1>9, <1>12 DEF Greeted
  <2>2. State(v) = "AUTH"
    BY <2>1, Sequences DEF State
  <2>3. u = AuthT(v)
    BY <1>7, <2>2
  <2>4. PICK o \in {0, 4} : o = 0
    OBVIOUS
  <2>5. AtAuth(v, o)
    BY <1>10, <2>1, <2>4, Sequences DEF AtAuth
  <2>6. IF o = 4 THEN tls ELSE ~tls /\ ~starttls
    BY <1>12, <2>1, <2>4
  <2>7. /\ u \in SessionOf /\ Exchanging(u, tls, starttls, n)
        /\ u.status = v.status /\ u.bound = v.bound
    BY <1>9, <1>10, <2>3, <2>5, <2>6, AuthGood
  <2> QED BY <1>10, <2>7
<1>13. CASE tls
  <2>1. ~restart /\ v.sequence = WithStls /\ v.sindex = 7
    BY <1>4, <1>8, <1>9, <1>13 DEF Greeted
  <2>2. State(v) = "AUTH"
    BY <2>1, Sequences DEF State
  <2>3. u = AuthT(v)
    BY <1>7, <2>2
  <2>4. PICK o \in {0, 4} : o = 4
    OBVIOUS
  <2>5. AtAuth(v, o)
    BY <1>10, <2>1, <2>4, Sequences DEF AtAuth
  <2>6. IF o = 4 THEN tls ELSE ~tls /\ ~starttls
    BY <1>13, <2>4
  <2>7. /\ u \in SessionOf /\ Exchanging(u, tls, starttls, n)
        /\ u.status = v.status /\ u.bound = v.bound
    BY <1>9, <1>10, <2>3, <2>5, <2>6, AuthGood
  <2> QED BY <1>10, <2>7
<1> QED BY <1>11, <1>12, <1>13

LEMMA UpgradeGood ==
    ASSUME NEW c \in SessionOf, NEW tls \in BOOLEAN, Upgrading(c, tls),
           c.awaits # "upgrade", NEW n, NEW offers, NEW u, u = Call(c, n, offers)
    PROVE  u \in SessionOf /\ Upgrading(u, tls) /\ u.status = c.status /\ u.bound = c.bound
<1>1. c.sindex = 4 /\ State(c) = "UPGRADE"
  BY Sequences DEF State, Upgrading
<1>2. PICK v : v = Next1(c)
  OBVIOUS
<1>3. u = [v EXCEPT !.awaits = "upgrade"]
  BY <1>1, <1>2 DEF Call
<1>4. /\ v \in SessionOf /\ v.sent = c.sent /\ v.status = c.status
      /\ v.bound = c.bound /\ v.sequence = c.sequence
      /\ v.sindex = c.sindex + 1 /\ v.toIndex = c.toIndex
  BY <1>2, Next1Of
<1>5. /\ u \in SessionOf /\ u.sent = v.sent /\ u.status = v.status /\ u.bound = v.bound
      /\ u.sequence = v.sequence /\ u.sindex = v.sindex /\ u.toIndex = v.toIndex
      /\ u.awaits = "upgrade"
  BY <1>3, <1>4 DEF SessionOf
<1> QED BY <1>1, <1>4, <1>5 DEF Upgrading

\* A session that begins again after its upgrade.
Again(c) ==
    c.sequence = WithStls /\ c.sindex = 5 /\ c.toIndex = 0 /\ c.sent = <<>>
Resumes(c, n) == Call(c, n, FALSE)
GreetedAgain(c) == Greeted(c, TRUE)
LEMMA AgainGood ==
    ASSUME NEW c \in SessionOf, Again(c), NEW n, NEW u, u = Resumes(c, n)
    PROVE  u \in SessionOf /\ GreetedAgain(u) /\ u.status = c.status /\ u.bound = c.bound
<1>a. c.sequence = WithStls /\ c.sindex = 5 /\ c.toIndex = 0
  BY DEF Again
<1>1. State(c) = "EHLO"
  BY <1>a, Sequences DEF State
<1>2. PICK v : v = Sends(c, "ehlo")
  OBVIOUS
<1>3. u = Next1(v)
  BY <1>1, <1>2 DEF Call, Resumes
<1>4. "ehlo" \in Commands
  BY DEF Commands
<1>5. /\ v \in SessionOf /\ v.sent = Append(c.sent, "ehlo") /\ v.awaits = "ehlo"
      /\ v.status = c.status /\ v.bound = c.bound /\ v.sequence = c.sequence
      /\ v.sindex = c.sindex /\ v.toIndex = c.toIndex
  BY <1>2, <1>4, SendsOf
<1>6. /\ u \in SessionOf /\ u.sent = v.sent /\ u.awaits = v.awaits
      /\ u.status = v.status /\ u.bound = v.bound /\ u.sequence = v.sequence
      /\ u.sindex = v.sindex + 1 /\ u.toIndex = v.toIndex
  BY <1>3, <1>5, Next1Of
<1>7. u.sindex = 6 /\ u.toIndex = 0 /\ u.sequence = WithStls
  <2>1. u.toIndex = 0
    BY <1>a, <1>5, <1>6
  <2>2. u.sequence = WithStls
    BY <1>a, <1>5, <1>6
  <2>3. v.sindex = 5
    BY <1>a, <1>5
  <2>4. PICK i : i = v.sindex + 1
    OBVIOUS
  <2>5. i = 6
    BY <2>3, <2>4
  <2>6. u.sindex = i
    BY <1>6, <2>4
  <2> QED BY <2>1, <2>2, <2>5, <2>6
<1>8. u.sent = <<"ehlo">>
  BY <1>5, <1>6, FirstCommands DEF Again
<1> QED BY <1>5, <1>6, <1>7, <1>8 DEF Greeted, GreetedAgain

Anew(c) == [c EXCEPT !.sent = <<>>]
LEMMA Restarted ==
    ASSUME NEW c \in SessionOf, NEW d, d = Anew(c)
    PROVE  /\ d \in SessionOf /\ d.sent = <<>> /\ d.awaits = c.awaits
           /\ d.status = c.status /\ d.bound = c.bound /\ d.sequence = c.sequence
           /\ d.sindex = c.sindex /\ d.toIndex = c.toIndex
<1>1. PICK none : none = <<>>
  OBVIOUS
<1>2. none \in Seq(Commands)
  BY <1>1
<1>3. d = [c EXCEPT !.sent = none]
  BY <1>1 DEF Anew
<1> QED BY <1>1, <1>2, <1>3 DEF SessionOf

Restarts(c, n) == Resumes(Anew(c), n)
LEMMA UpgradedGood ==
    ASSUME NEW c \in SessionOf, NEW tls \in BOOLEAN, Upgrading(c, tls),
           c.awaits = "upgrade", NEW n, NEW u, u = Restarts(c, n)
    PROVE  u \in SessionOf /\ GreetedAgain(u) /\ u.status = c.status /\ u.bound = c.bound
<1>d. PICK d : d = Anew(c)
  OBVIOUS
<1>1. /\ d \in SessionOf /\ d.sent = <<>> /\ d.status = c.status /\ d.bound = c.bound
      /\ d.sequence = c.sequence /\ d.sindex = c.sindex /\ d.toIndex = c.toIndex
  BY <1>d, Restarted
<1>2. Again(d)
  BY <1>1 DEF Upgrading, Again
<1>3. u = Resumes(d, n)
  BY <1>d DEF Restarts
<1>4. u \in SessionOf /\ GreetedAgain(u) /\ u.status = d.status /\ u.bound = d.bound
  BY <1>1, <1>2, <1>3, AgainGood
<1> QED BY <1>1, <1>4

\* Sending the next command of a sequence, and going to the next state.
Goes(c, v, s) ==
    /\ v \in SessionOf /\ v.awaits \in Commands /\ v.status = c.status
    /\ v.bound = c.bound /\ v.sequence = c.sequence /\ v.sindex = c.sindex
    /\ v.toIndex = c.toIndex /\ Begins(v.sent, s) /\ Len(v.sent) = Len(c.sent) + 1
Due(c, s, x) ==
    Begins(c.sent, s) /\ Len(c.sent) < Len(s) /\ x = s[Len(c.sent) + 1]
LEMMA GoesOn ==
    ASSUME NEW c \in SessionOf, NEW s \in Seq(Commands), NEW x \in Commands, Due(c, s, x),
           NEW v, v = Sends(c, x)
    PROVE  Goes(c, v, s)
<1>1. /\ v \in SessionOf /\ v.sent = Append(c.sent, x) /\ v.awaits = x
      /\ v.status = c.status /\ v.bound = c.bound /\ v.sequence = c.sequence
      /\ v.sindex = c.sindex /\ v.toIndex = c.toIndex
  BY SendsOf
<1>2. PICK t : t = c.sent
  OBVIOUS
<1>3. PICK w : w = v.sent
  OBVIOUS
<1>4. Begins(w, s) /\ Len(w) = Len(t) + 1
  <2>1. Begins(t, s) /\ Len(t) < Len(s) /\ x = s[Len(t) + 1] /\ w = Append(t, x)
    BY <1>1, <1>2, <1>3 DEF Due
  <2> QED BY <2>1, BeginsLonger
<1> QED BY <1>1, <1>2, <1>3, <1>4 DEF Goes

Advances(c, u, s) ==
    /\ u \in SessionOf /\ u.awaits \in Commands /\ u.status = c.status
    /\ u.bound = c.bound /\ u.sequence = c.sequence /\ u.sindex = c.sindex + 1
    /\ u.toIndex = c.toIndex /\ Begins(u.sent, s) /\ Len(u.sent) = Len(c.sent) + 1
LEMMA AdvancesOn ==
    ASSUME NEW c \in SessionOf, NEW s, NEW v, Goes(c, v, s), NEW u, u = Next1(v)
    PROVE  Advances(c, u, s)
<1>1. v \in SessionOf
  BY DEF Goes
<1>2. /\ u \in SessionOf /\ u.sent = v.sent /\ u.awaits = v.awaits
      /\ u.status = v.status /\ u.bound = v.bound /\ u.sequence = v.sequence
      /\ u.sindex = v.sindex + 1 /\ u.toIndex = v.toIndex
  BY <1>1, Next1Of
<1> QED BY <1>2 DEF Goes, Advances

LEMMA MessageGood ==
    ASSUME NEW c \in SessionOf, NEW tls \in BOOLEAN, NEW starttls \in BOOLEAN,
           NEW n \in Nat, n > 0, Exchanging(c, tls, starttls, n), NEW offers,
           NEW u, u = Call(c, n, offers)
    PROVE  /\ u \in SessionOf /\ Exchanging(u, tls, starttls, n)
           /\ u.status = c.status /\ u.bound = c.bound
<1>1. PICK a \in Auths, o \in {0, 4} :
         /\ c.sequence = Sequence(o) /\ Begins(c.sent, Exchange(a, n))
         /\ IF o = 4 THEN tls ELSE ~tls /\ ~starttls
         /\ At(c, Len(a), o, Len(c.sent), n)
  BY DEF Exchanging
<1>2. PICK s : s = Exchange(a, n)
  OBVIOUS
<1>3. PICK l : l = Len(a)
  OBVIOUS
<1>4. /\ s \in Seq(Commands) /\ l \in {0, 1, 3} /\ Len(s) = l + n + 5
      /\ \A i \in 1 .. l : s[1 + i] = a[i]
      /\ s[l + 2] = "mail" /\ \A i \in 1 .. n : s[l + 2 + i] = "rcpt"
      /\ s[l + n + 3] = "data" /\ s[l + n + 4] = "contents" /\ s[l + n + 5] = "quit"
  <2>1. Exchanged(a, n)
    BY ExchangeOf
  <2> QED BY <1>2, <1>3, <2>1 DEF Exchanged
<1>5. PICK m : m = Len(c.sent)
  OBVIOUS
<1>6. PICK i : i = c.toIndex
  OBVIOUS
<1>7. PICK j : j = c.sindex
  OBVIOUS
<1>8. m \in Nat /\ i \in Nat /\ j \in Nat
  BY <1>5, <1>6, <1>7 DEF SessionOf
<1>9. \/ m \in 2 .. l + 1 /\ i = 0 /\ j = IF m = l + 1 THEN o + 6 ELSE o + m + 2
      \/ i < n /\ j = o + 7 /\ m = l + 2 + i
      \/ i = n /\ j \in o + 8 .. o + 11 /\ m = l + n + j - o - 6
  BY <1>1, <1>3, <1>5, <1>6, <1>7 DEF At
<1>10. Begins(c.sent, s)
  BY <1>1, <1>2
<1>11. PICK q : q = c.sequence
  OBVIOUS
<1>12. /\ q[o + 4] = "USERNAME" /\ q[o + 5] = "PASSWORD" /\ q[o + 6] = "FROM"
       /\ q[o + 7] = "TO" /\ q[o + 8] = "DATA" /\ q[o + 9] = "CONTENTS"
       /\ q[o + 10] = "QUIT" /\ q[o + 11] = "FINAL"
  <2>1. Follows(o)
    BY States
  <2> QED BY <1>1, <1>11, <2>1 DEF Follows
<1>13. State(c) = q[j]
  BY <1>7, <1>11 DEF State
\* a command and the next state
<1>14. ASSUME NEW x \in Commands, m < Len(s), x = s[m + 1], u = Next1(Sends(c, x)),
              NEW p, p = j + 1, NEW k, k = m + 1,
              \/ k \in 2 .. l + 1 /\ i = 0 /\ p = IF k = l + 1 THEN o + 6 ELSE o + k + 2
              \/ i < n /\ p = o + 7 /\ k = l + 2 + i
              \/ i = n /\ p \in o + 8 .. o + 11 /\ k = l + n + p - o - 6
       PROVE  /\ u \in SessionOf /\ Exchanging(u, tls, starttls, n)
              /\ u.status = c.status /\ u.bound = c.bound
  <2>1. PICK v : v = Sends(c, x)
    OBVIOUS
  <2>2. Due(c, s, x)
    BY <1>5, <1>10, <1>14 DEF Due
  <2>3. Goes(c, v, s)
    BY <1>4, <2>1, <2>2, GoesOn
  <2>4. u = Next1(v)
    BY <1>14, <2>1
  <2>5. Advances(c, u, s)
    BY <2>3, <2>4, AdvancesOn
  <2>6. u.sindex = p /\ u.toIndex = i /\ Len(u.sent) = k
    BY <1>5, <1>6, <1>7, <1>14, <2>5 DEF Advances
  <2>7. At(u, l, o, k, n)
    BY <1>14, <2>6 DEF At
  <2>8. /\ u.sequence = Sequence(o) /\ Begins(u.sent, Exchange(a, n))
        /\ At(u, Len(a), o, Len(u.sent), n) /\ u.awaits \in Commands
    BY <1>1, <1>2, <1>3, <2>5, <2>6, <2>7 DEF Advances
  <2>9. Exchanging(u, tls, starttls, n)
    BY <1>1, <2>8 DEF Exchanging
  <2> QED BY <2>5, <2>9 DEF Advances
<1>15. CASE m \in 2 .. l + 1 /\ i = 0 /\ j = IF m = l + 1 THEN o + 6 ELSE o + m + 2
  <2>1. CASE m = l + 1
    <3>1. State(c) = "FROM"
      BY <1>12, <1>13, <1>15, <2>1
    <3>2. u = Next1(Sends(c, "mail"))
      BY <3>1 DEF Call
    <3>3. "mail" \in Commands /\ m < Len(s) /\ s[m + 1] = "mail"
      <4>1. m + 1 = l + 2
        BY <1>4, <2>1
      <4> QED BY <1>4, <2>1, <4>1 DEF Commands
    <3>4. i < n /\ j + 1 = o + 7 /\ m + 1 = l + 2 + i
      BY <1>4, <1>15, <2>1
    <3> QED BY <1>14, <3>2, <3>3, <3>4
  <2>2. CASE m # l + 1
    <3>1. l = 3 /\ (m = 2 \/ m = 3) /\ j = o + m + 2
      BY <1>4, <1>8, <1>15, <2>2
    <3>2. Len(a) = 3
      BY <1>3, <3>1
    <3>3. a[2] = "username" /\ a[3] = "password"
      BY <3>2, LongAuth
    <3>4. CASE m = 2
      <4>1. State(c) = "USERNAME"
        BY <1>12, <1>13, <3>1, <3>4
      <4>2. u = Next1(Sends(c, "username"))
        BY <4>1 DEF Call
      <4>3. s[m + 1] = "username"
        <5>1. 2 \in 1 .. l /\ 1 + 2 = m + 1
          BY <3>1, <3>4
        <5>2. s[1 + 2] = a[2]
          BY <1>4, <5>1
        <5> QED BY <3>3, <5>1, <5>2
      <4>4. "username" \in Commands /\ m < Len(s)
        BY <1>4, <3>1, <3>4 DEF Commands
      <4>5. /\ m + 1 \in 2 .. l + 1 /\ i = 0
            /\ j + 1 = IF m + 1 = l + 1 THEN o + 6 ELSE o + (m + 1) + 2
        BY <1>15, <3>1, <3>4
      <4> QED BY <1>14, <4>2, <4>3, <4>4, <4>5
    <3>5. CASE m = 3
      <4>1. State(c) = "PASSWORD"
        BY <1>12, <1>13, <3>1, <3>5
      <4>2. u = Next1(Sends(c, "password"))
        BY <4>1 DEF Call
      <4>3. s[m + 1] = "password"
        <5>1. 3 \in 1 .. l /\ 1 + 3 = m + 1
          BY <3>1, <3>5
        <5>2. s[1 + 3] = a[3]
          BY <1>4, <5>1
        <5> QED BY <3>3, <5>1, <5>2
      <4>4. "password" \in Commands /\ m < Len(s)
        BY <1>4, <3>1, <3>5 DEF Commands
      <4>5. /\ m + 1 \in 2 .. l + 1 /\ i = 0
            /\ j + 1 = IF m + 1 = l + 1 THEN o + 6 ELSE o + (m + 1) + 2
        BY <1>15, <3>1, <3>5
      <4> QED BY <1>14, <4>2, <4>3, <4>4, <4>5
    <3> QED BY <3>1, <3>4, <3>5
  <2> QED BY <2>1, <2>2
<1>16. CASE i < n /\ j = o + 7 /\ m = l + 2 + i
  <2>1. State(c) = "TO"
    BY <1>12, <1>13, <1>16
  <2>2. u = RcptT(c, n)
    BY <2>1 DEF Call
  <2>3. PICK v : v = Sends(c, "rcpt")
    OBVIOUS
  <2>4. "rcpt" \in Commands
    BY DEF Commands
  <2>5. Goes(c, v, s)
    <3>1. s[m + 1] = "rcpt"
      <4>1. PICK k : k = i + 1
        OBVIOUS
      <4>2. k \in 1 .. n /\ l + 2 + k = m + 1
        BY <1>4, <1>8, <1>16, <4>1
      <4>3. s[l + 2 + k] = "rcpt"
        BY <1>4, <4>2
      <4> QED BY <4>2, <4>3
    <3>2. m < Len(s)
      BY <1>4, <1>8, <1>16
    <3>3. Due(c, s, "rcpt")
      BY <1>5, <1>10, <3>1, <3>2 DEF Due
    <3> QED BY <1>4, <2>3, <2>4, <3>3, GoesOn
  <2>6. PICK k : k = i + 1
    OBVIOUS
  <2>7. PICK t : t = [v EXCEPT !.toIndex = k]
    OBVIOUS
  <2>8. v \in SessionOf /\ v.toIndex = i /\ k \in Nat
    BY <1>6, <1>8, <2>5, <2>6 DEF Goes
  <2>9. u = IF i = n - 1 THEN Next1(t) ELSE t
    BY <1>6, <2>2, <2>3, <2>6, <2>7, <2>8 DEF RcptT
  <2>10. /\ t \in SessionOf /\ t.toIndex = k /\ t.sent = v.sent /\ t.awaits = v.awaits
         /\ t.status = v.status /\ t.bound = v.bound /\ t.sequence = v.sequence
         /\ t.sindex = v.sindex
    BY <2>7, <2>8 DEF SessionOf
  <2>11. /\ v.status = c.status /\ v.bound = c.bound /\ v.sequence = Sequence(o)
         /\ v.sindex = j /\ v.awaits \in Commands /\ Begins(v.sent, Exchange(a, n))
         /\ Len(v.sent) = m + 1
    BY <1>1, <1>2, <1>5, <1>7, <2>5 DEF Goes
  <2>12. CASE i = n - 1
    <3>1. u = Next1(t)
      BY <2>9, <2>12
    <3>2. /\ u \in SessionOf /\ u.sent = t.sent /\ u.awaits = t.awaits
          /\ u.status = t.status /\ u.bound = t.bound /\ u.sequence = t.sequence
          /\ u.sindex = t.sindex + 1 /\ u.toIndex = t.toIndex
      BY <2>10, <3>1, Next1Of
    <3>3. PICK p : p = j + 1
      OBVIOUS
    <3>4. k = n /\ p \in o + 8 .. o + 11 /\ m + 1 = l + n + p - o - 6
      BY <1>4, <1>8, <1>16, <2>6, <2>12, <3>3
    <3>5. u.toIndex = k /\ u.sindex = p /\ Len(u.sent) = m + 1
      BY <2>10, <2>11, <3>2, <3>3
    <3>6. At(u, Len(a), o, Len(u.sent), n)
      BY <1>3, <3>4, <3>5 DEF At
    <3>7. Exchanging(u, tls, starttls, n)
      BY <1>1, <2>10, <2>11, <3>2, <3>6 DEF Exchanging
    <3> QED BY <2>10, <2>11, <3>2, <3>7
  <2>13. CASE i # n - 1
    <3>1. u = t
      BY <2>9, <2>13
    <3>2. k < n /\ j = o + 7 /\ m + 1 = l + 2 + k
      BY <1>4, <1>8, <1>16, <2>6, <2>13
    <3>3. u.toIndex = k /\ u.sindex = j /\ Len(u.sent) = m + 1
      BY <2>10, <2>11, <3>1
    <3>4. At(u, Len(a), o, Len(u.sent), n)
      BY <1>3, <3>2, <3>3 DEF At
    <3>5. Exchanging(u, tls, starttls, n)
      BY <1>1, <2>10, <2>11, <3>1, <3>4 DEF Exchanging
    <3> QED BY <2>10, <2>11, <3>1, <3>5
  <2> QED BY <2>12, <2>13
<1>17. CASE i = n /\ j \in o + 8 .. o + 11 /\ m = l + n + j - o - 6
  <2>1. j = o + 8 \/ j = o + 9 \/ j = o + 10 \/ j = o + 11
    BY <1>8, <1>17
  <2>2. ASSUME NEW x \in Commands, u = Next1(Sends(c, x)), j # o + 11, x = s[m + 1]
        PROVE  /\ u \in SessionOf /\ Exchanging(u, tls, starttls, n)
               /\ u.status = c.status /\ u.bound = c.bound
    <3>1. m < Len(s)
      BY <1>4, <1>8, <1>17, <2>1, <2>2
    <3>2. i = n /\ j + 1 \in o + 8 .. o + 11 /\ m + 1 = l + n + (j + 1) - o - 6
      BY <1>4, <1>8, <1>17, <2>1, <2>2
    <3> QED BY <1>14, <2>2, <3>1, <3>2
  <2>3. CASE j = o + 8
    <3>1. State(c) = "DATA"
      BY <1>12, <1>13, <2>3
    <3>2. u = Next1(Sends(c, "data"))
      BY <3>1 DEF Call
    <3>3. m + 1 = l + n + 3 /\ j # o + 11 /\ "data" \in Commands
      BY <1>4, <1>17, <2>3 DEF Commands
    <3>4. s[m + 1] = "data"
      BY <1>4, <3>3
    <3> QED BY <2>2, <3>2, <3>3, <3>4
  <2>4. CASE j = o + 9
    <3>1. State(c) = "CONTENTS"
      BY <1>12, <1>13, <2>4
    <3>2. u = Next1(Sends(c, "contents"))
      BY <3>1 DEF Call
    <3>3. m + 1 = l + n + 4 /\ j # o + 11 /\ "contents" \in Commands
      BY <1>4, <1>17, <2>4 DEF Commands
    <3>4. s[m + 1] = "contents"
      BY <1>4, <3>3
    <3> QED BY <2>2, <3>2, <3>3, <3>4
  <2>5. CASE j = o + 10
    <3>1. State(c) = "QUIT"
      BY <1>12, <1>13, <2>5
    <3>2. u = Next1(Sends(c, "quit"))
      BY <3>1 DEF Call
    <3>3. m + 1 = l + n + 5 /\ j # o + 11 /\ "quit" \in Commands
      BY <1>4, <1>17, <2>5 DEF Commands
    <3>4. s[m + 1] = "quit"
      BY <1>4, <3>3
    <3> QED BY <2>2, <3>2, <3>3, <3>4
  <2>6. CASE j = o + 11
    <3>1. State(c) = "FINAL"
      BY <1>12, <1>13, <2>6
    <3>2. u = c
      BY <3>1 DEF Call
    <3> QED BY <3>2
  <2> QED BY <2>1, <2>3, <2>4, <2>5, <2>6
<1> QED BY <1>9, <1>15, <1>16, <1>17

\* The answer of the remote, of the code that is expected, to what a session awaits.
LEMMA ReplyGood ==
    ASSUME NEW c \in SessionOf, NEW tls \in BOOLEAN, NEW starttls \in BOOLEAN,
           NEW still \in BOOLEAN, NEW n \in Nat, n > 0, Shape(c, tls, starttls, n),
           c.awaits \notin {"none", "upgrade", "quit"},
           job.method \in {"none", "plain", "login"},
           NEW u, u = Call(c, n, IF tls THEN still ELSE starttls)
    PROVE  /\ u \in SessionOf /\ Shape(u, tls, starttls, n)
           /\ u.status = c.status /\ u.bound = c.bound
<1>o. PICK offers : offers = IF tls THEN still ELSE starttls
  OBVIOUS
<1>u. u = Call(c, n, offers)
  BY <1>o
<1>1. CASE Unsent(c, tls)
  <2>1. u \in SessionOf /\ Greeted(u, tls) /\ u.status = c.status /\ u.bound = c.bound
    <3>1. PICK b \in BOOLEAN : b = offers
      BY <1>o
    <3>2. u = Call(c, n, b)
      BY <1>u, <3>1
    <3> QED BY <1>1, <3>2, EhloGood
  <2> QED BY <2>1 DEF Shape
<1>2. CASE Greeted(c, tls)
  <2>1. /\ u \in SessionOf /\ u.status = c.status /\ u.bound = c.bound
        /\ Upgrading(u, tls) \/ Exchanging(u, tls, starttls, n)
    BY <1>2, CapaGood
  <2> QED BY <2>1 DEF Shape
<1>3. CASE Upgrading(c, tls)
  <2>1. c.awaits # "upgrade"
    OBVIOUS
  <2>2. u \in SessionOf /\ Upgrading(u, tls) /\ u.status = c.status /\ u.bound = c.bound
    BY <1>3, <1>u, <2>1, UpgradeGood
  <2> QED BY <2>2 DEF Shape
<1>4. CASE Exchanging(c, tls, starttls, n)
  <2>1. /\ u \in SessionOf /\ Exchanging(u, tls, starttls, n)
        /\ u.status = c.status /\ u.bound = c.bound
    BY <1>4, <1>u, MessageGood
  <2> QED BY <2>1 DEF Shape
<1> QED BY <1>1, <1>2, <1>3, <1>4 DEF Shape

\* What a session has sent begins a message, or the commands before an upgrade.
Orderly(t, n) ==
    \/ \E a \in Auths : Len(t) <= Len(Exchange(a, n)) /\ SubSeq(Exchange(a, n), 1, Len(t)) = t
    \/ /\ Len(t) <= Len(<<"ehlo", "starttls">>)
       /\ SubSeq(<<"ehlo", "starttls">>, 1, Len(t)) = t

LEMMA EarlyOrderly ==
    ASSUME NEW t, t \in {<<>>, <<"ehlo">>, <<"ehlo", "starttls">>}, NEW n
    PROVE  Orderly(t, n) /\ ToSet(t) \subseteq {"ehlo", "starttls"}
<1>1. PICK s : s = <<"ehlo", "starttls">>
  OBVIOUS
<1>2. /\ s \in Seq(Commands) /\ Len(s) = 2 /\ s[1] = "ehlo" /\ s[2] = "starttls"
  BY <1>1 DEF Commands
<1>3. /\ t \in Seq(Commands) /\ Len(t) \in {0, 1, 2} /\ (Len(t) > 0 => t[1] = "ehlo")
      /\ (Len(t) > 1 => t[2] = "starttls")
  <2>1. CASE t = <<>>
    BY <2>1
  <2>2. CASE t = <<"ehlo">>
    BY <2>2 DEF Commands
  <2>3. CASE t = <<"ehlo", "starttls">>
    <3>1. t \in Seq(Commands)
      BY <2>3 DEF Commands
    <3>2. Len(t) = 2 /\ t[1] = "ehlo" /\ t[2] = "starttls"
      BY <2>3
    <3> QED BY <3>1, <3>2
  <2> QED BY <2>1, <2>2, <2>3
<1>k. PICK k \in {0, 1, 2} : k = Len(t)
  BY <1>3
<1>i. \A i \in 1 .. k : i = 1 \/ (i = 2 /\ k > 1)
  OBVIOUS
<1>4. Begins(t, s)
  <2>1. \A i \in 1 .. Len(t) : i = 1 \/ (i = 2 /\ Len(t) > 1)
    BY <1>k, <1>i
  <2>2. \A i \in 1 .. Len(t) : t[i] = s[i]
    BY <1>2, <1>3, <2>1
  <2> QED BY <1>2, <1>3, <2>2 DEF Begins
<1>5. Len(t) <= Len(s) /\ SubSeq(s, 1, Len(t)) = t
  BY <1>2, <1>4, BeginsIs
<1>6. \A i \in DOMAIN t : t[i] \in {"ehlo", "starttls"}
  <2>1. DOMAIN t = 1 .. Len(t)
    BY <1>3, LenProperties
  <2>2. \A i \in 1 .. Len(t) : i = 1 \/ i = 2
    BY <1>k, <1>i
  <2> QED BY <1>2, <1>4, <2>1, <2>2 DEF Begins
<1> QED BY <1>1, <1>5, <1>6 DEF Orderly, ToSet

LEMMA ShapeOrderly ==
    ASSUME NEW c \in SessionOf, NEW tls \in BOOLEAN, NEW starttls \in BOOLEAN,
           NEW n \in Nat, n > 0, Shape(c, tls, starttls, n)
    PROVE  /\ Orderly(c.sent, n)
           /\ starttls /\ ~tls => ToSet(c.sent) \subseteq {"ehlo", "starttls"}
<1>1. CASE c.sent \in {<<>>, <<"ehlo">>, <<"ehlo", "starttls">>}
  BY <1>1, EarlyOrderly
<1>2. CASE Exchanging(c, tls, starttls, n)
  <2>1. PICK a \in Auths, o \in {0, 4} :
           /\ Begins(c.sent, Exchange(a, n))
           /\ IF o = 4 THEN tls ELSE ~tls /\ ~starttls
    BY <1>2 DEF Exchanging
  <2>2. Exchange(a, n) \in Seq(Commands)
    BY ExchangeOf DEF Exchanged
  <2>3. Len(c.sent) <= Len(Exchange(a, n)) /\ SubSeq(Exchange(a, n), 1, Len(c.sent)) = c.sent
    BY <2>1, <2>2, BeginsIs
  <2>4. ~(starttls /\ ~tls)
    BY <2>1
  <2> QED BY <2>3, <2>4 DEF Orderly
<1> QED BY <1>1, <1>2 DEF Shape, Unsent, Greeted, Upgrading

\* A sequence of different values, without its first.
Different(q) == \A i, j \in 1 .. Len(q) : q[i] = q[j] => i = j
EmptiedBy(q, r) == Len(q) = 1 => r = <<>>
LEMMA Behead ==
    ASSUME NEW S, NEW q \in Seq(S), q # <<>>, Different(q), NEW x, x = Head(q),
           NEW r, r = Tail(q)
    PROVE  /\ x \in ToSet(q) /\ r \in Seq(S) /\ Different(r)
           /\ \A y : y \in ToSet(r) <=> y \in ToSet(q) /\ y # x
           /\ EmptiedBy(q, r)
<1>1. PICK m \in Nat : m = Len(q) /\ m > 0
  BY LenProperties, EmptySeq
<1>2. x = q[1] /\ r \in Seq(S) /\ Len(r) = m - 1 /\ \A i \in 1 .. m - 1 : r[i] = q[i + 1]
  BY <1>1, HeadTailProperties
<1>3. DOMAIN q = 1 .. m /\ DOMAIN r = 1 .. m - 1
  BY <1>1, <1>2, LenProperties
<1>4. \A i, j \in 1 .. m : q[i] = q[j] => i = j
  BY <1>1 DEF Different
<1>5. Different(r)
  <2>1. SUFFICES ASSUME NEW i \in 1 .. m - 1, NEW j \in 1 .. m - 1, r[i] = r[j] PROVE i = j
    BY <1>1, <1>2 DEF Different
  <2>2. i + 1 \in 1 .. m /\ j + 1 \in 1 .. m
    BY <1>1
  <2>3. i + 1 = j + 1
    BY <1>2, <1>4, <2>1, <2>2
  <2> QED BY <2>3
<1>6. ASSUME NEW y PROVE y \in ToSet(r) <=> y \in ToSet(q) /\ y # x
  <2>1. ASSUME y \in ToSet(r) PROVE y \in ToSet(q) /\ y # x
    <3>1. PICK i \in 1 .. m - 1 : y = r[i]
      BY <1>3, <2>1 DEF ToSet
    <3>2. i + 1 \in 1 .. m /\ 1 \in 1 .. m /\ i + 1 # 1
      BY <1>1
    <3>3. y = q[i + 1]
      BY <1>2, <3>1
    <3>4. y # x
      BY <1>2, <1>4, <3>2, <3>3
    <3> QED BY <1>3, <3>2, <3>3, <3>4 DEF ToSet
  <2>2. ASSUME y \in ToSet(q), y # x PROVE y \in ToSet(r)
    <3>1. PICK i \in 1 .. m : y = q[i]
      BY <1>3, <2>2 DEF ToSet
    <3>2. i # 1
      BY <1>2, <2>2, <3>1
    <3>3. i - 1 \in 1 .. m - 1 /\ (i - 1) + 1 = i
      BY <1>1, <3>2
    <3>4. y = r[i - 1]
      BY <1>2, <3>1, <3>3
    <3> QED BY <1>3, <3>3, <3>4 DEF ToSet
  <2> QED BY <2>1, <2>2
<1>7. x \in ToSet(q)
  BY <1>1, <1>2, <1>3 DEF ToSet
<1>8. Len(q) = 1 => r = <<>>
  BY <1>1, <1>2, EmptySeq
<1> QED BY <1>2, <1>5, <1>6, <1>7, <1>8 DEF EmptiedBy

DeliveryTypes ==
    /\ job \in Jobs \cup {NoJob} /\ resolved \in [Domains -> Hosts \cup {None, "pending"}]
    /\ connects \in Seq(Keys) /\ later \in Seq(Keys) /\ captured \subseteq Keys
    /\ sess \in [Keys -> SessionOf] /\ heard \in [Keys -> HeardOf]

\* Before the sessions of a message, and with those of its keys.
Idle ==
    /\ job.mode # "direct" /\ connects = <<>> /\ later = <<>>
    /\ callbacks = 0 /\ captured = {} /\ tosMap = {}
    /\ \A k \in Keys : sess[k] = NoSession /\ ~heard[k].tls
KeysAre(W) ==
    IF job.mode = "direct" THEN tosMap = {} /\ \E h \in Hosts : W = {h}
    ELSE /\ job.mode = "mx" /\ \A d \in Domains : resolved[d] # "pending"
         /\ W = {KeyOf(d) : d \in {e \in Domains : resolved[e] # None}}
         /\ tosMap = W \ captured
         /\ \A d \in Domains : resolved[d] = None => d \in errors
KeysApart(W) ==
    /\ \A k \in ToSet(connects) : k \in W /\ k \notin ToSet(later)
    /\ \A k \in ToSet(later) : k \in W
    /\ Different(connects) /\ Different(later)
    /\ \A k \in Keys : sess[k].status # "none" =>
          k \in W /\ k \notin ToSet(connects) /\ k \notin ToSet(later)
    /\ \A k \in captured : sess[k].status = "closed"
Turns ==
    /\ later # <<>> => job.sequential
    /\ job.sequential =>
          /\ \A j, k \in Keys : Live(j) /\ Live(k) => j = k
          /\ connects # <<>> =>
                Len(connects) = 1 /\ \A k \in Keys : sess[k].status = "none"
Session(k) ==
    IF sess[k].status \in {"none", "pending"} THEN Unsent(sess[k], heard[k].tls)
    ELSE Shape(sess[k], heard[k].tls, heard[k].starttls, Recipients(k))
Running(W) ==
    /\ W \subseteq Keys /\ KeysAre(W) /\ KeysApart(W) /\ Turns
    /\ callbacks = IF W \subseteq captured THEN 1 ELSE 0
    /\ \A k \in Keys : Session(k)
DeliveryInv == DeliveryTypes /\ (Idle \/ \E W : Running(W))

LEMMA JobOf ==
    ASSUME DeliveryTypes
    PROVE  /\ job.mode \in {"none", "direct", "mx"} /\ job.dedup \in BOOLEAN
           /\ job.sequential \in BOOLEAN /\ job.stls \in BOOLEAN
           /\ job.method \in {"none", "plain", "login"}
           /\ (job.mode = "none" => ~job.sequential)
<1>1. CASE job = NoJob
  BY <1>1 DEF NoJob
<1>2. CASE job \in Jobs
  BY <1>2, SmtpClientAssumption
<1> QED BY <1>1, <1>2 DEF DeliveryTypes

LEMMA NoSessionOf ==
    NoSession \in SessionOf /\ Unsent(NoSession, FALSE) /\ NoSession.status = "none"
<1>1. PICK e : e = <<>>
  OBVIOUS
<1>2. e \in Seq(Commands)
  BY <1>1
<1>3. PICK c : c = NoSession
  OBVIOUS
<1>4. c = [status |-> "none", bound |-> FALSE, sequence |-> Plain,
           sindex |-> 1, toIndex |-> 0, awaits |-> "none", sent |-> e]
  BY <1>1, <1>3 DEF NoSession
<1>5. c \in SessionOf
  BY <1>2, <1>4 DEF SessionOf
<1>6. c.sent = <<>> /\ c.sindex = 1 /\ c.toIndex = 0 /\ c.awaits = "none" /\ c.status = "none"
  BY <1>1, <1>4
<1> QED BY <1>3, <1>5, <1>6 DEF Unsent

LEMMA ConnectedOf ==
    ASSUME DeliveryTypes, NEW k, NEW b \in BOOLEAN, NEW u, u = Connected(k, b)
    PROVE  u \in SessionOf /\ Unsent(u, FALSE) /\ u.status = "pending" /\ u.bound = b
<1>1. PICK c : c = NoSession
  OBVIOUS
<1>2. c \in SessionOf /\ Unsent(c, FALSE)
  BY <1>1, NoSessionOf
<1>3. PICK s : s = IF job.stls THEN WithStls ELSE Plain
  OBVIOUS
<1>4. s \in {Plain, WithStls}
  BY <1>3
<1>5. u = [c EXCEPT !.status = "pending", !.bound = b, !.sequence = s]
  BY <1>1, <1>3 DEF Connected
<1> QED BY <1>2, <1>4, <1>5 DEF SessionOf, Unsent

\* The status of a session, and what hears of its end, are not in its shape.
LEMMA SameShape ==
    ASSUME NEW c \in SessionOf, NEW u \in SessionOf, u.sent = c.sent, u.awaits = c.awaits,
           u.sequence = c.sequence, u.sindex = c.sindex, u.toIndex = c.toIndex,
           NEW tls, NEW starttls, NEW n
    PROVE  /\ Unsent(c, tls) => Unsent(u, tls)
           /\ Shape(c, tls, starttls, n) => Shape(u, tls, starttls, n)
<1>1. Unsent(c, tls) => Unsent(u, tls)
  BY DEF Unsent
<1>2. Greeted(c, tls) => Greeted(u, tls)
  BY DEF Greeted
<1>3. Upgrading(c, tls) => Upgrading(u, tls)
  BY DEF Upgrading
<1>4. Exchanging(c, tls, starttls, n) => Exchanging(u, tls, starttls, n)
  BY DEF Exchanging, At
<1> QED BY <1>1, <1>2, <1>3, <1>4 DEF Shape

LEMMA RecipientsOf ==
    ASSUME DeliveryTypes, NEW W, Running(W), NEW k \in W
    PROVE  Recipients(k) \in Nat /\ Recipients(k) > 0
<1>1. CASE job.mode = "direct"
  BY <1>1 DEF Recipients
<1>2. CASE job.mode # "direct"
  <2>1. PICK d \in Domains : resolved[d] # None /\ resolved[d] # "pending" /\ KeyOf(d) = k
    BY <1>2 DEF Running, KeysAre
  <2>2. PICK T : T = UNION {Tos[e] : e \in Group(k)}
    OBVIOUS
  <2>3. d \in Group(k) /\ Group(k) \subseteq Domains
    BY <2>1 DEF Group
  <2>4. T \subseteq UNION {Tos[e] : e \in Domains}
    BY <2>2, <2>3
  <2>5. IsFiniteSet(T)
    BY <2>4, SmtpClientAssumption, FS_Subset
  <2>6. Tos[d] # {}
    BY SmtpClientAssumption
  <2>7. T # {}
    BY <2>2, <2>3, <2>6
  <2>8. Cardinality(T) \in Nat /\ Cardinality(T) # 0
    BY <2>5, <2>7, FS_CardinalityType, FS_EmptySet
  <2>9. Recipients(k) = Cardinality(T)
    BY <1>2, <2>2 DEF Recipients
  <2> QED BY <2>8, <2>9
<1> QED BY <1>1, <1>2

LEMMA DeliveryInvInit ==
    ASSUME SmtpInit
    PROVE  DeliveryInv
<1>1. job = NoJob /\ resolved \in [Domains -> Hosts \cup {None, "pending"}]
  BY DEF SmtpInit
<1>2. connects \in Seq(Keys) /\ later \in Seq(Keys) /\ captured \subseteq Keys
  BY DEF SmtpInit
<1>3. sess \in [Keys -> SessionOf]
  BY NoSessionOf DEF SmtpInit
<1>4. heard \in [Keys -> HeardOf] /\ \A k \in Keys : ~heard[k].tls
  BY DEF SmtpInit, Deaf, HeardOf
<1>5. DeliveryTypes
  BY <1>1, <1>2, <1>3, <1>4 DEF DeliveryTypes
<1>6. Idle
  BY <1>1, <1>4 DEF Idle, SmtpInit, NoJob
<1> QED BY <1>5, <1>6 DEF DeliveryInv

LEMMA MessageStep ==
    ASSUME DeliveryInv, NEW arguments \in Jobs, Message(arguments)
    PROVE  DeliveryInv'
<1>1. Idle /\ DeliveryTypes
  BY DEF DeliveryInv, Running, KeysAre, Message
<1>2. /\ job' = arguments /\ resolved' = resolved /\ later' = later /\ captured' = captured
      /\ sess' = sess /\ heard' = heard /\ tosMap' = tosMap /\ callbacks' = callbacks
  BY DEF Message
<1>3. CASE arguments.mode = "direct"
  <2>1. PICK h \in Hosts : connects' = <<h>>
    BY <1>3 DEF Message
  <2>q. PICK q : q = <<h>>
    OBVIOUS
  <2>2. h \in Keys
    BY DEF Keys
  <2>3. q \in Seq(Keys) /\ Len(q) = 1 /\ ToSet(q) = {h} /\ Different(q) /\ q[1] = h
    BY <2>q, <2>2 DEF ToSet, Different
  <2>e. PICK e : e = <<>>
    OBVIOUS
  <2>4. ToSet(e) = {} /\ Different(e)
    BY <2>e DEF ToSet, Different
  <2>5. connects' = q /\ later' = e
    BY <1>1, <1>2, <2>1, <2>q, <2>e DEF Idle
  <2>6. DeliveryTypes'
    BY <1>1, <1>2, <2>3, <2>5 DEF DeliveryTypes
  <2>7. \A k \in Keys : sess[k].status = "none" /\ Unsent(sess[k], heard[k].tls)
    <3>1. SUFFICES ASSUME NEW k \in Keys
                   PROVE sess[k].status = "none" /\ Unsent(sess[k], heard[k].tls)
      OBVIOUS
    <3>2. sess[k] = NoSession /\ heard[k].tls \in BOOLEAN /\ ~heard[k].tls
      BY <1>1 DEF Idle, DeliveryTypes, HeardOf
    <3> QED BY <3>2, NoSessionOf DEF Unsent
  <2>8. KeysAre({h})'
    <3>1. tosMap' = {}
      BY <1>1, <1>2 DEF Idle
    <3> QED BY <1>2, <1>3, <3>1 DEF KeysAre
  <2>9. KeysApart({h})'
    BY <1>1, <1>2, <2>3, <2>4, <2>5, <2>7 DEF KeysApart, Idle
  <2>10. Turns'
    BY <1>2, <2>3, <2>5, <2>e, <2>7 DEF Turns, Live
  <2>11. (\A k \in Keys : Session(k))'
    BY <1>2, <2>7 DEF Session
  <2>12. callbacks' = 0 /\ captured' = {}
    BY <1>1, <1>2 DEF Idle
  <2>13. Running({h})'
    BY <2>2, <2>8, <2>9, <2>10, <2>11, <2>12 DEF Running
  <2> QED BY <2>6, <2>13 DEF DeliveryInv
<1>4. CASE arguments.mode # "direct"
  <2>1. connects' = connects
    BY <1>4 DEF Message
  <2>2. DeliveryTypes'
    BY <1>1, <1>2, <2>1 DEF DeliveryTypes
  <2>3. Idle'
    BY <1>1, <1>2, <1>4, <2>1 DEF Idle
  <2> QED BY <2>2, <2>3 DEF DeliveryInv
<1> QED BY <1>3, <1>4

LEMMA OrderOf ==
    ASSUME NEW S \in SUBSET Keys, NEW q \in Orders(S)
    PROVE  q \in Seq(Keys) /\ Different(q) /\ \A k \in ToSet(q) : k \in S
<1>1. PICK m : m = Cardinality(S)
  OBVIOUS
<1>2. IsFiniteSet(S)
  <2>1. IsFiniteSet(Keys) /\ S \subseteq Keys
    BY SmtpClientAssumption DEF Keys
  <2> QED BY <2>1, FS_Subset
<1>3. m \in Nat
  BY <1>1, <1>2, FS_CardinalityType
<1>4. q \in [1 .. m -> S] /\ \A i, j \in 1 .. m : i # j => q[i] # q[j]
  BY <1>1 DEF Orders
<1>5. q \in Seq(Keys) /\ Len(q) = m
  <2>1. q \in [1 .. m -> Keys]
    BY <1>4
  <2>2. q \in Seq(Keys)
    BY <1>3, <2>1, SeqDef
  <2> QED BY <1>3, <2>1, <2>2, LenProperties
<1>6. Different(q)
  BY <1>4, <1>5 DEF Different
<1> QED BY <1>4, <1>5, <1>6 DEF ToSet

LEMMA NoOrder ==
    ASSUME NEW e, e = <<>>
    PROVE  e \in Seq(Keys) /\ ToSet(e) = {} /\ Different(e)
BY DEF ToSet, Different

LEMMA OneOrder ==
    ASSUME NEW k \in Keys, NEW q, q = <<k>>
    PROVE  q \in Seq(Keys) /\ ToSet(q) = {k} /\ Different(q) /\ Len(q) = 1 /\ q # <<>>
BY DEF ToSet, Different

LEMMA ResolvedStep ==
    ASSUME DeliveryInv, NEW d \in Domains, NEW answer \in Hosts \cup {None},
           Resolved(d, answer)
    PROVE  DeliveryInv'
<1>1. Idle /\ DeliveryTypes /\ job.mode = "mx"
  BY DEF DeliveryInv, Running, KeysAre, Resolved
<1>2. /\ job' = job /\ captured' = captured /\ sess' = sess /\ heard' = heard
      /\ resolved' = [resolved EXCEPT ![d] = answer]
  BY DEF Resolved
<1>3. resolved' \in [Domains -> Hosts \cup {None, "pending"}]
  BY <1>1, <1>2 DEF DeliveryTypes
<1>4. CASE \E e \in Domains \ {d} : resolved[e] = "pending"
  <2>1. /\ tosMap' = tosMap /\ connects' = connects /\ later' = later
        /\ callbacks' = callbacks
    BY <1>4 DEF Resolved
  <2>2. DeliveryTypes'
    BY <1>1, <1>2, <1>3, <2>1 DEF DeliveryTypes
  <2>3. Idle'
    BY <1>1, <1>2, <2>1 DEF Idle
  <2> QED BY <2>2, <2>3 DEF DeliveryInv
<1>5. CASE ~\E e \in Domains \ {d} : resolved[e] = "pending"
  <2>1. PICK r : r = resolved'
    OBVIOUS
  <2>2. r \in [Domains -> Hosts \cup {None, "pending"}] /\ \A e \in Domains : r[e] # "pending"
    BY <1>1, <1>2, <1>3, <1>5, <2>1, SmtpClientAssumption DEF DeliveryTypes
  <2>3. PICK failed : failed = {e \in Domains : r[e] = None}
    OBVIOUS
  <2>4. PICK W : W = {IF job.dedup THEN r[e] ELSE e : e \in Domains \ failed}
    OBVIOUS
  <2>5. InitiateMx(W, failed)
    BY <1>5, <2>1, <2>3, <2>4 DEF Resolved
  <2>6. /\ tosMap' = W /\ errors' = errors \cup failed
        /\ callbacks' = IF W = {} THEN callbacks + 1 ELSE callbacks
    BY <2>5 DEF InitiateMx
  <2>7. PICK q \in Orders(W) :
           IF job.sequential /\ q # <<>>
           THEN connects' = <<Head(q)>> /\ later' = Tail(q)
           ELSE connects' = q /\ later' = later
    BY <2>5 DEF InitiateMx
  <2>8. W \subseteq Keys
    BY <2>2, <2>3, <2>4 DEF Keys
  <2>9. q \in Seq(Keys) /\ Different(q) /\ \A k \in ToSet(q) : k \in W
    BY <2>8, OrderOf
  <2>a. PICK cs : cs = connects'
    OBVIOUS
  <2>b. PICK ls : ls = later'
    OBVIOUS
  <2>10. /\ cs \in Seq(Keys) /\ Different(cs) /\ ls \in Seq(Keys) /\ Different(ls)
         /\ \A k \in ToSet(cs) : k \in W /\ k \notin ToSet(ls)
         /\ \A k \in ToSet(ls) : k \in W
         /\ (ls # <<>> => job.sequential)
         /\ (job.sequential /\ cs # <<>> => Len(cs) = 1)
    <3>1. CASE job.sequential /\ q # <<>>
      <4>1. PICK x : x = Head(q)
        OBVIOUS
      <4>2. cs = <<x>> /\ ls = Tail(q)
        BY <2>7, <2>a, <2>b, <3>1, <4>1
      <4>3. /\ x \in ToSet(q) /\ ls \in Seq(Keys) /\ Different(ls)
            /\ \A y : y \in ToSet(ls) <=> y \in ToSet(q) /\ y # x
        BY <2>9, <3>1, <4>1, <4>2, Behead
      <4>4. x \in Keys
        BY <2>8, <2>9, <4>3
      <4>5. cs \in Seq(Keys) /\ ToSet(cs) = {x} /\ Different(cs) /\ Len(cs) = 1
        BY <4>2, <4>4, OneOrder
      <4> QED BY <2>9, <3>1, <4>3, <4>5
    <3>2. CASE ~(job.sequential /\ q # <<>>)
      <4>1. cs = q /\ ls = later
        BY <2>7, <2>a, <2>b, <3>2
      <4>2. ls = <<>>
        BY <1>1, <4>1 DEF Idle
      <4>3. ls \in Seq(Keys) /\ ToSet(ls) = {} /\ Different(ls)
        BY <4>2, NoOrder
      <4> QED BY <2>9, <3>2, <4>1, <4>2, <4>3
    <3> QED BY <3>1, <3>2
  <2>11. DeliveryTypes'
    BY <1>1, <1>2, <1>3, <2>10, <2>a, <2>b DEF DeliveryTypes
  <2>12. \A k \in Keys : sess[k].status = "none" /\ Unsent(sess[k], heard[k].tls)
    <3>1. SUFFICES ASSUME NEW k \in Keys
                   PROVE sess[k].status = "none" /\ Unsent(sess[k], heard[k].tls)
      OBVIOUS
    <3>2. sess[k] = NoSession /\ heard[k].tls \in BOOLEAN /\ ~heard[k].tls
      BY <1>1 DEF Idle, DeliveryTypes, HeardOf
    <3> QED BY <3>2, NoSessionOf DEF Unsent
  <2>13. captured' = {} /\ callbacks' = IF W = {} THEN 1 ELSE 0
    BY <1>1, <1>2, <2>6 DEF Idle
  <2>14. KeysAre(W)'
    <3>1. W = {IF job.dedup THEN r[e] ELSE e : e \in {e \in Domains : r[e] # None}}
      BY <2>3, <2>4
    <3>2. W = {KeyOf(e) : e \in {e \in Domains : resolved[e] # None}}'
      BY <1>2, <2>1, <3>1 DEF KeyOf
    <3>3. \A e \in Domains : r[e] = None => e \in errors'
      BY <2>3, <2>6
    <3>4. job'.mode = "mx"
      BY <1>1, <1>2
    <3> QED BY <2>1, <2>2, <2>6, <2>13, <3>2, <3>3, <3>4 DEF KeysAre
  <2>15. KeysApart(W)'
    BY <1>2, <2>10, <2>12, <2>13, <2>a, <2>b DEF KeysApart
  <2>16. Turns'
    BY <1>2, <2>10, <2>12, <2>a, <2>b DEF Turns, Live
  <2>17. (\A k \in Keys : Session(k))'
    BY <1>2, <2>12 DEF Session
  <2>18. Running(W)'
    BY <2>8, <2>13, <2>14, <2>15, <2>16, <2>17 DEF Running
  <2> QED BY <2>11, <2>18 DEF DeliveryInv
<1> QED BY <1>4, <1>5

\* A step of one session, which goes on.
SessionGoes(k, u, h) ==
    /\ job' = job /\ resolved' = resolved /\ tosMap' = tosMap /\ connects' = connects
    /\ later' = later /\ callbacks' = callbacks /\ errors' = errors /\ captured' = captured
    /\ sess' = [sess EXCEPT ![k] = u] /\ heard' = [heard EXCEPT ![k] = h]
    /\ u \in SessionOf /\ h \in HeardOf
    /\ (u.status = sess[k].status \/ (sess[k].status = "pending" /\ u.status = "open"))

LEMMA SessionStep ==
    ASSUME DeliveryTypes, NEW W, Running(W), NEW k \in Keys, NEW u, NEW h, SessionGoes(k, u, h),
           IF u.status \in {"none", "pending"} THEN Unsent(u, h.tls)
           ELSE Shape(u, h.tls, h.starttls, Recipients(k))
    PROVE  DeliveryInv'
<1>1. /\ sess' \in [Keys -> SessionOf] /\ heard' \in [Keys -> HeardOf]
      /\ sess'[k] = u /\ heard'[k] = h
      /\ \A j \in Keys : j # k => sess'[j] = sess[j] /\ heard'[j] = heard[j]
  BY DEF DeliveryTypes, SessionGoes
<1>2. DeliveryTypes'
  BY <1>1 DEF DeliveryTypes, SessionGoes
<1>3. KeysAre(W)'
  BY DEF Running, KeysAre, SessionGoes, KeyOf
<1>4. \A j \in Keys : /\ sess'[j].status = "none" <=> sess[j].status = "none"
                      /\ sess[j].status = "closed" => sess'[j].status = "closed"
                      /\ sess'[j].status \in {"pending", "open"} <=>
                            sess[j].status \in {"pending", "open"}
  BY <1>1 DEF SessionGoes
<1>5. KeysApart(W)'
  BY <1>4 DEF Running, KeysApart, SessionGoes, DeliveryTypes
<1>6. Turns'
  BY <1>4 DEF Running, Turns, SessionGoes, Live
<1>7. (\A j \in Keys : Session(j))'
  <2>1. SUFFICES ASSUME NEW j \in Keys PROVE Session(j)'
    OBVIOUS
  <2>2. Recipients(j)' = Recipients(j)
    BY DEF Recipients, Group, KeyOf, SessionGoes
  <2>3. CASE j = k
    BY <1>1, <2>2, <2>3 DEF Session
  <2>4. CASE j # k
    <3>1. Session(j)
      BY DEF Running
    <3> QED BY <1>1, <2>2, <2>4, <3>1 DEF Session
  <2> QED BY <2>3, <2>4
<1>8. Running(W)'
  BY <1>3, <1>5, <1>6, <1>7 DEF Running, SessionGoes
<1> QED BY <1>2, <1>8 DEF DeliveryInv

\* A session that is there is of a message.
LEMMA InRunning ==
    ASSUME DeliveryInv, NEW k \in Keys, sess[k].status # "none"
    PROVE  DeliveryTypes /\ \E W : Running(W) /\ k \in W
<1>1. ~Idle
  BY NoSessionOf DEF Idle
<1>2. PICK W : Running(W)
  BY <1>1 DEF DeliveryInv
<1> QED BY <1>2 DEF DeliveryInv, Running, KeysApart

LEMMA BindStep ==
    ASSUME DeliveryInv, NEW k \in Keys, Bind(k)
    PROVE  DeliveryInv'
<1>1. sess[k].status # "none"
  BY DEF Bind
<1>2. PICK W : Running(W) /\ DeliveryTypes
  BY <1>1, InRunning
<1>3. PICK c : c = sess[k]
  OBVIOUS
<1>4. PICK h : h = heard[k]
  OBVIOUS
<1>5. PICK u : u = [c EXCEPT !.bound = TRUE]
  OBVIOUS
<1>6. c \in SessionOf /\ h \in HeardOf
  BY <1>2, <1>3, <1>4 DEF DeliveryTypes
<1>7. /\ u \in SessionOf /\ u.status = c.status /\ u.sent = c.sent /\ u.awaits = c.awaits
      /\ u.sequence = c.sequence /\ u.sindex = c.sindex /\ u.toIndex = c.toIndex
  BY <1>5, <1>6 DEF SessionOf
<1>8. SessionGoes(k, u, h)
  <2>1. sess' = [sess EXCEPT ![k] = u]
    BY <1>2, <1>3, <1>5 DEF Bind, DeliveryTypes
  <2>2. heard' = [heard EXCEPT ![k] = h]
    BY <1>2, <1>4 DEF Bind, DeliveryTypes
  <2> QED BY <1>3, <1>6, <1>7, <2>1, <2>2 DEF Bind, SessionGoes
<1>9. Session(k)
  BY <1>2 DEF Running
<1>10. IF u.status \in {"none", "pending"} THEN Unsent(u, h.tls)
       ELSE Shape(u, h.tls, h.starttls, Recipients(k))
  BY <1>3, <1>4, <1>6, <1>7, <1>9, SameShape DEF Session
<1> QED BY <1>2, <1>8, <1>10, SessionStep

LEMMA EstablishedStep ==
    ASSUME DeliveryInv, NEW k \in Keys, Established(k)
    PROVE  DeliveryInv'
<1>1. sess[k].status = "pending"
  BY DEF Established
<1>2. PICK W : Running(W) /\ DeliveryTypes
  BY <1>1, InRunning
<1>3. PICK c : c = sess[k]
  OBVIOUS
<1>4. PICK g : g = heard[k]
  OBVIOUS
<1>5. PICK u : u = [c EXCEPT !.status = "open", !.awaits = "greeting"]
  OBVIOUS
<1>6. PICK starttls \in BOOLEAN, still \in BOOLEAN :
         heard' = [heard EXCEPT ![k].starttls = starttls, ![k].still = still]
  BY DEF Established
<1>7. PICK h : h = [g EXCEPT !.starttls = starttls, !.still = still]
  OBVIOUS
<1>8. c \in SessionOf /\ g \in HeardOf
  BY <1>2, <1>3, <1>4 DEF DeliveryTypes
<1>9. /\ u \in SessionOf /\ u.status = "open" /\ u.sent = c.sent /\ u.awaits = "greeting"
      /\ u.sequence = c.sequence /\ u.sindex = c.sindex /\ u.toIndex = c.toIndex
  BY <1>5, <1>8 DEF SessionOf
<1>10. h \in HeardOf /\ h.tls = g.tls
  BY <1>7, <1>8 DEF HeardOf
<1>11. SessionGoes(k, u, h)
  <2>1. sess' = [sess EXCEPT ![k] = u]
    BY <1>2, <1>3, <1>5 DEF Established, DeliveryTypes
  <2>2. heard' = [heard EXCEPT ![k] = h]
    BY <1>2, <1>4, <1>6, <1>7 DEF DeliveryTypes
  <2> QED BY <1>1, <1>3, <1>9, <1>10, <2>1, <2>2 DEF Established, SessionGoes
<1>12. Unsent(u, h.tls)
  <2>1. Session(k)
    BY <1>2 DEF Running
  <2>2. Unsent(c, g.tls)
    BY <1>1, <1>3, <1>4, <2>1 DEF Session
  <2> QED BY <1>9, <1>10, <2>2 DEF Unsent
<1>13. Shape(u, h.tls, h.starttls, Recipients(k))
  BY <1>12 DEF Shape
<1> QED BY <1>2, <1>9, <1>11, <1>13, SessionStep

LEMMA RepliesStep ==
    ASSUME DeliveryInv, NEW k \in Keys, Replies(k)
    PROVE  DeliveryInv'
<1>1. sess[k].status = "open" /\ sess[k].awaits \notin {"none", "upgrade", "quit"}
  BY DEF Replies
<1>2. PICK W : Running(W) /\ k \in W /\ DeliveryTypes
  BY <1>1, InRunning
<1>3. PICK c : c = sess[k]
  OBVIOUS
<1>4. PICK g : g = heard[k]
  OBVIOUS
<1>5. PICK n : n = Recipients(k)
  OBVIOUS
<1>6. n \in Nat /\ n > 0
  BY <1>2, <1>5, RecipientsOf
<1>7. PICK u : u = Call(c, n, IF g.tls THEN g.still ELSE g.starttls)
  OBVIOUS
<1>8. PICK h : h = [g EXCEPT !.accepted = @ \/ c.awaits = "contents"]
  OBVIOUS
<1>9. c \in SessionOf /\ g \in HeardOf
  BY <1>2, <1>3, <1>4 DEF DeliveryTypes
<1>10. g.tls \in BOOLEAN /\ g.starttls \in BOOLEAN /\ g.still \in BOOLEAN /\ g.accepted \in BOOLEAN
  BY <1>9 DEF HeardOf
<1>11. h \in HeardOf /\ h.tls = g.tls /\ h.starttls = g.starttls
  <2>1. PICK b \in BOOLEAN : b = (g.accepted \/ c.awaits = "contents")
    BY <1>10
  <2>2. h = [g EXCEPT !.accepted = b]
    BY <1>8, <2>1
  <2> QED BY <1>9, <2>2 DEF HeardOf
<1>12. Shape(c, g.tls, g.starttls, n)
  <2>1. Session(k)
    BY <1>2 DEF Running
  <2> QED BY <1>1, <1>3, <1>4, <1>5, <2>1 DEF Session
<1>13. job.method \in {"none", "plain", "login"}
  BY <1>2, JobOf
<1>14. /\ u \in SessionOf /\ Shape(u, g.tls, g.starttls, n)
       /\ u.status = c.status /\ u.bound = c.bound
  <2>1. c.awaits \notin {"none", "upgrade", "quit"}
    BY <1>1, <1>3
  <2> QED BY <1>6, <1>7, <1>9, <1>10, <1>12, <1>13, <2>1, ReplyGood
<1>15. SessionGoes(k, u, h)
  <2>1. sess' = [sess EXCEPT ![k] = u]
    BY <1>2, <1>3, <1>4, <1>5, <1>7 DEF Replies, Offers, DeliveryTypes
  <2>2. heard' = [heard EXCEPT ![k] = h]
    BY <1>2, <1>3, <1>4, <1>8 DEF Replies, DeliveryTypes
  <2> QED BY <1>3, <1>11, <1>14, <2>1, <2>2 DEF Replies, SessionGoes
<1>16. u.status \notin {"none", "pending"}
  BY <1>1, <1>3, <1>14
<1>17. Shape(u, h.tls, h.starttls, Recipients(k))
  BY <1>5, <1>11, <1>14
<1> QED BY <1>2, <1>15, <1>16, <1>17, SessionStep

LEMMA UpgradedStep ==
    ASSUME DeliveryInv, NEW k \in Keys, Upgraded(k)
    PROVE  DeliveryInv'
<1>1. sess[k].status = "open" /\ sess[k].awaits = "upgrade"
  BY DEF Upgraded
<1>2. PICK W : Running(W) /\ k \in W /\ DeliveryTypes
  BY <1>1, InRunning
<1>3. PICK c : c = sess[k]
  OBVIOUS
<1>4. PICK g : g = heard[k]
  OBVIOUS
<1>5. PICK n : n = Recipients(k)
  OBVIOUS
<1>7. PICK u : u = Restarts(c, n)
  OBVIOUS
<1>8. PICK h : h = [g EXCEPT !.tls = TRUE]
  OBVIOUS
<1>9. c \in SessionOf /\ g \in HeardOf
  BY <1>2, <1>3, <1>4 DEF DeliveryTypes
<1>10. g.tls \in BOOLEAN /\ h \in HeardOf /\ h.tls = TRUE
  BY <1>8, <1>9 DEF HeardOf
<1>11. Shape(c, g.tls, g.starttls, n)
  <2>1. Session(k)
    BY <1>2 DEF Running
  <2> QED BY <1>1, <1>3, <1>4, <1>5, <2>1 DEF Session
<1>12. Upgrading(c, g.tls)
  <2>1. c.awaits = "upgrade" /\ "upgrade" \notin Commands
    BY <1>1, <1>3 DEF Commands
  <2>2. ~Unsent(c, g.tls)
    BY <2>1 DEF Unsent
  <2>3. ~Greeted(c, g.tls)
    BY <2>1 DEF Greeted
  <2>4. ~Exchanging(c, g.tls, g.starttls, n)
    BY <2>1 DEF Exchanging
  <2> QED BY <1>11, <2>2, <2>3, <2>4 DEF Shape
<1>13. u \in SessionOf /\ GreetedAgain(u) /\ u.status = c.status /\ u.bound = c.bound
  <2>1. c.awaits = "upgrade"
    BY <1>1, <1>3
  <2> QED BY <1>7, <1>9, <1>10, <1>12, <2>1, UpgradedGood
<1>14. SessionGoes(k, u, h)
  <2>1. sess' = [sess EXCEPT ![k] = u]
    BY <1>2, <1>3, <1>5, <1>7 DEF Upgraded, DeliveryTypes, Anew, Restarts, Resumes
  <2>2. heard' = [heard EXCEPT ![k] = h]
    BY <1>2, <1>4, <1>8 DEF Upgraded, DeliveryTypes
  <2> QED BY <1>3, <1>10, <1>13, <2>1, <2>2 DEF Upgraded, SessionGoes
<1>15. Shape(u, h.tls, h.starttls, Recipients(k))
  BY <1>10, <1>13 DEF Shape, GreetedAgain
<1>16. u.status \notin {"none", "pending"}
  BY <1>1, <1>3, <1>13
<1> QED BY <1>2, <1>14, <1>15, <1>16, SessionStep

LEMMA ConnectMxStep ==
    ASSUME DeliveryInv, ConnectMx
    PROVE  DeliveryInv'
<1>1. connects # <<>> /\ \A j \in Keys : Live(j) => sess[j].bound
  BY DEF ConnectMx
<1>2. PICK W : Running(W) /\ DeliveryTypes
  BY <1>1 DEF DeliveryInv, Idle
<1>3. PICK q : q = connects
  OBVIOUS
<1>4. PICK r : r = Tail(q)
  OBVIOUS
<1>5. PICK k : k = Head(q)
  OBVIOUS
<1>6. PICK u : u = Connected(k, ~Race)
  OBVIOUS
<1>7. /\ k \in ToSet(q) /\ r \in Seq(Keys) /\ Different(r)
      /\ \A y : y \in ToSet(r) <=> y \in ToSet(q) /\ y # k
      /\ EmptiedBy(q, r)
  <2>1. q \in Seq(Keys) /\ q # <<>> /\ Different(q)
    BY <1>1, <1>2, <1>3 DEF DeliveryTypes, Running, KeysApart
  <2> QED BY ONLY <1>4, <1>5, <2>1, Behead
<1>8. k \in W /\ k \in Keys /\ sess[k].status = "none" /\ k \notin ToSet(later)
  <2>1. k \in ToSet(connects)
    BY <1>3, <1>7
  <2>2. k \in W /\ k \notin ToSet(later)
    BY <1>2, <2>1 DEF Running, KeysApart
  <2>3. k \in Keys
    BY <1>2, <2>2 DEF Running
  <2>4. sess[k].status = "none"
    BY <1>2, <2>1, <2>3 DEF Running, KeysApart
  <2> QED BY <2>2, <2>3, <2>4
<1>9. u \in SessionOf /\ Unsent(u, FALSE) /\ u.status = "pending"
  <2>1. (~Race) \in BOOLEAN
    BY SmtpClientAssumption
  <2> QED BY <1>2, <1>6, <2>1, ConnectedOf
<1>10. /\ sess' = [sess EXCEPT ![k] = u] /\ connects' = r
       /\ job' = job /\ resolved' = resolved /\ tosMap' = tosMap /\ later' = later
       /\ heard' = heard /\ callbacks' = callbacks /\ errors' = errors
       /\ captured' = captured
  BY <1>3, <1>4, <1>5, <1>6 DEF ConnectMx
<1>11. /\ sess' \in [Keys -> SessionOf] /\ sess'[k] = u
       /\ \A j \in Keys : j # k => sess'[j] = sess[j]
  BY <1>2, <1>8, <1>9, <1>10 DEF DeliveryTypes
<1>12. DeliveryTypes'
  BY <1>2, <1>7, <1>10, <1>11 DEF DeliveryTypes
<1>13. KeysAre(W)'
  BY <1>2, <1>10 DEF Running, KeysAre, KeyOf
<1>14. KeysApart(W)'
  <2>1. k \notin captured
    BY <1>2, <1>8 DEF Running, KeysApart
  <2>2. captured \subseteq Keys
    BY <1>2 DEF DeliveryTypes
  <2> QED BY <1>2, <1>3, <1>7, <1>8, <1>10, <1>11, <2>1, <2>2 DEF Running, KeysApart
<1>15. Turns'
  <2>1. CASE ~job.sequential
    BY <1>2, <1>10, <2>1 DEF Running, Turns
  <2>2. CASE job.sequential
    <3>1. Len(q) = 1 /\ \A j \in Keys : sess[j].status = "none"
      BY <1>1, <1>2, <1>3, <2>2 DEF Running, Turns
    <3>2. r = <<>>
      BY <1>7, <3>1 DEF EmptiedBy
    <3> QED BY <1>10, <1>11, <2>2, <3>1, <3>2 DEF Turns, Live
  <2> QED BY <2>1, <2>2
<1>16. (\A j \in Keys : Session(j))'
  <2>1. SUFFICES ASSUME NEW j \in Keys PROVE Session(j)'
    OBVIOUS
  <2>2. Recipients(j)' = Recipients(j)
    BY <1>10 DEF Recipients, Group, KeyOf
  <2>3. Session(j)
    BY <1>2 DEF Running
  <2>4. CASE j = k
    <3>1. Unsent(sess[k], heard[k].tls)
      BY <1>8, <2>3, <2>4 DEF Session
    <3>2. ~heard[k].tls /\ heard[k].tls \in BOOLEAN
      BY <1>2, <1>8, <3>1 DEF Unsent, DeliveryTypes, HeardOf
    <3>3. Unsent(u, heard[k].tls)
      BY <1>9, <3>2 DEF Unsent
    <3> QED BY <1>9, <1>10, <1>11, <2>4, <3>3 DEF Session
  <2>5. CASE j # k
    BY <1>10, <1>11, <2>2, <2>3, <2>5 DEF Session
  <2> QED BY <2>4, <2>5
<1>17. Running(W)'
  BY <1>2, <1>10, <1>13, <1>14, <1>15, <1>16 DEF Running
<1> QED BY <1>12, <1>17 DEF DeliveryInv

ClosedSession(c) == [c EXCEPT !.status = "closed"]

LEMMA ClosedOf ==
    ASSUME NEW c \in SessionOf, NEW u, u = ClosedSession(c)
    PROVE  /\ u \in SessionOf /\ u.status = "closed" /\ u.sent = c.sent /\ u.awaits = c.awaits
           /\ u.sequence = c.sequence /\ u.sindex = c.sindex /\ u.toIndex = c.toIndex
BY DEF ClosedSession, SessionOf

\* A session ends, and those of `fresh` begin in its place.
EndsAs(k, fresh, ls, cs) ==
    /\ job' = job /\ resolved' = resolved /\ connects' = connects /\ heard' = heard
    /\ errors \subseteq errors'
    /\ sess' \in [Keys -> SessionOf] /\ sess'[k] = ClosedSession(sess[k])
    /\ \A j \in fresh : sess'[j].status = "pending" /\ Unsent(sess'[j], FALSE)
    /\ \A j \in Keys : j # k /\ j \notin fresh => sess'[j] = sess[j]
    /\ later' = ls /\ captured' = cs

LEMMA EndsGood ==
    ASSUME DeliveryTypes, NEW W, Running(W), NEW k \in W, Live(k),
           NEW fresh, fresh \subseteq Keys, k \notin fresh,
           NEW ls \in Seq(Keys), Different(ls), NEW cs, cs \in {captured, captured \cup {k}},
           EndsAs(k, fresh, ls, cs),
           \A j \in Keys : j \in ToSet(later) <=> j \in ToSet(ls) \/ j \in fresh,
           \A j \in fresh : j \notin ToSet(ls),
           ls # <<>> => later # <<>>,
           fresh # {} => later # <<>>, \A i, j \in fresh : i = j,
           IF cs = captured THEN tosMap' = tosMap /\ callbacks' = callbacks
           ELSE /\ tosMap' = tosMap \ {k}
                /\ callbacks' = IF tosMap \ {k} = {} THEN callbacks + 1 ELSE callbacks
    PROVE  DeliveryInv'
<1>1. W \subseteq Keys /\ KeysAre(W) /\ KeysApart(W) /\ Turns /\ k \in Keys
  BY DEF Running
<1>2. sess[k].status \in {"pending", "open"}
  BY DEF Live
<1>3. /\ job' = job /\ resolved' = resolved /\ connects' = connects /\ heard' = heard
      /\ errors \subseteq errors' /\ later' = ls /\ captured' = cs
      /\ sess' \in [Keys -> SessionOf] /\ sess'[k] = ClosedSession(sess[k])
      /\ \A j \in fresh : sess'[j].status = "pending" /\ Unsent(sess'[j], FALSE)
      /\ \A j \in Keys : j # k /\ j \notin fresh => sess'[j] = sess[j]
  BY DEF EndsAs
<1>4. DeliveryTypes'
  BY <1>1, <1>3 DEF DeliveryTypes
<1>5. \A j \in captured : j \in Keys /\ sess[j].status = "closed"
  BY <1>1 DEF KeysApart, DeliveryTypes
<1>6. k \notin captured
  BY <1>2, <1>5
<1>7. \A j \in fresh : j \in W /\ sess[j].status = "none" /\ j \notin ToSet(connects)
  <2>1. SUFFICES ASSUME NEW j \in fresh
                 PROVE j \in W /\ sess[j].status = "none" /\ j \notin ToSet(connects)
    OBVIOUS
  <2>2. j \in Keys /\ j \in ToSet(later)
    OBVIOUS
  <2> QED BY <1>1, <2>2 DEF KeysApart
<1>8. KeysAre(W)'
  <2>1. CASE job.mode = "direct"
    <3>1. tosMap = {} /\ \E h \in Hosts : W = {h}
      BY <1>1, <2>1 DEF KeysAre
    <3>2. tosMap' = {}
      BY <3>1
    <3> QED BY <1>3, <2>1, <3>1, <3>2 DEF KeysAre
  <2>2. CASE job.mode # "direct"
    <3>1. /\ job.mode = "mx" /\ \A d \in Domains : resolved[d] # "pending"
          /\ W = {KeyOf(d) : d \in {e \in Domains : resolved[e] # None}}
          /\ tosMap = W \ captured
          /\ \A d \in Domains : resolved[d] = None => d \in errors
      BY <1>1, <2>2 DEF KeysAre
    <3>2. tosMap' = W \ cs
      BY <1>6, <3>1
    <3>3. W = {KeyOf(d) : d \in {e \in Domains : resolved[e] # None}}'
      BY <1>3, <3>1 DEF KeyOf
    <3>4. \A d \in Domains : resolved[d] = None => d \in errors'
      BY <1>3, <3>1
    <3> QED BY <1>3, <2>2, <3>1, <3>2, <3>3, <3>4 DEF KeysAre
  <2> QED BY <2>1, <2>2
<1>9. callbacks' = IF W \subseteq cs THEN 1 ELSE 0
  <2>1. callbacks = 0
    BY <1>6 DEF Running
  <2>2. CASE cs = captured
    BY <1>6, <2>1, <2>2
  <2>3. CASE cs = captured \cup {k} /\ cs # captured
    <3>1. callbacks' = IF tosMap \ {k} = {} THEN 1 ELSE 0
      BY <2>1, <2>3
    <3>2. tosMap \ {k} = {} <=> W \subseteq cs
      BY <1>1, <2>3 DEF KeysAre
    <3> QED BY <3>1, <3>2
  <2> QED BY <2>2, <2>3
<1>c. sess[k] \in SessionOf /\ sess'[k].status = "closed"
  BY <1>1, <1>3, ClosedOf DEF DeliveryTypes
<1>10. KeysApart(W)'
  <2>1. \A j \in ToSet(connects) : j \in W /\ j \notin ToSet(ls)
    <3>1. \A j \in ToSet(connects) : j \in W /\ j \notin ToSet(later)
      BY <1>1 DEF KeysApart
    <3> QED BY <1>1, <3>1
  <2>2. \A j \in ToSet(ls) : j \in W
    <3>1. \A j \in ToSet(ls) : j \in Keys
      <4>1. \A i \in DOMAIN ls : ls[i] \in Keys
        BY ElementOfSeq, LenProperties
      <4> QED BY <4>1 DEF ToSet
    <3> QED BY <1>1, <3>1 DEF KeysApart
  <2>3. \A j \in Keys : sess'[j].status # "none" =>
            j \in W /\ j \notin ToSet(connects) /\ j \notin ToSet(ls)
    <3>1. SUFFICES ASSUME NEW j \in Keys, sess'[j].status # "none"
                   PROVE j \in W /\ j \notin ToSet(connects) /\ j \notin ToSet(ls)
      OBVIOUS
    <3>2. CASE j \in fresh
      BY <1>7, <3>2
    <3>3. CASE j \notin fresh
      <4>1. sess[j].status # "none"
        BY <1>2, <1>3, <3>1, <3>3
      <4>2. j \in W /\ j \notin ToSet(connects) /\ j \notin ToSet(later)
        BY <1>1, <4>1 DEF KeysApart
      <4> QED BY <4>2
    <3> QED BY <3>2, <3>3
  <2>4. \A j \in cs : sess'[j].status = "closed"
    <3>1. SUFFICES ASSUME NEW j \in cs PROVE sess'[j].status = "closed"
      OBVIOUS
    <3>2. CASE j = k
      BY <1>c, <3>2
    <3>3. CASE j # k
      <4>1. j \in captured
        BY <3>3
      <4>2. j \notin fresh
        BY <1>5, <1>7, <4>1
      <4> QED BY <1>3, <1>5, <3>3, <4>1, <4>2
    <3> QED BY <3>2, <3>3
  <2>5. Different(connects)
    BY <1>1 DEF KeysApart
  <2> QED BY <1>3, <2>1, <2>2, <2>3, <2>4, <2>5 DEF KeysApart
<1>11. Turns'
  <2>1. ls # <<>> => job.sequential
    BY <1>1 DEF Turns
  <2>2. ASSUME job.sequential
        PROVE  \A i, j \in Keys : (sess'[i].status \in {"pending", "open"}
                                   /\ sess'[j].status \in {"pending", "open"}) => i = j
    <3>1. \A j \in Keys : sess[j].status \in {"pending", "open"} => j = k
      BY <1>1, <1>2, <2>2 DEF Turns, Live
    <3>2. \A j \in Keys : sess'[j].status \in {"pending", "open"} => j \in fresh
      BY <1>3, <1>c, <3>1
    <3> QED BY <3>2
  <2>3. job.sequential => connects = <<>>
    BY <1>1, <1>2 DEF Turns
  <2> QED BY <1>3, <2>1, <2>2, <2>3 DEF Turns, Live
<1>12. (\A j \in Keys : Session(j))'
  <2>1. SUFFICES ASSUME NEW j \in Keys PROVE Session(j)'
    OBVIOUS
  <2>2. Recipients(j)' = Recipients(j)
    BY <1>3 DEF Recipients, Group, KeyOf
  <2>3. Session(j)
    BY DEF Running
  <2>4. CASE j = k
    <3>1. PICK n : n = Recipients(k)
      OBVIOUS
    <3>2. Shape(sess[k], heard[k].tls, heard[k].starttls, n)
      BY <1>2, <2>3, <2>4, <3>1 DEF Session, Shape
    <3>3. PICK u : u = sess'[k]
      OBVIOUS
    <3>4. /\ u \in SessionOf /\ u.status = "closed" /\ u.sent = sess[k].sent
          /\ u.awaits = sess[k].awaits /\ u.sequence = sess[k].sequence
          /\ u.sindex = sess[k].sindex /\ u.toIndex = sess[k].toIndex
      BY <1>3, <1>c, <3>3, ClosedOf
    <3>5. Shape(u, heard[k].tls, heard[k].starttls, n)
      BY <1>c, <3>2, <3>4, SameShape
    <3>6. sess'[j] = u /\ heard'[j] = heard[k] /\ Recipients(j)' = n
      BY <1>3, <2>2, <2>4, <3>1, <3>3
    <3> QED BY <3>4, <3>5, <3>6 DEF Session
  <2>5. CASE j \in fresh
    <3>1. sess[j].status = "none"
      BY <1>7, <2>5
    <3>2. heard[j].tls \in BOOLEAN /\ ~heard[j].tls
      BY <2>3, <3>1 DEF Session, Unsent, DeliveryTypes, HeardOf
    <3>3. Unsent(sess'[j], heard[j].tls)
      BY <1>3, <2>5, <3>2 DEF Unsent
    <3> QED BY <1>3, <2>5, <3>3 DEF Session
  <2>6. CASE j # k /\ j \notin fresh
    BY <1>3, <2>2, <2>3, <2>6 DEF Session
  <2> QED BY <2>4, <2>5, <2>6
<1>13. Running(W)'
  BY <1>1, <1>3, <1>8, <1>9, <1>10, <1>11, <1>12 DEF Running
<1> QED BY <1>4, <1>13 DEF DeliveryInv

LEMMA EndsStep ==
    ASSUME DeliveryInv, NEW k \in Keys, Live(k), NEW failed \in BOOLEAN, Ends(k, failed)
    PROVE  DeliveryInv'
<1>1. sess[k].status \in {"pending", "open"}
  BY DEF Live
<1>2. PICK W : Running(W) /\ k \in W /\ DeliveryTypes
  BY <1>1, InRunning
<1>3. job' = job /\ resolved' = resolved /\ connects' = connects /\ heard' = heard
  BY DEF Ends
<1>4. later \in Seq(Keys) /\ Different(later) /\ k \notin ToSet(later)
  BY <1>1, <1>2 DEF Running, KeysApart, DeliveryTypes
<1>5. sess \in [Keys -> SessionOf] /\ sess[k] \in SessionOf
  BY <1>2 DEF DeliveryTypes
<1>6. PICK u : u = ClosedSession(sess[k])
  OBVIOUS
<1>7. u \in SessionOf
  BY <1>5, <1>6, ClosedOf
<1>8. CASE ~sess[k].bound
  <2>1. /\ sess' = [sess EXCEPT ![k].status = "closed"]
        /\ tosMap' = tosMap /\ callbacks' = callbacks /\ later' = later
        /\ captured' = captured /\ errors' = errors
    BY <1>8 DEF Ends
  <2>2. sess' = [sess EXCEPT ![k] = u]
    BY <1>5, <1>6, <2>1 DEF ClosedSession
  <2>3. PICK fresh : fresh = {}
    OBVIOUS
  <2>4. PICK ls : ls = later
    OBVIOUS
  <2>5. PICK cs : cs = captured
    OBVIOUS
  <2>6. EndsAs(k, fresh, ls, cs)
    BY <1>3, <1>5, <1>6, <1>7, <2>1, <2>2, <2>3, <2>4, <2>5 DEF EndsAs
  <2>7. /\ fresh \subseteq Keys /\ k \notin fresh /\ ls \in Seq(Keys) /\ Different(ls)
        /\ \A j \in Keys : j \in ToSet(later) <=> j \in ToSet(ls) \/ j \in fresh
        /\ \A j \in fresh : j \notin ToSet(ls)
        /\ ls # <<>> => later # <<>>
        /\ fresh # {} => later # <<>>
        /\ \A i, j \in fresh : i = j
    BY <1>4, <2>3, <2>4
  <2> QED BY <1>2, <2>1, <2>5, <2>6, <2>7, EndsGood
<1>9. CASE sess[k].bound
  <2>1. PICK cs : cs = captured \cup {k}
    OBVIOUS
  <2>2. /\ captured' = cs /\ errors \subseteq errors' /\ tosMap' = tosMap \ {k}
        /\ callbacks' = IF tosMap \ {k} = {} THEN callbacks + 1 ELSE callbacks
        /\ NextMx(k, failed)
    BY <1>9, <2>1 DEF Ends, OnClose
  <2>3. cs # captured
    <3>1. \A j \in captured : sess[j].status = "closed"
      BY <1>2 DEF Running, KeysApart
    <3> QED BY <1>1, <2>1, <3>1
  <2>4. CASE later = <<>>
    <3>1. sess' = [sess EXCEPT ![k].status = "closed"] /\ later' = later
      BY <2>2, <2>4 DEF NextMx
    <3>2. sess' = [sess EXCEPT ![k] = u]
      BY <1>5, <1>6, <3>1 DEF ClosedSession
    <3>3. PICK fresh : fresh = {}
      OBVIOUS
    <3>4. PICK ls : ls = later
      OBVIOUS
    <3>5. EndsAs(k, fresh, ls, cs)
      BY <1>3, <1>5, <1>6, <1>7, <2>2, <3>1, <3>2, <3>3, <3>4 DEF EndsAs
    <3>6. /\ fresh \subseteq Keys /\ k \notin fresh /\ ls \in Seq(Keys) /\ Different(ls)
          /\ \A j \in Keys : j \in ToSet(later) <=> j \in ToSet(ls) \/ j \in fresh
          /\ \A j \in fresh : j \notin ToSet(ls)
          /\ ls # <<>> => later # <<>>
          /\ fresh # {} => later # <<>>
          /\ \A i, j \in fresh : i = j
      BY <1>4, <3>3, <3>4
    <3> QED BY <1>2, <2>1, <2>2, <2>3, <3>5, <3>6, EndsGood
  <2>5. CASE later # <<>>
    <3>q. PICK q : q = later
      OBVIOUS
    <3>1. PICK h : h = Head(q)
      OBVIOUS
    <3>2. PICK ls : ls = Tail(q)
      OBVIOUS
    <3>3. PICK v : v = Connected(h, TRUE)
      OBVIOUS
    <3>4. /\ sess' = [sess EXCEPT ![k].status = "closed", ![h] = v]
          /\ later' = ls
      BY <2>2, <2>5, <3>q, <3>1, <3>2, <3>3 DEF NextMx
    <3>5. /\ h \in ToSet(later) /\ ls \in Seq(Keys) /\ Different(ls)
          /\ \A y : y \in ToSet(ls) <=> y \in ToSet(later) /\ y # h
      <4>1. q \in Seq(Keys) /\ q # <<>> /\ Different(q)
        BY <1>4, <2>5, <3>q
      <4>2. /\ h \in ToSet(q) /\ ls \in Seq(Keys) /\ Different(ls)
            /\ \A y : y \in ToSet(ls) <=> y \in ToSet(q) /\ y # h
        BY ONLY <3>1, <3>2, <4>1, Behead
      <4> QED BY <3>q, <4>2
    <3>6. h # k /\ h \in Keys
      <4>1. h \in W
        BY <1>2, <3>5 DEF Running, KeysApart
      <4> QED BY <1>2, <1>4, <3>5, <4>1 DEF Running
    <3>7. v \in SessionOf /\ Unsent(v, FALSE) /\ v.status = "pending"
      BY <1>2, <3>3, ConnectedOf
    <3>8. sess' = [[sess EXCEPT ![k] = u] EXCEPT ![h] = v]
      BY <1>5, <1>6, <3>4 DEF ClosedSession
    <3>9. EndsAs(k, {h}, ls, cs)
      BY <1>3, <1>5, <1>6, <1>7, <2>2, <3>4, <3>6, <3>7, <3>8 DEF EndsAs
    <3>10. \A j \in Keys : j \in ToSet(later) <=> j \in ToSet(ls) \/ j \in {h}
      BY <3>5
    <3>11. ls \in Seq(Keys) /\ {h} \subseteq Keys /\ k \notin {h} /\ h \notin ToSet(ls)
      BY <3>5, <3>6
    <3> QED BY <1>2, <2>1, <2>2, <2>3, <2>5, <3>5, <3>9, <3>10, <3>11, EndsGood
  <2> QED BY <2>4, <2>5
<1> QED BY <1>5, <1>8, <1>9 DEF SessionOf

LEMMA AnswersStep ==
    ASSUME DeliveryInv, NEW k \in Keys, Answers(k)
    PROVE  DeliveryInv'
<1>1. CASE Established(k)
  BY <1>1, EstablishedStep
<1>2. CASE Refused(k)
  <2>1. Live(k) /\ Ends(k, FALSE)
    BY <1>2 DEF Refused, Live
  <2> QED BY <2>1, EndsStep
<1>3. CASE Replies(k)
  BY <1>3, RepliesStep
<1>4. CASE Quits(k)
  <2>1. Live(k) /\ Ends(k, FALSE)
    BY <1>4 DEF Quits, Live
  <2> QED BY <2>1, EndsStep
<1>5. CASE Refuses(k)
  <2>1. Live(k) /\ Ends(k, TRUE)
    BY <1>5 DEF Refuses, Live
  <2> QED BY <2>1, EndsStep
<1>6. CASE Upgraded(k)
  BY <1>6, UpgradedStep
<1>7. CASE Eof(k)
  <2>1. Live(k) /\ Ends(k, FALSE)
    BY <1>7 DEF Eof, Live
  <2> QED BY <2>1, EndsStep
<1> QED BY <1>1, <1>2, <1>3, <1>4, <1>5, <1>6, <1>7 DEF Answers

LEMMA DeliveryInvStep ==
    ASSUME DeliveryInv, [SmtpNext]_smtpVars
    PROVE  DeliveryInv'
<1>1. ASSUME NEW arguments \in Jobs, Message(arguments) PROVE DeliveryInv'
  BY <1>1, MessageStep
<1>2. ASSUME NEW d \in Domains, NEW answer \in Hosts \cup {None}, Resolved(d, answer)
      PROVE DeliveryInv'
  BY <1>2, ResolvedStep
<1>3. CASE ConnectMx
  BY <1>3, ConnectMxStep
<1>4. ASSUME NEW k \in Keys, Bind(k) PROVE DeliveryInv'
  BY <1>4, BindStep
<1>5. ASSUME NEW k \in Keys, Answers(k) PROVE DeliveryInv'
  BY <1>5, AnswersStep
<1>6. CASE UNCHANGED smtpVars
  <2>1. /\ job' = job /\ resolved' = resolved /\ tosMap' = tosMap
        /\ connects' = connects /\ later' = later /\ sess' = sess /\ heard' = heard
        /\ callbacks' = callbacks /\ errors' = errors /\ captured' = captured
    BY <1>6 DEF smtpVars
  <2>2. DeliveryTypes'
    BY <2>1 DEF DeliveryInv, DeliveryTypes
  <2>3. CASE Idle
    <3>1. Idle'
      BY <2>1, <2>3 DEF Idle
    <3> QED BY <2>2, <3>1 DEF DeliveryInv
  <2>4. ASSUME NEW W, Running(W) PROVE Running(W)'
    <3>1. KeysAre(W)'
      BY <2>1, <2>4 DEF Running, KeysAre, KeyOf
    <3>2. KeysApart(W)' /\ Turns'
      BY <2>1, <2>4 DEF Running, KeysApart, Turns, Live
    <3>3. ASSUME NEW k \in Keys PROVE Session(k)'
      <4>1. Recipients(k)' = Recipients(k)
        BY <2>1 DEF Recipients, Group, KeyOf
      <4> QED BY <2>1, <2>4, <4>1 DEF Running, Session
    <3> QED BY <2>1, <2>4, <3>1, <3>2, <3>3 DEF Running
  <2> QED BY <2>2, <2>3, <2>4 DEF DeliveryInv
<1> QED BY <1>1, <1>2, <1>3, <1>4, <1>5, <1>6 DEF SmtpNext

LEMMA LegalIs ==
    ASSUME NEW k, NEW n, n = Recipients(k), NEW t, Orderly(t, n)
    PROVE  \E s \in Legal(k) : Len(t) <= Len(s) /\ SubSeq(s, 1, Len(t)) = t
<1>1. ASSUME NEW a \in Auths PROVE Exchange(a, n) \in Legal(k)
  BY DEF Legal, Exchange, Auths
<1>2. <<"ehlo", "starttls">> \in Legal(k)
  BY DEF Legal
<1> QED BY <1>1, <1>2 DEF Orderly

LEMMA DeliveryInvSafety ==
    ASSUME DeliveryInv
    PROVE  DeliverySafety
<1>1. CASE Idle
  <2>1. \A k \in Keys : sess[k].status = "none" /\ sess[k].sent = <<>>
    BY <1>1, NoSessionOf DEF Idle, Unsent
  <2>2. CalledOnce
    BY <1>1 DEF Idle, CalledOnce
  <2>3. \A k \in Keys : InSequence(k) /\ UpgradedFirst(k)
    BY <2>1 DEF InSequence, UpgradedFirst, ToSet
  <2>4. OneAtATime
    <3>1. {k \in Keys : Live(k)} = {}
      BY <2>1 DEF Live
    <3>2. Cardinality({k \in Keys : Live(k)}) = 0
      BY <3>1, FS_EmptySet
    <3> QED BY <3>2 DEF OneAtATime
  <2> QED BY <2>2, <2>3, <2>4 DEF DeliverySafety, InTurn
<1>2. ASSUME NEW W, Running(W) PROVE DeliverySafety
  <2>a. /\ DeliveryTypes /\ W \subseteq Keys /\ KeysAre(W) /\ KeysApart(W) /\ Turns
        /\ callbacks = IF W \subseteq captured THEN 1 ELSE 0
        /\ \A k \in Keys : Session(k)
    BY <1>2 DEF DeliveryInv, Running
  <2>1. CalledOnce
    <3>1. callbacks <= 1
      BY <2>a
    <3>2. ASSUME callbacks = 1, NEW k \in Keys PROVE ~Live(k)
      <4>1. W \subseteq captured
        BY <2>a, <3>2
      <4>2. SUFFICES ASSUME sess[k].status # "none" PROVE sess[k].status = "closed"
        BY DEF Live
      <4> QED BY <2>a, <4>1, <4>2 DEF KeysApart
    <3>3. ASSUME callbacks = 1, job.mode = "mx", NEW d \in Domains
          PROVE  /\ resolved[d] # "pending"
                 /\ IF resolved[d] = None THEN d \in errors ELSE KeyOf(d) \in captured
      <4>1. W \subseteq captured
        BY <2>a, <3>3
      <4> QED BY <2>a, <3>3, <4>1 DEF KeysAre
    <3> QED BY <3>1, <3>2, <3>3 DEF CalledOnce
  <2>2. ASSUME NEW k \in Keys PROVE InSequence(k) /\ UpgradedFirst(k)
    <3>1. Session(k) /\ sess[k] \in SessionOf /\ heard[k] \in HeardOf
      BY <2>a DEF DeliveryTypes
    <3>n. PICK n : n = Recipients(k)
      OBVIOUS
    <3>t. PICK t : t = sess[k].sent
      OBVIOUS
    <3>2. CASE sess[k].status \in {"none", "pending"}
      <4>1. t = <<>>
        BY <3>1, <3>2, <3>t DEF Session, Unsent
      <4>2. Orderly(t, n) /\ ToSet(t) \subseteq {"ehlo", "starttls"}
        BY <4>1, EarlyOrderly
      <4>3. \E s \in Legal(k) : Len(t) <= Len(s) /\ SubSeq(s, 1, Len(t)) = t
        BY <3>n, <4>2, LegalIs
      <4> QED BY <3>t, <4>2, <4>3 DEF InSequence, UpgradedFirst
    <3>3. CASE sess[k].status \notin {"none", "pending"}
      <4>1. PICK c : c = sess[k]
        OBVIOUS
      <4>2. PICK h : h = heard[k]
        OBVIOUS
      <4>3. k \in W
        BY <2>a, <3>3 DEF KeysApart
      <4>4. n \in Nat /\ n > 0
        BY <1>2, <2>a, <3>n, <4>3, RecipientsOf
      <4>5. c \in SessionOf /\ h.tls \in BOOLEAN /\ h.starttls \in BOOLEAN
        BY <3>1, <4>1, <4>2 DEF HeardOf
      <4>6. Shape(c, h.tls, h.starttls, n)
        BY <3>1, <3>3, <3>n, <4>1, <4>2 DEF Session
      <4>7. Orderly(t, n) /\ (h.starttls /\ ~h.tls => ToSet(t) \subseteq {"ehlo", "starttls"})
        BY <3>t, <4>1, <4>4, <4>5, <4>6, ShapeOrderly
      <4>8. \E s \in Legal(k) : Len(t) <= Len(s) /\ SubSeq(s, 1, Len(t)) = t
        BY <3>n, <4>7, LegalIs
      <4> QED BY <3>t, <4>2, <4>7, <4>8 DEF InSequence, UpgradedFirst
    <3> QED BY <3>2, <3>3
  <2>3. OneAtATime
    <3>1. SUFFICES ASSUME job.sequential PROVE Cardinality({k \in Keys : Live(k)}) <= 1
      BY DEF OneAtATime
    <3>2. PICK S : S = {k \in Keys : Live(k)}
      OBVIOUS
    <3>3. \A j, k \in S : j = k
      BY <2>a, <3>1, <3>2 DEF Turns
    <3>4. CASE S = {}
      <4>1. Cardinality(S) = 0
        BY <3>4, FS_EmptySet
      <4> QED BY <3>2, <4>1
    <3>5. CASE S # {}
      <4>1. PICK x : S = {x}
        BY <3>3, <3>5
      <4>2. Cardinality(S) = 1
        BY <4>1, FS_Singleton
      <4> QED BY <3>2, <4>2
    <3> QED BY <3>4, <3>5
  <2> QED BY <2>1, <2>2, <2>3 DEF DeliverySafety, InTurn
<1> QED BY <1>1, <1>2 DEF DeliveryInv

\* Messages are delivered and kept once, whole and by the right ones, whatever
\* the remote servers answer and however their connections end.
THEOREM MailSafe ==
    SmtpInit /\ [][SmtpNext]_smtpVars /\ ServerInit /\ [][ServerNext]_serverVars
        => []MailSafety
<1>1. SmtpInit => DeliveryInv
  BY DeliveryInvInit
<1>2. DeliveryInv /\ [SmtpNext]_smtpVars => DeliveryInv'
  BY DeliveryInvStep
<1>3. ServerInit => MailInv
  BY MailInvInit
<1>4. MailInv /\ [ServerNext]_serverVars => MailInv'
  BY MailInvStep
<1>5. DeliveryInv /\ MailInv => MailSafety
  BY DeliveryInvSafety, MailInvSafety DEF MailSafety
<1> QED BY <1>1, <1>2, <1>3, <1>4, <1>5, PTL
=============================================================================
