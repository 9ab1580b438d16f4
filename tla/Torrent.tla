------------------------------ MODULE Torrent -------------------------------
(***************************************************************************)
(* A download of netius.servers.torrent (TorrentTask and its two Pieces)   *)
(* from peers of netius.clients.torrent (TorrentConnection).  `requested`  *)
(* and `stored` are the sets of the blocks whose bit in the mask is True:  *)
(* those that may be asked of a peer, and those that are not in the file.  *)
(* The bitfield of a Pieces, which update_piece() keeps, says of a piece   *)
(* that a block of it is in the set; pend_requests is the length of        *)
(* `requests`.  Peers answer the requests they read in order, and discard  *)
(* them while they choke.                                                  *)
(***************************************************************************)
EXTENDS Integers, FiniteSets, SequencesExt

CONSTANTS Peers,
          Holds,         \* the pieces of each peer
          NumberPieces, NumberBlocks, FinalBlocks,
          MaxRequests,   \* `max_requests` of a connection
          MaxPeers,      \* `max_peers`
          ThresholdEnd,  \* THRESHOLD_END, in blocks
          Magnet,        \* those that give the metadata, {} with a torrent file
          MaxBad,        \* bound: blocks that arrive with wrong data
          MaxChokes,     \* bound: messages that choke
          MaxCloses      \* bound: connections that close

ASSUME TorrentAssumption ==
    /\ NumberPieces \in Nat \ {0} /\ FinalBlocks \in 1 .. NumberBlocks
    /\ Holds \in [Peers -> SUBSET (0 .. NumberPieces - 1)]
    /\ MaxRequests \in Nat \ {0} /\ NumberBlocks \in Nat
    /\ Magnet \subseteq Peers

Blocks == 0 .. (NumberPieces - 1) * NumberBlocks + FinalBlocks - 1
Piece(b) == b \div NumberBlocks
BlocksOf(i) == {b \in Blocks : Piece(b) = i}

VARIABLES
    task,        \* "metadata" without it, "running", "unloaded"
    requested, stored,
    disk,        \* what the file has in the place of each block
    downloaded,  \* in blocks
    unchoked,    \* the connections that are said to be
    completes,   \* "complete" events
    peers,       \* of each peer: status of its connection, state of the
                 \* handshake, choked, bitfield, requests
    toPeer,      \* the requests each has yet to read
    asking,      \* set_metadata() has yet to call next() of these
    faults       \* how many of the bounded events happened

torrentVars == <<task, requested, stored, disk, downloaded, unchoked, completes,
                 peers, toPeer, asking, faults>>

TorrentInit ==
    /\ task = IF Magnet = {} THEN "running" ELSE "metadata"
    /\ requested = Blocks /\ stored = Blocks
    /\ disk = [b \in Blocks |-> "none"]
    /\ downloaded = 0 /\ unchoked = 0 /\ completes = 0
    /\ peers = [p \in Peers |-> [status |-> "unknown", shaken |-> FALSE,
                    choked |-> TRUE, bitfield |-> {}, requests |-> <<>>]]
    /\ toPeer = [p \in Peers |-> <<>>] /\ asking = {}
    /\ faults = [bad |-> 0, chokes |-> 0, closes |-> 0]

Open(p) == peers[p].status \in {"open", "closing"}
-----------------------------------------------------------------------------
(* Blocks: next(), pop_block(), release().                                 *)

\* A state of the task that an event goes through: the sets of the blocks, the
\* status, and for next() the connections.
Now == [requested |-> requested, stored |-> stored, peers |-> peers,
        toPeer |-> toPeer, task |-> task, downloaded |-> downloaded]

\* left() < THRESHOLD_END
AtEnd(s) == Cardinality(Blocks) - s.downloaded < ThresholdEnd

\* what pop_block() looks among: the blocks of the peer in the structure
Wanted(s, p) ==
    {b \in IF AtEnd(s) THEN s.stored ELSE s.requested :
        Piece(b) \in s.peers[p].bitfield}

\* the blocks of a set, in order
Nth(wanted, i) ==
    CHOOSE b \in wanted : Cardinality({d \in wanted : d < b}) = i - 1

\* the blocks that next() takes, `count` of them.  What is taken from `stored`
\* is not marked: the first of them is taken each time.
Taken(s, p, count) ==
    LET wanted == Wanted(s, p)
        least == IF count < Cardinality(wanted) THEN count ELSE Cardinality(wanted)
    IN  IF s.task # "running" \/ wanted = {} THEN <<>>
        ELSE IF AtEnd(s) THEN [i \in 1 .. count |-> Nth(wanted, 1)]
        ELSE [i \in 1 .. least |-> Nth(wanted, i)]

\* next() of the connection
Asked(s, p) ==
    LET count == MaxRequests - Len(s.peers[p].requests)
        taken == Taken(s, p, count)
    IN  IF s.peers[p].choked THEN s
        ELSE [s EXCEPT !.peers[p].requests = @ \o taken,
                       !.toPeer[p] = @ \o taken,
                       !.requested = IF AtEnd(s) THEN @
                                     ELSE @ \ ToSet(taken)]

\* mutant of Released: the requests are forgotten, not given back
ReleasedLost(s, p) == [s EXCEPT !.peers[p].requests = <<>>]

\* release(): the requests may be asked of others; an unloaded task has no place
\* for them
Released(s, p) ==
    [s EXCEPT !.requested = IF s.task = "unloaded" THEN @
                            ELSE @ \cup ToSet(s.peers[p].requests),
              !.peers[p].requests = <<>>]

Become(s) ==
    \E t \in {s} :
        /\ task' = t.task /\ requested' = t.requested /\ stored' = t.stored
        /\ peers' = t.peers /\ toPeer' = t.toPeer /\ downloaded' = t.downloaded
-----------------------------------------------------------------------------
(* Peers and connections.                                                  *)

\* add_peer() and connect_peers(), from the tracker, the DHT or the file
Discover(p) ==
    /\ task # "unloaded" /\ peers[p].status = "unknown"
    /\ Cardinality({q \in Peers : peers[q].status # "unknown"}) < MaxPeers
    /\ peers' = [peers EXCEPT ![p].status = "connecting"]
    /\ UNCHANGED <<task, requested, stored, disk, downloaded, unchoked,
                   completes, toPeer, faults>>

PeerOpen(p) ==
    /\ peers[p].status = "connecting"
    /\ peers' = [peers EXCEPT ![p].status = "open"]
    /\ UNCHANGED <<task, requested, stored, disk, downloaded, unchoked,
                   completes, toPeer, faults>>

\* on_handshake(), and bitfield_t(), the message that follows
Handshake(p) ==
    /\ Open(p) /\ ~peers[p].shaken
    /\ peers' = [peers EXCEPT ![p].shaken = TRUE, ![p].bitfield = Holds[p]]
    /\ UNCHANGED <<task, requested, stored, disk, downloaded, unchoked,
                   completes, toPeer, faults>>

\* unchoke_t()
Unchoke(p) ==
    LET s == [Now EXCEPT !.peers[p].choked = FALSE, !.peers[p].requests = <<>>]
    IN  /\ Open(p) /\ peers[p].shaken /\ peers[p].choked
        /\ Become(Asked(s, p))
        /\ unchoked' = unchoked + 1
        /\ UNCHANGED <<disk, completes, faults>>

\* choke_t()
Choke(p) ==
    /\ Open(p) /\ ~peers[p].choked /\ faults.chokes < MaxChokes
    /\ Become(Released([Now EXCEPT !.peers[p].choked = TRUE], p))
    /\ unchoked' = unchoked - 1
    /\ faults' = [faults EXCEPT !.chokes = @ + 1]
    /\ UNCHANGED <<disk, completes>>

\* close() of the connection: on_close() of the connection, then of the task
Gone(s, p) ==
    [Released(s, p) EXCEPT !.peers[p].status = "closed", !.toPeer[p] = <<>>]

\* The connection ends, cannot be made, or is_alive() finds it idle or slow; a
\* connection that unload() closes ends when it has sent what it had to send.
Close(p) ==
    /\ peers[p].status \in {"connecting", "open", "closing"}
    /\ peers[p].status = "closing" \/ faults.closes < MaxCloses
    /\ Become(Gone(Now, p))
    /\ unchoked' = IF peers[p].choked THEN unchoked ELSE unchoked - 1
    /\ faults' = IF peers[p].status = "closing" THEN faults
                 ELSE [faults EXCEPT !.closes = @ + 1]
    /\ UNCHANGED <<disk, completes>>
-----------------------------------------------------------------------------
(* Metadata (BEP 9).                                                       *)

\* extended_t(), on_extended_handshake() and on_metadata(): the last piece of the
\* metadata comes from a peer that has it
MetadataComes(p) == task = "metadata" /\ Open(p) /\ peers[p].shaken /\ p \in Magnet

\* mutant of SetMetadata: next() is called by the connections to come alone
SetMetadataIdle(p) ==
    /\ MetadataComes(p) /\ task' = "running"
    /\ UNCHANGED <<requested, stored, disk, downloaded, unchoked, completes,
                   peers, toPeer, asking, faults>>

\* set_metadata(), if it has the digest of the task: every connection is to ask
\* for blocks.
SetMetadata(p) ==
    /\ MetadataComes(p) /\ task' = "running"
    /\ asking' = {q \in Peers : Open(q)}
    /\ UNCHANGED <<requested, stored, disk, downloaded, unchoked, completes,
                   peers, toPeer, faults>>

\* Its loop calls next() of one of them; nothing else runs until it ends.
NextOf(p) ==
    /\ p \in asking /\ asking' = asking \ {p}
    /\ Become(Asked(Now, p))
    /\ UNCHANGED <<disk, unchoked, completes, faults>>

-----------------------------------------------------------------------------
(* Pieces.                                                                 *)

\* on_piece(): verify_piece(), and confirm_piece() or refute_piece()
Verified(s, d, i) ==
    IF \A b \in BlocksOf(i) : d[b] = "good"
    THEN [s EXCEPT !.downloaded = @ + Cardinality(BlocksOf(i))]
    ELSE [s EXCEPT !.requested = @ \cup BlocksOf(i),
                   !.stored = @ \cup BlocksOf(i)]

\* set_data(): a block that is stored is not written again; the last of a piece
\* has it verified, and with the last of all the task is unloaded: it closes
\* its connections when what they have to send is sent.
SetData(s, d, b) ==
    LET t == [s EXCEPT !.stored = @ \ {b}]
        u == IF t.stored \cap BlocksOf(Piece(b)) = {}
             THEN Verified(t, d, Piece(b)) ELSE t
    IN  IF u.stored # {} THEN u
        ELSE [u EXCEPT !.task = "unloaded", !.requested = {},
                       !.peers = [q \in Peers |->
                  IF u.peers[q].status \in {"connecting", "open"}
                  THEN [u.peers[q] EXCEPT !.status = "closing"] ELSE u.peers[q]]]

\* remove_request()
Answered(s, p, b) ==
    [s EXCEPT !.peers[p].requests =
        IF b \in ToSet(@) THEN RemoveFirst(@, b) ELSE @]

\* piece_t(): the peer reads a request and answers it, well or not
PieceT(p, data) ==
    LET b == Head(toPeer[p])
        keeps == task = "running" /\ b \in stored
        d == IF keeps THEN [disk EXCEPT ![b] = data] ELSE disk
        read == [Now EXCEPT !.toPeer[p] = Tail(@)]
    IN  /\ Open(p) /\ toPeer[p] # <<>> /\ ~peers[p].choked
        /\ data = "bad" => faults.bad < MaxBad
        /\ faults' = IF data = "bad" THEN [faults EXCEPT !.bad = @ + 1]
                     ELSE faults
        /\ disk' = d
        /\ \E s \in {IF keeps THEN SetData(read, d, b) ELSE read} :
              /\ completes' = IF s.task # task THEN completes + 1 ELSE completes
              /\ \E t \in {Answered(s, p, b)} : Become(Asked(t, p))
        /\ UNCHANGED unchoked

\* the peer reads a request while it chokes
Discard(p) ==
    /\ Open(p) /\ toPeer[p] # <<>> /\ peers[p].choked
    /\ toPeer' = [toPeer EXCEPT ![p] = Tail(@)]
    /\ UNCHANGED <<task, requested, stored, disk, downloaded, unchoked,
                   completes, peers, faults>>

TorrentNext ==
    \E p \in Peers :
        \/ NextOf(p)
        \/ asking = {} /\ SetMetadata(p)
        \/ /\ asking = {} /\ UNCHANGED asking
           /\ \/ Discover(p) \/ PeerOpen(p) \/ Handshake(p)
              \/ Unchoke(p) \/ Choke(p) \/ Close(p)
              \/ \E data \in {"good", "bad"} : PieceT(p, data)
              \/ Discard(p)

Serving(action) == asking = {} /\ action /\ UNCHANGED asking

\* the peers that are found shake hands, answer, and do not choke for ever
TorrentFairness ==
    \A p \in Peers :
        /\ WF_torrentVars(NextOf(p))
        /\ WF_torrentVars(asking = {} /\ SetMetadata(p))
        /\ WF_torrentVars(Serving(PeerOpen(p)))
        /\ WF_torrentVars(Serving(Handshake(p)))
        /\ WF_torrentVars(Serving(Unchoke(p)))
        /\ WF_torrentVars(Serving(PieceT(p, "good")))
-----------------------------------------------------------------------------
(* Properties.                                                             *)

InFlight == UNION {ToSet(peers[p].requests) : p \in Peers}

\* A block that the file lacks may be asked of a peer, or a connection waits for
\* it: chokes, closes and refuted pieces lose none.
NoLostBlock ==
    task = "running" => stored \subseteq requested \cup InFlight

\* What counts as downloaded is the verified pieces, whose blocks nothing
\* writes over; "complete" comes once, when that is all of them.
CompleteIsVerified ==
    LET pieces == {i \in 0 .. NumberPieces - 1 : BlocksOf(i) \cap stored = {}}
        blocks == UNION {BlocksOf(i) : i \in pieces}
    IN  /\ \A b \in blocks : disk[b] = "good"
        /\ downloaded = Cardinality(blocks)
        /\ completes = IF stored = {} THEN 1 ELSE 0
        /\ (stored = {}) = (task = "unloaded")

\* With a peer that has the metadata and all of the pieces, and if no connection
\* closes, the download completes: what a choke or a refuted piece gives back is
\* asked for again.
EventuallyComplete ==
    (\E p \in Magnet : peers[p].status # "unknown" /\ Holds[p] = 0 .. NumberPieces - 1)
        ~> task = "unloaded" \/ faults.closes > 0

\* What is downloaded is right, and what is not can still be asked for.
TorrentSafety == NoLostBlock /\ CompleteIsVerified
=============================================================================
