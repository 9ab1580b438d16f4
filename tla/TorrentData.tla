----------------------------- MODULE TorrentData ----------------------------
(***************************************************************************)
(* The data of a torrent.  Its files as one stream of bytes                *)
(* (common/stream.py), and the blocks and pieces it is written and         *)
(* verified in, the last ones shorter (Pieces of servers/torrent.py).      *)
(* What comes from a peer (common/torrent.py): the parser of its messages, *)
(* each after its length, which gets the stream cut anywhere and keeps     *)
(* what it cannot use yet; and bencoding, of which the hash of a torrent   *)
(* is taken.                                                               *)
(***************************************************************************)
EXTENDS Integers, SequencesExt

CONSTANTS
    Layouts,        \* what may be downloaded: the lengths of its files
    BlockSize,      \* BLOCK_SIZE
    PieceBlocks,    \* number_blocks: how many blocks a piece has
    MaxBad,         \* bound: how many blocks come with wrong data
    HandshakeSize,  \* HANDSHAKE_SIZE
    LengthSize,     \* 4: the bytes of a length
    Lengths,        \* the lengths of messages, 0 of a keep-alive
    MaxSent,        \* bound: how many messages the peer sends
    Roots           \* the values that are encoded

ASSUME FilesAssumption ==
    /\ BlockSize \in Nat \ {0} /\ PieceBlocks \in Nat \ {0}
    /\ Layouts \subseteq Seq(Nat \ {0}) /\ MaxBad \in Nat

ASSUME ParserAssumption ==
    /\ HandshakeSize \in Nat \ {0} /\ LengthSize \in Nat \ {0}
    /\ Lengths \subseteq Nat /\ MaxSent \in Nat

\* files: what each of them holds; offset: where the stream is; mask: the blocks
\* that are missing; piece and read: what is verified and what was read of it;
\* whole: the stream as it should be; bad: the blocks that came with wrong data
VARIABLE store
storeVars == <<store>>

VARIABLES
    feed,       \* the lengths the peer sent, what of it is on its way, the parser
    bencoding   \* the value, what was written and what was read
torrentParserVars == <<feed, bencoding>>

-----------------------------------------------------------------------------
(* The files.                                                              *)

Total == Len(FlattenSeq(store.files))
Zeros(n) == [i \in 1 .. n |-> 0]

-----------------------------------------------------------------------------
(* Pieces.                                                                 *)

PieceLength == PieceBlocks * BlockSize
CeilDiv(m, n) == (m + n - 1) \div n
NumberPieces == CeilDiv(Total, PieceLength)

\* piece_size(), piece_blocks() and block_size()
PieceSize(index) ==
    IF index < NumberPieces - 1 \/ Total % PieceLength = 0 THEN PieceLength
    ELSE Total % PieceLength
PieceBlocksOf(index) == CeilDiv(PieceSize(index), BlockSize)
FinalBlocks == PieceBlocksOf(NumberPieces - 1)
BlockLength(index, begin) ==
    IF index = NumberPieces - 1 /\ begin \div BlockSize = FinalBlocks - 1
       /\ PieceSize(index) % BlockSize # 0
    THEN PieceSize(index) % BlockSize ELSE BlockSize

Blocks == {<<index, begin>> \in (0 .. NumberPieces - 1)
                                \X {BlockSize * i : i \in 0 .. PieceBlocks - 1} :
              begin < PieceSize(index)}

\* update_piece(): if nothing of it is missing
PieceDone(index, mask) == \A b \in mask : b[1] # index

-----------------------------------------------------------------------------
(* The stream: from the file of number k, which begins at an offset.       *)

Smaller(m, n) == IF m < n THEN m ELSE n

\* the loop of write()
RECURSIVE WriteFiles(_, _, _, _, _)
WriteFiles(files, k, fileOffset, offset, data) ==
    LET size == Len(files[k])
        start == offset - fileOffset
        count == Smaller(size, start + Len(data)) - start
        written == [files EXCEPT ![k] =
            [i \in 1 .. size |-> IF i \in start + 1 .. start + count
                                 THEN data[i - start] ELSE @[i]]]
    IN  IF k > Len(files) THEN files
        ELSE IF start >= size
        THEN WriteFiles(files, k + 1, fileOffset + size, offset, data)
        ELSE IF count = Len(data) THEN written
        ELSE WriteFiles(written, k + 1, fileOffset + size, offset + count,
                        SubSeq(data, count + 1, Len(data)))

\* the loop of read()
RECURSIVE ReadFiles(_, _, _, _)
ReadFiles(k, fileOffset, offset, pending) ==
    LET size == Len(store.files[k])
        start == offset - fileOffset
        count == Smaller(size, start + pending) - start
        chunk == SubSeq(store.files[k], start + 1, start + count)
    IN  IF k > Len(store.files) THEN <<>>
        ELSE IF start >= size THEN ReadFiles(k + 1, fileOffset + size, offset, pending)
        ELSE IF count = pending THEN chunk
        ELSE chunk \o ReadFiles(k + 1, fileOffset + size, offset + count, pending - count)

\* open(): each file has its size
FilesInit ==
    \E layout \in Layouts :
        LET files == [k \in 1 .. Len(layout) |-> Zeros(layout[k])]
        IN  store = [files |-> files, offset |-> 0, mask |-> {}, stage |-> "opened",
                     piece |-> 0, read |-> <<>>, whole |-> FlattenSeq(files), bad |-> 0]

\* load_pieces(): every block is missing
LoadPieces ==
    /\ store.stage = "opened"
    /\ store' = [store EXCEPT !.stage = "loaded", !.mask = Blocks]

\* set_data() of a block that is missing, in any order: seek(), write() and
\* mark_block(), which begins to verify the piece if that was its last
SetData(index, begin, good) ==
    LET at == index * PieceLength + begin
        data == [i \in 1 .. BlockLength(index, begin) |-> IF good THEN at + i ELSE 0]
        mask == store.mask \ {<<index, begin>>}
        done == PieceDone(index, mask)
    IN  /\ store.stage = "loaded" /\ <<index, begin>> \in store.mask
        /\ good \/ store.bad < MaxBad
        /\ store' = [store EXCEPT
               !.files = WriteFiles(@, 1, 0, at, data),
               !.offset = IF done THEN index * PieceLength ELSE Smaller(Total, at + Len(data)),
               !.mask = mask,
               !.stage = IF done THEN "verifying" ELSE "loaded",
               !.piece = index, !.read = <<>>,
               !.whole = [i \in 1 .. Len(@) |->
                             IF i \in at + 1 .. at + Len(data) THEN data[i - at] ELSE @[i]],
               !.bad = IF good THEN @ ELSE @ + 1]

\* _verify_piece(): a block at a time; confirm_piece() or refute_piece()
PieceBytes(index) ==
    [i \in 1 .. PieceSize(index) |-> index * PieceLength + i]
VerifyPiece ==
    LET pending == PieceSize(store.piece) - Len(store.read)
        count == Smaller(pending, BlockSize)
    IN  /\ store.stage = "verifying"
        /\ store' =
             IF pending > 0
             THEN [store EXCEPT !.read = @ \o ReadFiles(1, 0, store.offset, count),
                                !.offset = Smaller(Total, @ + count)]
             ELSE IF store.read = PieceBytes(store.piece)
             THEN [store EXCEPT !.stage = "loaded"]
             ELSE [store EXCEPT !.stage = "loaded",
                                !.mask = @ \cup {b \in Blocks : b[1] = store.piece}]

FilesNext ==
    \/ LoadPieces \/ VerifyPiece
    \/ \E index \in 0 .. NumberPieces - 1, i \in 0 .. PieceBlocks - 1, good \in BOOLEAN :
           SetData(index, i * BlockSize, good)

-----------------------------------------------------------------------------
(* Properties of the files.                                                *)

\* the files are the stream, cut where they end, whatever came in which order
Together == FlattenSeq(store.files) = store.whole

\* when no block is missing, no byte is, nor wrong
Complete ==
    store.stage = "loaded" /\ store.mask = {} =>
        \A i \in 1 .. Len(store.whole) : store.whole[i] = i

\* what is read of a piece is what was written there
ReadBack ==
    \A i \in 1 .. Len(store.read) :
        store.stage = "verifying" => store.read[i] = store.whole[store.piece * PieceLength + i]

FilesSafety == Together /\ Complete /\ ReadBack

-----------------------------------------------------------------------------
(* The messages.  Byte k of message m is <<m, k>>, the handshake is message *)
(* 0; the first bytes of the others are their length.                      *)

BytesOf(m, n) == [k \in 1 .. n |-> <<m, k>>]
LengthOf(m) == feed.sent[m]

\* state: of the connection; length: of the message, -1 for None
FeedInit ==
    feed = [sent |-> <<>>, wire |-> BytesOf(0, HandshakeSize), state |-> "handshake",
            length |-> -1, buffer |-> <<>>, told |-> <<>>, owner |-> TRUE]

PeerSends(n) ==
    /\ Len(feed.sent) < MaxSent
    /\ feed' = [feed EXCEPT !.sent = Append(@, n),
                            !.wire = @ \o BytesOf(Len(feed.sent) + 1, LengthSize + n)]

\* what a parsing method makes of the parser f and some data: the parser, and how
\* many bytes it used
Used(f, count) == [parser |-> f, count |-> count]

\* _join(): as many bytes as are missing until so many
Missing(f, n) == IF Len(f.buffer) < n THEN n - Len(f.buffer) ELSE 0
JoinUpTo(f, data, n) == f.buffer \o SubSeq(data, 1, Missing(f, n))

\* the owner is told: a message may make it close, which destroys the parser
Told(f, bytes, closes) ==
    [f EXCEPT !.told = Append(@, bytes), !.length = -1, !.buffer = <<>>,
              !.owner = ~closes]

\* _parse_handshake()
ParseHandshake(f, data) ==
    IF Len(data) + Len(f.buffer) < HandshakeSize THEN Used(f, 0)
    ELSE Used([Told(f, JoinUpTo(f, data, HandshakeSize), FALSE) EXCEPT !.state = "normal"],
              Missing(f, HandshakeSize))

\* the length that comes first, if it is one
ReadLength(bytes) ==
    IF bytes = BytesOf(bytes[1][1], LengthSize) THEN LengthOf(bytes[1][1]) ELSE 0

\* the rest of _parse_message(), once the length is known
ParseRest(f, data, used, closes) ==
    LET size == f.length + LengthSize
    IN  IF Len(data) + Len(f.buffer) < size THEN Used(f, used)
        ELSE Used(Told(f, JoinUpTo(f, data, size), closes), used + Missing(f, size))

\* _parse_message()
ParseMessage(f, data, closes) ==
    IF f.length # -1 THEN ParseRest(f, data, 0, closes)
    ELSE IF Len(data) + Len(f.buffer) < LengthSize THEN Used(f, 0)
    ELSE LET missing == Missing(f, LengthSize)
             bytes == JoinUpTo(f, data, LengthSize)
         IN  ParseRest([f EXCEPT !.buffer = bytes, !.length = ReadLength(bytes)],
                       SubSeq(data, missing + 1, Len(data)), missing, closes)

\* the loop of parse(): what is left goes to the buffer
RECURSIVE ParseLoop(_, _, _)
ParseLoop(f, data, closes) ==
    LET u == IF f.state = "handshake" THEN ParseHandshake(f, data)
             ELSE ParseMessage(f, data, closes)
    IN  IF data = <<>> THEN f
        ELSE IF ~f.owner THEN [f EXCEPT !.buffer = @ \o data]
        ELSE IF u.count = 0 THEN [u.parser EXCEPT !.buffer = @ \o data]
        ELSE ParseLoop(u.parser, SubSeq(data, u.count + 1, Len(data)), closes)

\* on_data() with the next bytes
Parse(n, closes) ==
    /\ feed.owner /\ n \in 1 .. Len(feed.wire)
    /\ feed' = ParseLoop([feed EXCEPT !.wire = SubSeq(@, n + 1, Len(@))],
                         SubSeq(feed.wire, 1, n), closes)

-----------------------------------------------------------------------------
(* Bencoding, of integers, texts, lists and dictionaries, which are kept   *)
(* in the order of their keys.  A text is a sequence of characters.        *)

Value(kind, number, text, items) ==
    [kind |-> kind, number |-> number, text |-> text, items |-> items]

RECURSIVE DecimalOf(_)
DecimalOf(n) ==
    IF n < 10 THEN <<ToString(n)>> ELSE DecimalOf(n \div 10) \o <<ToString(n % 10)>>
Decimal(n) == IF n < 0 THEN <<"-">> \o DecimalOf(-n) ELSE DecimalOf(n)
Figures == {ToString(n) : n \in 0 .. 9}
FigureOf(c) == CHOOSE n \in 0 .. 9 : ToString(n) = c

\* int()
NumberOf(text) ==
    LET n == FoldLeft(LAMBDA m, c : m * 10 + FigureOf(c), 0, SelectSeq(text, LAMBDA c : c # "-"))
    IN  IF text[1] = "-" THEN -n ELSE n

\* chunk()
RECURSIVE Chunk(_)
Chunk(v) ==
    LET Items == FlattenSeq([i \in 1 .. Len(v.items) |-> Chunk(v.items[i])])
    IN  CASE v.kind = "int" -> <<"i">> \o Decimal(v.number) \o <<"e">>
          [] v.kind = "text" -> Decimal(Len(v.text)) \o <<":">> \o v.text
          [] v.kind = "list" -> <<"l">> \o Items \o <<"e">>
          [] v.kind = "dict" -> <<"d">> \o Items \o <<"e">>

\* how many characters come before the first end
UntilEnd(chars) ==
    CHOOSE n \in 0 .. Len(chars) - 1 : chars[n + 1] = "e" /\ \A i \in 1 .. n : chars[i] # "e"

From(s, n) == SubSeq(s, n, Len(s))
Got(value, rest) == [value |-> value, rest |-> rest]

\* dechunk(): the value and what is left; the items up to the end
RECURSIVE Dechunk(_), DechunkItems(_)
Dechunk(chars) ==
    LET first == Head(chars)  items == DechunkItems(Tail(chars))
        figures == UntilEnd(Tail(chars))
        size == CHOOSE n \in 1 .. Len(chars) - 1 :
            chars[n + 1] \notin Figures /\ \A i \in 1 .. n : chars[i] \in Figures
        length == NumberOf(SubSeq(chars, 1, size))
    IN  CASE first \in {"d", "l"} ->
                Got(Value(IF first = "d" THEN "dict" ELSE "list", 0, <<>>, items.value),
                    items.rest)
          [] first = "i" ->
                Got(Value("int", NumberOf(SubSeq(chars, 2, figures + 1)), <<>>, <<>>),
                    From(chars, figures + 3))
          [] first \in Figures ->
                Got(Value("text", 0, SubSeq(chars, size + 2, size + 1 + length), <<>>),
                    From(chars, size + 2 + length))
DechunkItems(chars) ==
    IF Head(chars) = "e" THEN Got(<<>>, Tail(chars))
    ELSE LET item == Dechunk(chars)  others == DechunkItems(item.rest)
         IN  Got(<<item.value>> \o others.value, others.rest)

BencodingInit ==
    bencoding \in [root : Roots, stage : {"value"}, data : {<<>>}, read : {<<>>}]

\* bencode() and bdecode()
Bencode ==
    /\ bencoding.stage = "value"
    /\ bencoding' = [bencoding EXCEPT !.stage = "data", !.data = Chunk(bencoding.root)]
Bdecode ==
    /\ bencoding.stage = "data"
    /\ bencoding' = [bencoding EXCEPT !.stage = "read",
                                      !.read = <<Dechunk(bencoding.data).value>>]

TorrentParserInit == FeedInit /\ BencodingInit

FeedNext ==
    \/ \E n \in Lengths : PeerSends(n)
    \/ \E n \in 1 .. Len(feed.wire), closes \in BOOLEAN : Parse(n, closes)
BencodingNext == Bencode \/ Bdecode

-----------------------------------------------------------------------------
(* Properties of what comes.                                               *)

MessageBytes(m) ==
    IF m = 0 THEN BytesOf(0, HandshakeSize) ELSE BytesOf(m, LengthSize + LengthOf(m))

\* every message is told once, whole and in order, whatever the cuts, and as soon
\* as it came; after the connection is closed nothing is
ToldWhole ==
    /\ feed.told = [i \in 1 .. Len(feed.told) |-> MessageBytes(i - 1)]
    /\ feed.owner /\ Len(feed.told) <= Len(feed.sent) =>
           Len(feed.buffer) < Len(MessageBytes(Len(feed.told)))

\* no byte is lost between what is told, kept and on its way
NoByteLost ==
    FlattenSeq(feed.told) \o feed.buffer \o feed.wire =
        FlattenSeq([i \in 1 .. Len(feed.sent) + 1 |-> MessageBytes(i - 1)])

\* what is read is what was written, and is written the same again
BencodeInverse ==
    bencoding.stage = "read" =>
        /\ bencoding.read = <<bencoding.root>>
        /\ Chunk(bencoding.read[1]) = bencoding.data

TorrentParserSafety == ToldWhole /\ NoByteLost /\ BencodeInverse
=============================================================================
