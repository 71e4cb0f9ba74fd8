-------------------------------- MODULE MCXz --------------------------------
(***************************************************************************)
(* Streams for Xz, put together from blocks, chunks and symbols, with all  *)
(* sizes and checksums right: every order of chunks with every kind of     *)
(* reset, right and wrong ones; symbols of every kind after each other;    *)
(* one block or several, filtered, with and without sizes and check.  What *)
(* they stand for is said by Text, which decodes by the description of the *)
(* format.  Then streams with one byte changed, cut off, or with a block   *)
(* more, less or in another place.                                         *)
(***************************************************************************)
EXTENDS Xz

VARIABLES
  text,      (* what the payload stands for                                 *)
  kind       (* "whole", "damaged", or "wrong": made with right checksums   *)
             (* around chunks or sizes that are not                         *)

mcVars == <<vars, text, kind>>
-----------------------------------------------------------------------------
(* Symbols: <<"lit", byte>>, <<"match", distance, length>>, a distance used *)
(* before <<"rep", which, length>>, <<"short">>; and any but a literal as   *)
(* one that leaves a byte due, <<"due", symbol>>, whatever the byte is.     *)
Lit(b) == <<"lit", b>>
MatchSym(dist, len) == <<"match", dist, len>>
Rep(which, len) == <<"rep", which, len>>
Short == <<"short">>
Due(s) == <<"due", s>>

Kind(s) == IF s[1] = "due" THEN s[2] ELSE s

RECURSIVE SymbolBytes(_)
SymbolBytes(s) ==
  CASE s[1] = "lit" -> <<s[2]>>
    [] s[1] = "match" -> <<128 + s[3] - 2, s[2]>>
    [] s[1] = "rep" -> <<160 + 4 * s[2] + s[3] - 2>>
    [] s[1] = "short" -> <<192>>
    [] s[1] = "due" -> LET b == SymbolBytes(s[2]) IN [b EXCEPT ![1] = @ + 16] \o <<255>>

(* The text so far and the distances in use, the latest first. *)
Nothing == [text |-> <<>>, recent |-> <<0, 0, 0, 0>>]

RECURSIVE CopyOne(_, _, _)
CopyOne(t, dist, n) ==
  IF n = 0 THEN t ELSE CopyOne(Append(t, t[Len(t) - dist]), dist, n - 1)

TakeSymbol(acc, symbol) ==
  LET r == acc.recent
      s == Kind(symbol)
  IN CASE s[1] = "lit" -> [acc EXCEPT !.text = Append(@, s[2])]
       [] s[1] = "match" -> [text |-> CopyOne(acc.text, s[2], s[3]),
                             recent |-> <<s[2], r[1], r[2], r[3]>>]
       [] s[1] = "rep" ->
            [text |-> CopyOne(acc.text, r[s[2] + 1], s[3]),
             recent |-> CASE s[2] = 0 -> r
                          [] s[2] = 1 -> <<r[2], r[1], r[3], r[4]>>
                          [] s[2] = 2 -> <<r[3], r[1], r[2], r[4]>>
                          [] s[2] = 3 -> <<r[4], r[1], r[2], r[3]>>]
       [] s[1] = "short" -> [acc EXCEPT !.text = CopyOne(@, r[1], 1)]

TakeSymbols(acc, symbols) == FoldLeft(TakeSymbol, acc, symbols)
-----------------------------------------------------------------------------
(* Chunks: what they reset, and the symbols or, for a copy, the bytes. *)
Chunk(control, symbols) == [control |-> control, symbols |-> symbols]

LenBytes(n) == <<(n - 1) \div 256, (n - 1) % 256>>

IsCopy(c) == c.control \in {1, 2}

SymbolSize(symbol) ==
  LET s == Kind(symbol) IN CASE s[1] \in {"lit", "short"} -> 1 [] OTHER -> s[3]

DecodedSize(c) == FoldLeft(LAMBDA n, s : n + SymbolSize(s), 0, c.symbols)

SizeOf(chunks) == FoldLeft(LAMBDA n, c : n + DecodedSize(c), 0, chunks)

ChunkBytes(c) ==
  LET data == FlattenSeq([i \in 1 .. Len(c.symbols) |-> SymbolBytes(c.symbols[i])])
  IN IF IsCopy(c)
     THEN <<c.control>> \o LenBytes(Len(data)) \o data
     ELSE <<c.control>> \o LenBytes(DecodedSize(c)) \o LenBytes(5 + Len(data))
            \o (IF c.control >= 192 THEN <<93>> ELSE <<>>)
            \o <<0, 0, 0, 0, 0>> \o data

BlockData(chunks) ==
  FlattenSeq([i \in 1 .. Len(chunks) |-> ChunkBytes(chunks[i])]) \o <<0>>

TakeChunk(acc, c) ==
  TakeSymbols(IF c.control >= 160 THEN [acc EXCEPT !.recent = <<0, 0, 0, 0>>] ELSE acc,
              c.symbols)

Text(chunks) == FoldLeft(TakeChunk, Nothing, chunks).text

(* The dictionary is reset first of all; and after the last reset of it,   *)
(* the properties are set before a chunk relies on them.                   *)
Legal(chunks) ==
  /\ chunks # <<>> => chunks[1].control \in {1, 224}
  /\ \A i \in 1 .. Len(chunks) : chunks[i].control \in {128, 160} =>
       \E j \in 1 .. i - 1 : /\ chunks[j].control \in {192, 224}
                             /\ \A k \in j + 1 .. i : chunks[k].control # 1
-----------------------------------------------------------------------------
(* Blocks and streams.  A block's header may give its sizes, or wrong ones; *)
(* its properties give a dictionary of eight bytes.                         *)
Block(chunks, f, sizes) ==
  [chunks |-> chunks, filter |-> f, sizes |-> sizes, props |-> 2]

Plain(chunks) == Block(chunks, 0, "none")

WordBytes(w) ==
  [k \in 1 .. 4 |->
     FoldLeft(LAMBDA n, b : IF 8 * (k - 1) + b \in w THEN n + 2 ^ b ELSE n, 0,
              [b \in 1 .. 8 |-> b - 1])]

CrcBytes(s) == WordBytes(Crc32(s))

Zeros(n) == [i \in 1 .. n |-> 0]

Padded(s) == s \o Zeros((4 - (Len(s) % 4)) % 4)

VliBytes(n) == IF n < 128 THEN <<n>> ELSE <<128 + (n % 128), n \div 128>>

(* What a block decodes to before its filter. *)
BlockText(b) == IF b.filter = 0 THEN Text(b.chunks) ELSE Filtered(b.filter, Text(b.chunks))

HeaderBytes(b, data) ==
  LET off == [right |-> <<0, 0>>, less |-> <<-1, 0>>, more |-> <<1, 0>>,
              lessOut |-> <<0, -1>>, moreOut |-> <<0, 1>>]
      sizes == IF b.sizes = "none" THEN <<>>
               ELSE VliBytes(Len(data) + off[b.sizes][1])
                      \o VliBytes(SizeOf(b.chunks) + off[b.sizes][2])
      flags == (IF b.sizes = "none" THEN 0 ELSE 192) + IF b.filter = 0 THEN 0 ELSE 1
      body == <<flags>> \o sizes \o (IF b.filter = 0 THEN <<>> ELSE <<b.filter, 0>>)
                \o <<33, 1, b.props>>
      size == (Len(body) + 4) \div 4
      all == <<size>> \o body \o Zeros(4 * size - 1 - Len(body))
  IN all \o CrcBytes(all)

CheckBytes(check, b) == IF check = 1 THEN CrcBytes(BlockText(b)) ELSE <<>>

BlockBytes(check, b) ==
  LET data == BlockData(b.chunks)
  IN HeaderBytes(b, data) \o Padded(data) \o CheckBytes(check, b)

Record(check, b) ==
  LET data == BlockData(b.chunks)
  IN VliBytes(Len(HeaderBytes(b, data)) + Len(data) + 4 * check)
       \o VliBytes(SizeOf(b.chunks))

All(F(_), s) == FlattenSeq([i \in 1 .. Len(s) |-> F(s[i])])

StartBytes(check) == Magic \o <<0, check>> \o CrcBytes(<<0, check>>)

EndBytes(check, listed) ==
  LET i == Padded(<<0, Len(listed)>> \o All(LAMBDA b : Record(check, b), listed))
      end == <<Len(i) \div 4, 0, 0, 0, 0, check>>
  IN i \o CrcBytes(i) \o CrcBytes(end) \o end \o <<89, 90>>

(* The blocks that are there need not be those that are listed. *)
Stream2(check, there, listed) ==
  StartBytes(check) \o All(LAMBDA b : BlockBytes(check, b), there) \o EndBytes(check, listed)

Stream(check, bs) == Stream2(check, bs, bs)

StreamText(bs) == All(BlockText, bs)
-----------------------------------------------------------------------------
(* Every symbol after every other, after two literals. *)
Ab == <<Lit(97), Lit(98)>>

SomeSymbols == {Lit(99), MatchSym(0, 2), MatchSym(1, 3), Rep(0, 2), Rep(1, 2),
                Rep(2, 3), Rep(3, 2), Short, Due(MatchSym(1, 3)), Due(Short)}

SymbolBlocks ==
  {<<Plain(<<Chunk(224, Ab \o s)>>)>> : s \in [1 .. 3 -> SomeSymbols]}

(* Distances from before the text, and beyond the dictionary. *)
TooFar == {Ab \o <<MatchSym(2, 2)>>,
           [i \in 1 .. 9 |-> Lit(i)] \o <<MatchSym(8, 2)>>}

(* A chunk of symbols ends with a match, so that what it leaves behind      *)
(* matters to the next one.                                                 *)
Content(control, n) ==
  IF control \in {1, 2} THEN <<Lit(100 + n)>>
  ELSE IF control = 128 THEN <<Lit(100 + n), Rep(1, 2)>>
  ELSE <<Lit(100 + n), Lit(110), MatchSym(1, 2)>>

ChunksOf(controls) ==
  [i \in 1 .. Len(controls) |-> Chunk(controls[i], Content(controls[i], i))]

Controls == {1, 2, 128, 160, 192, 224}

ChunkOrders == {ChunksOf(s) : s \in UNION {[1 .. n -> Controls] : n \in 0 .. 3}}

(* Text with branches in it, for each filter. *)
Branches(f) ==
  IF f = BCJ_ARM THEN <<3, 0, 0, 235, 0, 0, 0, 10, 1, 0, 0, 235>>
  ELSE IF f = BCJ_ARMTHUMB THEN <<0, 240, 9, 248, 1, 240, 2, 240, 0, 248, 0>>
  ELSE <<5, 0, 0, 148, 9, 0, 0, 208, 1, 0, 0, 151, 9, 8, 255, 176>>

Copied(bytes) == Chunk(1, [i \in 1 .. Len(bytes) |-> Lit(bytes[i])])

(* A block that is filtered and then repeats itself. *)
FilteredBlock(f, sizes) ==
  Block(<<Copied(Branches(f)), Chunk(192, <<Lit(65), Lit(66), MatchSym(0, 3)>>)>>,
        f, sizes)

Small(sizes) == Block(<<Chunk(224, Ab \o <<MatchSym(1, 4)>>), Chunk(2, Ab)>>, 0, sizes)

Letters == Block(<<Copied(<<88, 89, 90>>)>>, 0, "right")

SomeStreams ==
  {<<Letters>>, <<Small("right")>>, <<Small("none"), Letters>>, <<Plain(<<>>)>>, <<>>,
   <<Letters, Small("right"), Letters>>}
    \cup {<<FilteredBlock(f, b)>> : f \in Filters, b \in {"none", "right"}}
    \cup {<<Small("right"), FilteredBlock(f, "none")>> : f \in Filters}
-----------------------------------------------------------------------------
Damages(s) ==
  {[s EXCEPT ![i] = 0] : i \in 1 .. Len(s)}
    \cup {[s EXCEPT ![i] = (@ + 1) % 256] : i \in 1 .. Len(s)}
    \cup {[s EXCEPT ![i] = (@ + 128) % 256] : i \in 1 .. Len(s)}
    \cup {SubSeq(s, 1, i) : i \in 0 .. Len(s) - 1}

(* The blocks of another stream than the index lists. *)
Shuffles(bs) ==
  {Stream2(1, there, bs) :
     there \in {Reverse(bs), Front(bs), bs \o <<Letters>>, <<Small("right")>>} \ {bs}}

(* Chunks in a wrong order, distances out of range, sizes that are wrong. *)
WrongStreams ==
  {<<Plain(cs)>> : cs \in {c \in ChunkOrders : ~Legal(c)}}
    \cup {<<Plain(<<[control |-> 224, symbols |-> s]>>)>> : s \in TooFar}
    \cup {<<Letters, Small(w)>> : w \in {"less", "more", "lessOut", "moreOut"}}

DamagedStreams ==
  {<<Letters>>, <<Small("right")>>, <<FilteredBlock(CHOOSE f \in Filters : TRUE, "none")>>}

(* Cut off with too little room: symbols of one byte each, and of the most, *)
(* which with the byte they leave due take all that is required; and with a *)
(* chunk that says it has a byte more of text than its symbols give.        *)
OneChunk(symbols) == <<Plain(<<Chunk(224, symbols)>>)>>

CutStreams ==
  {OneChunk([i \in 1 .. 5 |-> Lit(64 + i)]),
   OneChunk(Ab \o [i \in 1 .. 4 |-> Due(IF i % 2 = 1 THEN Short ELSE MatchSym(1, 3))])}

MoreText(s, n) == [s EXCEPT ![27] = @ + n] (* the size in the chunk's header *)

ShuffledStreams == {<<Letters, Small("right")>>, <<Small("none"), Letters, Letters>>}

Ceilings(n) == {n, n + 1} \cup (IF n = 0 THEN {} ELSE {n - 1})

(* What follows a stream: nothing, the size a build tool adds, a stream. *)
Rests == {<<>>, <<5, 0, 0, 0>>, Stream(1, <<Letters>>)}

MCInputs == {} (* XInit chooses them *)

XInit ==
  \/ /\ kind = "whole"
     /\ \/ \E bs \in SymbolBlocks : \E size \in Ceilings(Len(StreamText(bs))) :
             text = StreamText(bs) /\ InitWith(Stream(1, bs), size)
        \/ \E bs \in SomeStreams, check \in {0, 1}, rest \in Rests :
             \E size \in Ceilings(Len(StreamText(bs))) :
               text = StreamText(bs) /\ InitWith(Stream(check, bs) \o rest, size)
        \/ \E cs \in {c \in ChunkOrders : Legal(c)} :
             text = Text(cs) /\ InitWith(Stream(0, <<Plain(cs)>>), Len(text))
  \/ /\ kind = "wrong"
     /\ text = <<>>
     /\ \E bs \in WrongStreams : InitWith(Stream(0, bs), 30)
  \/ /\ kind = "damaged"
     /\ \/ \E bs \in DamagedStreams : \E s \in Damages(Stream(1, bs)) :
             text = StreamText(bs) /\ InitWith(s, Len(text) + 1)
        \/ \E bs \in CutStreams :
             \E size \in 1 .. Len(StreamText(bs)) + 1, n \in {0, 1},
                i \in 24 .. Len(Stream(1, bs)) - 1 :
               /\ text = StreamText(bs)
               /\ InitWith(SubSeq(MoreText(Stream(1, bs), n), 1, i), size)
        \/ \E bs \in ShuffledStreams : \E s \in Shuffles(bs) :
             text = StreamText(bs) /\ InitWith(s, Len(text) + 5)

XNext == Next /\ UNCHANGED <<text, kind>>

XSpec == XInit /\ [][XNext]_mcVars
-----------------------------------------------------------------------------
(* A stream whose chunks are in a right order is decoded to exactly what it *)
(* stands for if that fits, and is refused as too large otherwise; one with *)
(* a chunk that relies on what was reset before it is refused as invalid.   *)
WholeDecoded ==
  pc = "returned" =>
    /\ kind = "whole" =>
         IF Len(text) <= dstSize
         THEN ret = "OK" /\ out = text /\ outSize = Len(text)
         ELSE ret = "NOSPACE"
    /\ kind = "wrong" => ret = "INVALID"

(* A stream with a CRC that was damaged in one place, has lost its end, or  *)
(* has other blocks than its index lists, is accepted only if its text came *)
(* out all the same.                                                        *)
DamageNoticed == kind = "damaged" /\ ret = "OK" => out = text

(* The streams built here are those xz writes: of nothing, of a text that it *)
(* leaves as it is, and of one that went through its filter for ARM.         *)
AsXz(bytes, f, props) == <<[Plain(<<Copied(bytes)>>) EXCEPT !.filter = f, !.props = props]>>

ASSUME BuiltAsXzDoes ==
  /\ Stream(1, <<>>) = <<253, 55, 122, 88, 90, 0, 0, 1, 105, 34, 222, 54, 0, 0, 0,
       0, 28, 223, 68, 33, 144, 66, 153, 13, 1, 0, 0, 0, 0, 1, 89, 90>>
  /\ Stream(0, AsXz(<<65, 66, 67>>, 0, 22)) = <<253, 55, 122, 88, 90, 0, 0, 0, 255,
       18, 217, 65, 2, 0, 33, 1, 22, 0, 0, 0, 116, 47, 229, 163, 1, 0, 2, 65, 66,
       67, 0, 0, 0, 1, 19, 3, 3, 165, 96, 216, 6, 114, 158, 122, 1, 0, 0, 0, 0, 0,
       89, 90>>
  /\ Stream(1, AsXz(<<3, 2, 3, 235, 7, 5, 6, 235, 4, 0, 0, 235, 9, 9>>, 7, 12)) =
       <<253, 55, 122, 88, 90, 0, 0, 1, 105, 34, 222, 54, 2, 1, 7, 0, 33, 1, 12, 0,
       120, 14, 140, 41, 1, 0, 13, 3, 2, 3, 235, 7, 5, 6, 235, 4, 0, 0, 235, 9, 9,
       0, 0, 0, 26, 249, 127, 214, 0, 1, 34, 14, 12, 222, 140, 96, 144, 66, 153,
       13, 1, 0, 0, 0, 0, 1, 89, 90>>
=============================================================================
