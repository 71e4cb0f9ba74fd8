------------------------------- MODULE MCGzip -------------------------------
(***************************************************************************)
(* Payloads for Gzip.  The well-formed ones hold data as zlib compresses   *)
(* it (a stored block, fixed codes, two dynamic blocks, a flush between    *)
(* two blocks, the longest match, nothing at all), with the CRC that zlib  *)
(* computes, under headers that use none, all or some of the optional      *)
(* fields.  The others are these with one byte changed or their end cut    *)
(* off, and dynamic blocks with every small choice of code lengths.        *)
(***************************************************************************)
EXTENDS Gzip

VARIABLES
  text,      (* what the payload stands for                                 *)
  kind       (* "whole", "damaged", or "strange": made up, without a text   *)

mcVars == <<vars, text, kind>>

MCUintMax == 400
-----------------------------------------------------------------------------
(* Bytes as the text, the data and the CRC zlib makes of them. *)
Repeated(n) == [i \in 1 .. n |-> 97]

StoredABC == [text |-> <<65, 66, 67>>, crc |-> <<72, 3, 131, 163>>,
              data |-> <<1, 3, 0, 252, 255, 65, 66, 67>>]

FixedABC == [text |-> <<65, 66, 67>>, crc |-> <<72, 3, 131, 163>>,
             data |-> <<115, 116, 114, 6, 0>>]

Nothing == [text |-> <<>>, crc |-> <<0, 0, 0, 0>>, data |-> <<3, 0>>]

Matches == [text |-> <<97, 98, 99, 97, 98, 99, 97, 98, 99, 97, 98, 100>>,
            crc |-> <<151, 191, 10, 196>>,
            data |-> <<75, 76, 74, 78, 132, 162, 20, 0>>]

LongMatch == [text |-> Repeated(100), crc |-> <<100, 122, 112, 175>>,
              data |-> <<75, 76, 164, 61, 0, 0>>]

(* The longest match there is, under a trailer that gives one byte less *)
(* than the data makes.                                                 *)
Longest == [text |-> Repeated(261), crc |-> <<176, 139, 15, 3>>,
            data |-> <<75, 76, 28, 5, 137, 73, 0>>]

(* A fixed block, an empty stored one, a fixed one. *)
Flushed == [text |-> <<97, 97, 98, 97, 97, 98, 98>>, crc |-> <<221, 88, 15, 174>>,
            data |-> <<74, 76, 76, 2, 0, 0, 0, 255, 255, 75, 76, 76, 74, 2, 0>>]

Dynamic == [text |-> <<99, 97, 97, 98, 98, 97, 99, 97, 98, 97, 97, 97, 98, 97,
                       98, 99, 98, 97, 97, 97, 97, 97, 99, 97, 97, 98, 97, 100,
                       97, 97>>,
            crc |-> <<57, 246, 103, 166>>,
            data |-> <<21, 199, 65, 1, 0, 48, 16, 194, 48, 173, 129, 243, 175,
                       97, 236, 213, 166, 36, 42, 54, 210, 95, 243, 112, 60>>]

(* A dynamic block with codes for distances, and matches of "dbcdca". *)
Word == <<100, 98, 99, 100, 99, 97>>

DynamicMatches ==
  [text |-> <<97, 98>> \o Word \o <<100, 97, 98, 97, 97, 97, 98>> \o Word
              \o <<98, 99, 98>> \o Word \o <<97>> \o Word \o <<98>> \o Word
              \o <<97, 97, 97>> \o Front(Word) \o <<98, 98>> \o Word,
   crc |-> <<207, 26, 93, 170>>,
   data |-> <<45, 199, 49, 1, 0, 0, 12, 131, 48, 173, 176, 250, 215, 176, 135,
              47, 193, 121, 59, 134, 64, 241, 2, 189, 117, 251, 3>>]

Packed == {StoredABC, FixedABC, Nothing, Matches, LongMatch, Flushed, Dynamic,
           DynamicMatches}

Header(flags) == <<31, 139, 8, flags, 0, 0, 0, 0, 0, 3>>

PlainHeader == Header(0)

(* An extra field of two bytes, a name, a comment, and a CRC over it all. *)
FullHeader == Header(31) \o <<2, 0, 7, 0>> \o <<107, 0>> \o <<99, 100, 0>>
                \o <<243, 215>>

Headers == {PlainHeader, FullHeader,
            Header(2) \o <<167, 119>>,             (* only the CRC *)
            Header(4) \o <<0, 0>>,                 (* an empty extra field *)
            Header(24) \o <<0>> \o <<99, 0>>}      (* an empty name *)

Size(n) == <<n % 256, n \div 256, 0, 0>>

Gz(header, p) == header \o p.data \o p.crc \o Size(Len(p.text))
-----------------------------------------------------------------------------
(* One byte more, the top bit flipped, or zero, in any place; the payload  *)
(* cut off anywhere, or the data cut off and the trailer kept.             *)
Damages(s) ==
  {[s EXCEPT ![i] = b] : i \in 1 .. Len(s), b \in {0}}
    \cup {[s EXCEPT ![i] = (@ + 1) % 256] : i \in 1 .. Len(s)}
    \cup {[s EXCEPT ![i] = (@ + 128) % 256] : i \in 1 .. Len(s)}
    \cup {SubSeq(s, 1, i) : i \in 0 .. Len(s) - 1}

DataCut(header, p) ==
  {header \o SubSeq(p.data, 1, i) \o p.crc \o Size(Len(p.text)) :
     i \in 0 .. Len(p.data) - 1}

Damaged(header, p) == Damages(Gz(header, p)) \cup DataCut(header, p)
-----------------------------------------------------------------------------
(* Dynamic blocks put together bit by bit. *)
BitSeq(value, width) == [i \in 1 .. width |-> (value \div 2 ^ (i - 1)) % 2]

Bytes(bits) ==
  [i \in 1 .. (Len(bits) + 7) \div 8 |->
     LET b(j) == IF 8 * (i - 1) + j <= Len(bits) THEN bits[8 * (i - 1) + j] ELSE 0
     IN b(1) + 2 * b(2) + 4 * b(3) + 8 * b(4) + 16 * b(5) + 32 * b(6)
          + 64 * b(7) + 128 * b(8)]

(* The lengths are coded with two bits each: 0, 1, 2 and 18. *)
CodeOf(len) == <<len \div 2, len % 2>>
Zeros(n) == <<1, 1>> \o BitSeq(n - 11, 7)

(* hlit, hdist and hclen, then the lengths of that code in Clcidx's order. *)
TreesFor(lits, dists, clens) ==
  <<1, 0, 1>> \o BitSeq(lits - 257, 5) \o BitSeq(dists - 1, 5)
    \o BitSeq(14, 4) \o FlattenSeq([i \in 1 .. 18 |-> BitSeq(clens[i], 3)])

TwoBits == [i \in 1 .. 18 |-> IF Clcidx[i] \in {0, 1, 2, 18} THEN 2 ELSE 0]

(* Codes for the byte 0, the end of the block, one length, two distances. *)
Tree(l) ==
  TreesFor(258, 2, TwoBits) \o CodeOf(l[1]) \o Zeros(138) \o Zeros(117)
    \o CodeOf(l[2]) \o CodeOf(l[3]) \o CodeOf(l[4]) \o CodeOf(l[5])

(* A byte, a match, the end, in every order the codes allow. *)
SomeData == {BitSeq(v, 12) : v \in {0, 6, 21, 75, 172, 1023, 1170, 4095}}

TreeBlocks == {Tree(l) \o x : l \in [1 .. 5 -> 0 .. 2], x \in SomeData}

(* Sizes out of range; a repetition first, one of the length of everything  *)
(* and more; codes that are short of one length; a block of type 3.         *)
With16 == [i \in 1 .. 18 |-> IF Clcidx[i] \in {16, 18} THEN 1 ELSE 0]

OddBlocks ==
  {TreesFor(288, 2, TwoBits), TreesFor(258, 31, TwoBits),
   TreesFor(258, 2, With16) \o <<0, 0, 0>>,
   TreesFor(258, 2, With16) \o <<1>> \o BitSeq(127, 7) \o <<0, 1, 1>>
     \o <<1>> \o BitSeq(127, 7),
   TreesFor(258, 2, [TwoBits EXCEPT ![4] = 0]) \o Zeros(138),
   TreesFor(258, 2, [i \in 1 .. 18 |-> 0]),
   TreesFor(258, 2, [i \in 1 .. 18 |-> IF Clcidx[i] = 18 THEN 1 ELSE 0])
     \o <<0>> \o BitSeq(127, 7) \o <<1, 1, 1>>,
   <<1, 1, 1, 0, 0, 0>>}

Strange ==
  {PlainHeader \o Bytes(b) \o <<0, 0, 0, 0>> \o Size(4) :
     b \in TreeBlocks \cup OddBlocks}
    \cup {PlainHeader \o [i \in 1 .. 395 |-> 0], Gz(PlainHeader, Longest)}
    \cup {Header(4) \o <<n, 0>> \o StoredABC.data : n \in {6, 7, 200}}
    \cup {[i \in 1 .. 10 |-> IF i = 4 THEN f ELSE PlainHeader[i]]
            \o [i \in 1 .. 12 |-> x] : f \in {8, 16, 24, 2, 32}, x \in {0, 1}}
-----------------------------------------------------------------------------
MCInputs == {} (* GInit chooses them *)

Ceilings(n) == {n, n + 1} \cup (IF n = 0 THEN {} ELSE {n - 1})

GInit ==
  \/ /\ kind = "whole"
     /\ \E h \in Headers, p \in Packed :
          \E size \in Ceilings(Len(p.text)) \cup {1000} :
            text = p.text /\ InitWith(Gz(h, p), size)
  \/ /\ kind = "damaged"
     /\ \E p \in Packed \ {LongMatch} : \E h \in {PlainHeader, FullHeader} :
          \E s \in Damaged(h, p) :
            text = p.text /\ InitWith(s, Len(text) + 1)
  \/ /\ kind = "strange"
     /\ text = <<>>
     /\ \E s \in Strange, size \in {4, 300} : InitWith(s, size)

GNext == Next /\ UNCHANGED <<text, kind>>

GSpec == GInit /\ [][GNext]_mcVars

(* The tables filled in by hand are those the code lengths of the format    *)
(* give, but for the largest symbol: two lengths and two distances are      *)
(* coded and never used.                                                    *)
FixedLengths == [i \in 1 .. 288 |-> IF i <= 144 THEN 8 ELSE IF i <= 256 THEN 9
                                    ELSE IF i <= 280 THEN 7 ELSE 8]

ASSUME FixedTreesRight ==
  /\ BuildTree(FixedLengths) = [FixedLtree EXCEPT !.maxSym = 287]
  /\ BuildTree([i \in 1 .. 32 |-> 5]) = [FixedDtree EXCEPT !.maxSym = 31]
-----------------------------------------------------------------------------
(* A well-formed payload that fits is decoded to exactly what it stands     *)
(* for; one that does not is refused as too large, whatever header it has.  *)
WholeDecoded ==
  kind = "whole" /\ pc = "returned" =>
    IF Len(text) <= dstSize
    THEN ret = "OK" /\ out = text /\ outSize = Len(text)
    ELSE ret = "NOSPACE"

(* A payload that was damaged in one place, or has lost its end, is accepted *)
(* only if its text came out all the same.                                   *)
DamageNoticed == kind = "damaged" /\ ret = "OK" => out = text
=============================================================================
