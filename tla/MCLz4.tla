------------------------------- MODULE MCLz4 --------------------------------
(***************************************************************************)
(* Payloads for the decoder of Lz4Legacy, with half-bytes of two bits (a   *)
(* byte has 16 values, a length is extended from 3 on, by bytes below 15). *)
(*                                                                         *)
(* The well-formed ones are made by an encoder that starts from a parse,   *)
(* a list of blocks, each a list of sequences.  What a parse stands for is *)
(* defined here without looking at the decoder: a match repeats the bytes  *)
(* before it with the period offset.                                       *)
(***************************************************************************)
EXTENDS Lz4Legacy, SequencesExt

MCNibble == 4
MCSizeMax == 63
MCMinMatch == 4
MagicBytes == <<2, 1, 4, 6>>
MCMagic == 2 + 16 * (1 + 16 * (4 + 16 * 6))
MCDstSizes == {0, 1, 6, 14, 50}
-----------------------------------------------------------------------------
(* The encoder. *)

Bytes16(n) == <<n % 16, n \div 16>>
Bytes32(n) == Bytes16(n % 256) \o Bytes16(n \div 256)

(* The extension bytes of a length whose nibble holds 3. *)
Extension(n) ==
  IF n < 3 THEN <<>>
  ELSE LET full == (n - 3) \div 15
       IN [i \in 1 .. full + 1 |-> IF i <= full THEN 15 ELSE (n - 3) % 15]

Capped(n) == IF n < 3 THEN n ELSE 3

EncodeMatch(m) ==
  <<4 * Capped(Len(m.lit)) + Capped(m.len - 4)>> \o Extension(Len(m.lit))
    \o m.lit \o Bytes16(m.off) \o Extension(m.len - 4)

EncodeLast(lit) == <<4 * Capped(Len(lit))>> \o Extension(Len(lit)) \o lit

EncodeBlock(b) ==
  FoldLeft(LAMBDA acc, m : acc \o EncodeMatch(m), <<>>, b.matches)
    \o EncodeLast(b.last)

Framed(bytes) == Bytes32(Len(bytes)) \o bytes

(* What a block stands for. *)
Repeat(data, off, len) ==
  [i \in 1 .. len |-> data[Len(data) - off + 1 + ((i - 1) % off)]]

ExpandBlock(b) ==
  FoldLeft(LAMBDA acc, m : LET data == acc \o m.lit
                           IN data \o Repeat(data, m.off, m.len),
           <<>>, b.matches) \o b.last
-----------------------------------------------------------------------------
Literals == {<<>>, <<7>>, <<7, 9>>, <<9, 0, 7>>}

LongLiteral == [i \in 1 .. 19 |-> i % 5]

(* First a sequence with literals, then perhaps one that only matches. *)
FirstMatches ==
  {[lit |-> l, off |-> o, len |-> n] : l \in Literals \ {<<>>},
                                       o \in 1 .. 3, n \in {4, 6, 7, 23}}

SecondMatches == {[lit |-> <<>>, off |-> 5, len |-> 4],
                  [lit |-> <<1>>, off |-> 1, len |-> 8]}

OneMatch == {<<m>> : m \in {f \in FirstMatches : f.off <= Len(f.lit)}}

TwoMatches == {m \o <<s>> : m \in OneMatch, s \in SecondMatches}

Blocks ==
  {[matches |-> <<>>, last |-> l] : l \in (Literals \ {<<>>}) \cup {LongLiteral}}
    \cup {[matches |-> m, last |-> l] : m \in OneMatch \cup TwoMatches,
                                        l \in {<<>>, <<3>>}}

SmallBlock == [matches |-> <<[lit |-> <<1, 2>>, off |-> 2, len |-> 5]>>,
               last |-> <<6>>]

(* How blocks follow each other: directly, after a second magic, or before *)
(* the zero size that ends the stream.                                     *)
Separators == {<<>>, MagicBytes}
Endings == {<<>>, <<0, 0, 0, 0>>}

(* A stream of one or two blocks, with what each of its blocks stands for. *)
Streams ==
  {[bytes |-> MagicBytes \o Framed(EncodeBlock(b)) \o e,
    plain |-> <<ExpandBlock(b)>>] : b \in Blocks, e \in Endings}
    \cup
  {[bytes |-> MagicBytes \o Framed(EncodeBlock(b)) \o s
                \o Framed(EncodeBlock(SmallBlock)) \o e,
    plain |-> <<ExpandBlock(b), ExpandBlock(SmallBlock)>>]
     : b \in Blocks, s \in Separators, e \in Endings}

GoodStreams == {x \in Streams : Len(x.bytes) <= MCSizeMax}

GoodInputs == {x.bytes : x \in GoodStreams}
-----------------------------------------------------------------------------
(* Payloads that are not well-formed: every short block over the bytes that *)
(* matter, under a size that is right, short, or long; and one stream with  *)
(* any one byte of it replaced.                                             *)
BadBytes == {0, 1, 4, 7, 12, 15}

BadBlocks == UNION {[1 .. n -> BadBytes] : n \in 0 .. 3}
               \cup {<<7, 9, 1, 0>> \o x : x \in [1 .. 4 -> {0, 4, 12, 14, 15}]}
               \cup {<<12>> \o x : x \in [1 .. 5 -> {0, 3, 15}]}

Truncated == {SubSeq(MagicBytes, 1, n) : n \in 0 .. 4}
               \cup {MagicBytes \o <<5, 0, 0>>, <<3, 1, 4, 6>>, MagicBytes \o MagicBytes}

Corrupt(s) == {[s EXCEPT ![i] = b] : i \in 1 .. Len(s), b \in Byte}

Base == MagicBytes \o Framed(EncodeBlock([matches |->
            <<[lit |-> <<7, 9, 0>>, off |-> 2, len |-> 8]>>, last |-> <<>>]))
          \o Framed(EncodeBlock(SmallBlock))

BadInputs ==
  Truncated \cup Corrupt(Base)
    \cup {MagicBytes \o Bytes32(n) \o b : b \in BadBlocks, n \in {3, 4, 5, 6, 8}}

MCInputs == GoodInputs \cup BadInputs
=============================================================================
