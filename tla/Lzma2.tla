------------------------------- MODULE Lzma2 -------------------------------
(***************************************************************************)
(* xz_dec_lzma2.c in the mode kernel_decompress_xz() uses, XZ_SINGLE: all  *)
(* of the input and all of the room for the output are there from the      *)
(* start, and the output itself is the dictionary.  Modelled are the       *)
(* chunks and the resets they demand, the window through which the range   *)
(* decoder reads, with the copy it keeps of the end of the input, and the  *)
(* dictionary.  The range decoder and its probabilities are not: a symbol  *)
(* takes one byte of a chunk, or two, instead of a number of bits that     *)
(* depends on all symbols before it, it leaves the range too small or does *)
(* not, as its byte says, and the code at the end is the one at the start. *)
(***************************************************************************)
EXTENDS Integers, Sequences, SequencesExt, Words

CONSTANTS
  InRequired, (* LZMA_IN_REQUIRED: what a symbol may take, with a byte for  *)
              (* the normalization at the end of lzma_main; here up to four *)
  DictBits    (* the smallest dictionary is 2 << DictBits; 11 in the code   *)

ASSUME Lzma2Assumption == InRequired \in Nat /\ InRequired > 3 /\ DictBits \in Nat

VARIABLES
  src,       (* the payload                                                 *)
  dstSize,   (* b->out_size                                                 *)
  inPos,     (* b->in_pos                                                   *)
  out,       (* the bytes at dst, up to dict.pos                            *)
  outPos,    (* b->out_pos, which follows when the dictionary is flushed    *)
  chunk,     (* struct lzma2_dec                                            *)
  dict,      (* struct dictionary; base is where in out it begins           *)
  lzma,      (* struct lzma_dec without the probabilities                   *)
  rc,        (* struct rc_dec, and the size of the copy, temp.size; due is  *)
             (* one when the range is so small that the next rc_normalize   *)
             (* takes a byte                                                *)
  xzRet      (* what xz_dec_lzma2_run returned, "RUNNING" before            *)

lzma2Vars == <<inPos, out, outPos, chunk, dict, lzma, rc, xzRet>>

(* The byte at offset i; the copy of the end of the last chunk is followed *)
(* by zeros.                                                               *)
At(i) == IF i < Len(src) THEN src[i + 1] ELSE 0

InAvail == Len(src) - inPos

DictPos == Len(out) - dict.base

(* dict.full: nothing wraps around when the output is the dictionary. *)
DictFull == DictPos

DictEnd == dstSize - dict.base

HasSpace == DictPos < dict.limit

RcInitBytes == 5

IdleRc == [in |-> 0, pos |-> 0, limit |-> 0, code |-> 0, temp |-> 0, due |-> 0]

LzmaReset == [rep |-> <<0, 0, 0, 0>>, state |-> 0, len |-> 0]

IdleChunk == [seq |-> "CONTROL", next |-> "CONTROL", uncompressed |-> 0,
              compressed |-> 0, needDictReset |-> TRUE, needProps |-> TRUE]

(* xz_dec_lzma2_reset, for a block whose header gives this dictionary size; *)
(* sizes beyond 2 ^ 28 are not told apart.                                  *)
DictSize(props) ==
  LET shift == props \div 2 + DictBits
  IN (2 + (props % 2)) * 2 ^ (IF shift > 27 THEN 27 ELSE shift)

Lzma2Reset(props) ==
  /\ chunk' = [chunk EXCEPT !.seq = "CONTROL", !.needDictReset = TRUE]
  /\ dict' = [dict EXCEPT !.size = DictSize(props)]
  /\ rc' = [rc EXCEPT !.temp = 0]

Stop(r) == xzRet' = r

(* The input ran out between two bytes of a chunk's header. *)
RunsOut ==
  /\ Stop("OK")
  /\ inPos' = Len(src)
  /\ UNCHANGED <<out, outPos, chunk, dict, lzma, rc>>

Refuse ==
  /\ Stop("DATA_ERROR")
  /\ UNCHANGED <<inPos, out, outPos, chunk, dict, lzma, rc>>

In(seq) == xzRet = "RUNNING" /\ chunk.seq = seq
-----------------------------------------------------------------------------
(* SEQ_CONTROL *)
ResetsDict(c) == c >= 224 \/ c = 1
SetsProps(c) == c >= 192
ResetsState(c) == c >= 160
IsLzma(c) == c >= 128

NeedsProps(c) == chunk.needProps \/ ResetsDict(c)

ControlRight(c) ==
  /\ ResetsDict(c) \/ ~chunk.needDictReset
  /\ IF IsLzma(c) THEN SetsProps(c) \/ ~NeedsProps(c) ELSE c <= 2

(* A dictionary reset ends what was known of the properties. *)
PropsAfter_Wrong(c) == chunk.needProps /\ ~SetsProps(c)

PropsAfter(c) == NeedsProps(c) /\ ~SetsProps(c)

Control ==
  /\ In("CONTROL")
  /\ LET c == At(inPos)
     IN \/ InAvail = 0 /\ RunsOut
        \/ /\ InAvail > 0 /\ c = 0
           /\ Stop("STREAM_END")
           /\ inPos' = inPos + 1
           /\ UNCHANGED <<out, outPos, chunk, dict, lzma, rc>>
        \/ InAvail > 0 /\ c # 0 /\ ~ControlRight(c) /\ Refuse
        \/ /\ InAvail > 0 /\ c # 0 /\ ControlRight(c)
           /\ inPos' = inPos + 1
           /\ chunk' = [chunk EXCEPT
                !.seq = IF IsLzma(c) THEN "UNCOMPRESSED" ELSE "COMPRESSED",
                !.next = IF ~IsLzma(c) THEN "COPY"
                         ELSE IF SetsProps(c) THEN "PROPERTIES" ELSE "LZMA_PREPARE",
                !.uncompressed = IF IsLzma(c) THEN (c % 32) * 65536 ELSE @,
                !.needProps = PropsAfter(c),
                !.needDictReset = @ /\ ~ResetsDict(c)]
           /\ dict' = IF ResetsDict(c)
                      THEN [dict EXCEPT !.base = outPos, !.limit = 0] ELSE dict
           /\ lzma' = IF ResetsState(c) /\ ~SetsProps(c) THEN LzmaReset ELSE lzma
           /\ UNCHANGED <<out, outPos, rc, xzRet>>

(* The sizes: SEQ_UNCOMPRESSED_1 and _2, SEQ_COMPRESSED_0 and _1. *)
TwoBytes(seq, next, field, value) ==
  /\ In(seq)
  /\ \/ InAvail < 2 /\ RunsOut
     \/ /\ InAvail >= 2
        /\ inPos' = inPos + 2
        /\ chunk' = [chunk EXCEPT !.seq = next, ![field] = value]
        /\ UNCHANGED <<out, outPos, dict, lzma, rc, xzRet>>

Word == 256 * At(inPos) + At(inPos + 1) + 1

Uncompressed ==
  TwoBytes("UNCOMPRESSED", "COMPRESSED", "uncompressed", chunk.uncompressed + Word)

Compressed == TwoBytes("COMPRESSED", chunk.next, "compressed", Word)

(* lzma_props: at most four literal context and position bits together. *)
PropsRight(props) == props <= 224 /\ (props % 9) + ((props \div 9) % 5) <= 4

Properties ==
  /\ In("PROPERTIES")
  /\ \/ InAvail = 0 /\ RunsOut
     \/ InAvail > 0 /\ ~PropsRight(At(inPos)) /\ Refuse
     \/ /\ InAvail > 0 /\ PropsRight(At(inPos))
        /\ inPos' = inPos + 1
        /\ chunk' = [chunk EXCEPT !.seq = "LZMA_PREPARE"]
        /\ lzma' = LzmaReset
        /\ UNCHANGED <<out, outPos, dict, rc, xzRet>>

(* The first bytes are the code the range decoder starts with, in which no  *)
(* more than the last four have room.                                       *)
Code == IF \A i \in 1 .. RcInitBytes - 1 : At(inPos + i) = 0 THEN 0 ELSE 1

Prepare ==
  /\ In("LZMA_PREPARE")
  /\ \/ chunk.compressed < RcInitBytes /\ Refuse
     \/ chunk.compressed >= RcInitBytes /\ InAvail < RcInitBytes /\ RunsOut
     \/ /\ chunk.compressed >= RcInitBytes /\ InAvail >= RcInitBytes
        /\ inPos' = inPos + RcInitBytes
        /\ chunk' = [chunk EXCEPT !.seq = "LZMA_RUN",
                                  !.compressed = @ - RcInitBytes]
        /\ rc' = [rc EXCEPT !.code = Code]
        /\ UNCHANGED <<out, outPos, dict, lzma, xzRet>>

(* SEQ_COPY, dict_uncompressed. *)
Smaller(a, b) == IF a < b THEN a ELSE b

CopySize_Wrong == Smaller(InAvail, chunk.compressed)

CopySize == Smaller(Smaller(InAvail, dstSize - outPos), chunk.compressed)

Copy ==
  /\ In("COPY")
  /\ LET n == CopySize
     IN /\ out' = out \o SubSeq(src, inPos + 1, inPos + n)
        /\ outPos' = outPos + n
        /\ inPos' = inPos + n
        /\ chunk' = [chunk EXCEPT !.compressed = @ - n,
                                  !.seq = IF n < chunk.compressed THEN @ ELSE "CONTROL"]
        /\ Stop(IF n < chunk.compressed THEN "OK" ELSE "RUNNING")
        /\ UNCHANGED <<dict, lzma, rc>>
-----------------------------------------------------------------------------
(* SEQ_LZMA_RUN, lzma2_lzma.  The range decoder reads at rc.in + rc.pos.   *)
(* When part of a chunk is left in the copy it reads there first, rc.temp  *)
(* bytes and those Added; it reads in place only where InRequired bytes    *)
(* more than its limit are there.                                          *)

DictLimit ==
  LET outMax == Smaller(dstSize - outPos, chunk.uncompressed)
  IN IF DictEnd - DictPos <= outMax THEN DictEnd ELSE DictPos + outMax

InCopy == rc.temp > 0 \/ chunk.compressed = 0

Added == Smaller(Smaller(2 * InRequired, chunk.compressed) - rc.temp, InAvail)

Held == rc.temp + Added

(* What is in the copy is too little for a symbol, and not all there is. *)
TooLittle == Held # chunk.compressed /\ Held < InRequired

LimitInCopy == IF Held = chunk.compressed THEN Held ELSE Held - InRequired

LimitInPlace_Wrong ==
  IF InAvail >= chunk.compressed + InRequired - 1 THEN chunk.compressed
  ELSE InAvail - InRequired + 1

LimitInPlace == IF InAvail >= chunk.compressed + InRequired THEN chunk.compressed
                ELSE InAvail - InRequired

(* More input cannot come, so there is never too little: see the invariant *)
(* WindowHolds.                                                            *)
Run ==
  /\ In("LZMA_RUN")
  /\ dict' = [dict EXCEPT !.limit = DictLimit]
  /\ IF InCopy
     THEN /\ chunk' = [chunk EXCEPT !.seq = "COPIED"]
          /\ rc' = [rc EXCEPT !.in = inPos - rc.temp, !.pos = 0, !.limit = LimitInCopy]
     ELSE /\ chunk' = [chunk EXCEPT !.seq = "PLACE"]
          /\ UNCHANGED rc
  /\ UNCHANGED <<inPos, out, outPos, lzma, xzRet>>

(* What is too short to be read in place goes into the copy. *)
KeepRest(coder, in, left) ==
  LET n == Smaller(Len(src) - in, left)
  IN /\ inPos' = in + n
     /\ rc' = [coder EXCEPT !.temp = n]
     /\ chunk' = [chunk EXCEPT !.seq = "FLUSH", !.compressed = left]

Place ==
  /\ In("PLACE")
  /\ \/ InAvail < InRequired /\ KeepRest(rc, inPos, chunk.compressed)
     \/ /\ InAvail >= InRequired
        /\ rc' = [rc EXCEPT !.in = inPos, !.pos = 0, !.limit = LimitInPlace]
        /\ chunk' = [chunk EXCEPT !.seq = "IN_PLACE"]
        /\ UNCHANGED inPos
  /\ UNCHANGED <<out, outPos, dict, lzma, xzRet>>

(* lzma_main has filled the dictionary or come to the limit of its input. *)
Decoding == HasSpace /\ rc.pos <= rc.limit

(* rc_normalize, as lzma_main calls it once more at its end. *)
Normalized == [rc EXCEPT !.pos = @ + rc.due, !.due = 0]

CopiedEnd ==
  /\ In("COPIED") /\ ~Decoding
  /\ LET n == Normalized.pos
     IN \/ n > Held /\ Refuse
        \/ /\ n <= Held
           /\ IF n < rc.temp
              THEN /\ rc' = [Normalized EXCEPT !.temp = @ - n]
                   /\ chunk' = [chunk EXCEPT !.seq = "FLUSH", !.compressed = @ - n]
                   /\ UNCHANGED inPos
              ELSE /\ rc' = [Normalized EXCEPT !.temp = 0]
                   /\ chunk' = [chunk EXCEPT !.seq = "PLACE", !.compressed = @ - n]
                   /\ inPos' = rc.in + n
           /\ UNCHANGED <<out, outPos, dict, lzma, xzRet>>

InPlaceEnd ==
  /\ In("IN_PLACE") /\ ~Decoding
  /\ LET n == Normalized.pos
         left == chunk.compressed - n
     IN \/ n > chunk.compressed /\ Refuse
        \/ /\ n <= chunk.compressed
           /\ IF InAvail - n < InRequired
              THEN KeepRest(Normalized, inPos + n, left)
              ELSE /\ inPos' = inPos + n
                   /\ chunk' = [chunk EXCEPT !.seq = "FLUSH", !.compressed = left]
                   /\ rc' = Normalized
           /\ UNCHANGED <<out, outPos, dict, lzma, xzRet>>

(* Nothing is left of the chunk, of a match, of the range decoder's code. *)
ChunkOver == chunk.compressed = 0 /\ lzma.len = 0 /\ rc.code = 0

Flush ==
  /\ In("FLUSH")
  /\ outPos' = Len(out)
  /\ LET left == chunk.uncompressed - (Len(out) - outPos)
         stuck == \/ Len(out) = dstSize
                  \/ InAvail = 0 /\ rc.temp < chunk.compressed
     IN /\ chunk' = [chunk EXCEPT !.uncompressed = left,
                                  !.seq = IF left = 0 THEN "CONTROL" ELSE "LZMA_RUN"]
        /\ Stop(IF left = 0 THEN IF ChunkOver THEN "RUNNING" ELSE "DATA_ERROR"
                ELSE IF stuck THEN "OK" ELSE "RUNNING")
  /\ UNCHANGED <<inPos, out, dict, lzma, rc>>
-----------------------------------------------------------------------------
(* The symbols of lzma_main.  A chunk's bytes stand for them as follows: a *)
(* match has its length in one byte and its distance in the next; the      *)
(* others are one byte, which for a literal is the literal.  A symbol      *)
(* begins with the byte that is due, if one is, and which only the range   *)
(* decoder knows what to make of; and all but a literal may leave one due. *)

Symbols == xzRet = "RUNNING" /\ chunk.seq \in {"COPIED", "IN_PLACE"} /\ Decoding

Peek(k) ==
  LET i == rc.pos + rc.due + k
  IN IF chunk.seq = "COPIED" /\ i >= Held THEN 0 ELSE At(rc.in + i)

Take(n, due) == rc' = [rc EXCEPT !.pos = @ + rc.due + n, !.due = due]

IsMatch(c)    == c \div 32 = 4
IsRep(c)      == c \div 32 = 5
IsShortRep(c) == c \div 32 = 6
IsLiteral(c)  == c \div 32 \notin 4 .. 6

Leaves(c) == (c % 32) \div 16

LiteralStates == 0 .. 6

Literal ==
  /\ Symbols /\ IsLiteral(Peek(0))
  /\ out' = Append(out, Peek(0))
  /\ lzma' = [lzma EXCEPT !.state = IF @ <= 3 THEN 0 ELSE IF @ <= 9 THEN @ - 3
                                    ELSE @ - 6]
  /\ Take(1, 0)
  /\ UNCHANGED <<inPos, outPos, chunk, dict, xzRet>>

DistanceRight(dist) == dist < DictFull /\ dist < dict.size

(* dict_repeat: the bytes from dist + 1 back, again and again. *)
Repeated(n, dist) == [i \in 1 .. n |-> out[Len(out) - dist + ((i - 1) % (dist + 1))]]

Repeat(rep, len, state, cost) ==
  \/ ~DistanceRight(rep[1]) /\ Refuse
  \/ /\ DistanceRight(rep[1])
     /\ LET n == Smaller(dict.limit - DictPos, len)
        IN /\ out' = out \o Repeated(n, rep[1])
           /\ lzma' = [rep |-> rep, state |-> state, len |-> len - n]
     /\ Take(cost, Leaves(Peek(0)))
     /\ UNCHANGED <<inPos, outPos, chunk, dict, xzRet>>

After(state, afterLiteral, otherwise) ==
  IF state \in LiteralStates THEN afterLiteral ELSE otherwise

Match ==
  /\ Symbols /\ IsMatch(Peek(0))
  /\ Repeat(<<Peek(1)>> \o Front(lzma.rep), 2 + (Peek(0) % 16),
            After(lzma.state, 7, 10), 2)

(* A distance that is used again becomes the latest one. *)
RepMatch ==
  /\ Symbols /\ IsRep(Peek(0))
  /\ LET which == ((Peek(0) % 16) \div 4) + 1
     IN Repeat(<<lzma.rep[which]>> \o RemoveAt(lzma.rep, which), 2 + (Peek(0) % 4),
               After(lzma.state, 8, 11), 1)

ShortRep ==
  /\ Symbols /\ IsShortRep(Peek(0))
  /\ Repeat(lzma.rep, 1, After(lzma.state, 9, 11), 1)

Lzma2Run ==
  \/ Control \/ Uncompressed \/ Compressed \/ Properties \/ Prepare \/ Copy
  \/ Run \/ Place \/ Literal \/ Match \/ RepMatch \/ ShortRep
  \/ CopiedEnd \/ InPlaceEnd \/ Flush
=============================================================================
