---------------------------------- MODULE Xz ----------------------------------
(***************************************************************************)
(* kernel_decompress_xz() and xz_dec_stream.c: the headers of the stream   *)
(* and of each block, the blocks that module Lzma2 decodes and module Bcj  *)
(* filters, their padding and check, the index, and the footer.  A call    *)
(* decodes one stream; what follows it is not looked at.  Every field is   *)
(* read as bytes of the payload, and the CRC is computed as the code does. *)
(***************************************************************************)
EXTENDS Lzma2, Bcj

CONSTANTS
  Filters,   (* the branch filters the build has: 10, or 7 and 8 for ARM    *)
  Inputs,    (* the payloads that are decoded                               *)
  DstSizes   (* the ceilings dst_size they are decoded under                *)

ASSUME XzAssumption ==
  /\ Filters \subseteq {BCJ_ARM, BCJ_ARMTHUMB, BCJ_ARM64}
  /\ Inputs \subseteq Seq(Byte)
  /\ DstSizes \subseteq Nat

VARIABLES
  pc,        (* s->sequence; "call" before and "returned" after             *)
  checkType, (* s->check_type                                               *)
  header,    (* s->block_header, -1 for a size that is not given            *)
  block,     (* where the block's data begin, in src and in dst             *)
  filter,    (* the filter the block's data still have to go through, or 0  *)
  blocks,    (* s->block.hash: the sizes of the blocks that were decoded    *)
  index,     (* where the index begins, and the records it still has        *)
  records,   (* s->index.hash: the sizes the index gives                    *)
  ret,       (* value returned, "RUNNING" before                            *)
  outSize    (* *out_size                                                   *)

streamVars == <<checkType, header, block, filter, blocks, index, records>>
vars == <<src, dstSize, lzma2Vars, pc, streamVars, ret, outSize>>

Errors == {"INVALID", "NOSPACE", "UNSUPPORTED", "NOMEM"}

Unknown == -1
-----------------------------------------------------------------------------
(* xz_crc32_init: an entry is its index with eight bits shifted out. *)
Poly == {31, 30, 29, 27, 26, 24, 23, 21, 20, 19, 15, 9, 8, 5}

ShiftedOut(r) == IF 0 \in r THEN Xor(Shifted(r, 1), Poly) ELSE Shifted(r, 1)

Table ==
  [w \in SUBSET (0 .. 7) |-> FoldLeft(LAMBDA r, j : ShiftedOut(r), w, [j \in 1 .. 8 |-> j])]

Crc32(bytes) ==
  LET crc[n \in 0 .. Len(bytes)] ==
        IF n = 0 THEN 0 .. 31
        ELSE LET c == crc[n - 1]
             IN Xor(Table[Xor(BitsOf[bytes[n]], c \cap 0 .. 7)], Shifted(c, 8))
  IN 0 .. 31 \ crc[Len(bytes)]

(* get_le32, and the bytes that crc32_validate compares one by one. *)
Le32(i) == UNION {{8 * k + b : b \in BitsOf[At(i + k)]} : k \in 0 .. 3}

(* The n bytes at offset i. *)
BytesAt(i, n) == SubSeq(src, i + 1, i + n)

AllZero(i, n) == \A j \in i .. i + n - 1 : At(j) = 0

(* dec_vli, for a number at i in what ends at end: seven bits in each byte, *)
(* at most nine bytes, and no more than the number takes.  Numbers of more  *)
(* than four bytes are larger than any size here, and not told apart.       *)
VliLen(i, end) ==
  {n \in 1 .. 9 : /\ i + n <= end
                  /\ At(i + n - 1) < 128
                  /\ \A j \in 1 .. n - 1 : At(i + j - 1) >= 128}

VliRight(i, end) == \E n \in VliLen(i, end) : n = 1 \/ At(i + n - 1) # 0

VliEnd(i, end) == i + CHOOSE n \in VliLen(i, end) : TRUE

Vli(i, end) ==
  LET n == VliEnd(i, end) - i
      value[k \in 0 .. n] ==
        IF k = 0 THEN 0 ELSE value[k - 1] + (At(i + k - 1) % 128) * 128 ^ (k - 1)
  IN IF n > 4 THEN 2 ^ 30 ELSE value[n]
-----------------------------------------------------------------------------
InitWith(s, size) ==
  /\ src = s
  /\ dstSize = size
  /\ inPos = 0 /\ outPos = 0
  /\ out = <<>>
  /\ chunk = IdleChunk
  /\ dict = [base |-> 0, limit |-> 0, size |-> 0]
  /\ lzma = LzmaReset
  /\ rc = IdleRc
  /\ xzRet = "RUNNING"
  /\ pc = "header"
  /\ checkType = 0
  /\ header = [size |-> 0, compressed |-> Unknown, uncompressed |-> Unknown]
  /\ block = [in |-> 0, out |-> 0]
  /\ filter = 0
  /\ blocks = <<>>
  /\ index = [start |-> 0, left |-> 0]
  /\ records = <<>>
  /\ ret = "RUNNING"
  /\ outSize = 0

Init == \E s \in Inputs, size \in DstSizes : InitWith(s, size)

Return(error) ==
  /\ pc' = "returned"
  /\ ret' = error
  /\ UNCHANGED <<src, dstSize, lzma2Vars, streamVars, outSize>>

(* Every step of dec_main: on what the next bytes must be, or an error,    *)
(* which is the same for bytes that are missing.                           *)
Invalid(phase, right) == pc = phase /\ ~right /\ Return("INVALID")

(* The next phase, n bytes further on. *)
Forward(phase, right, n, next) ==
  /\ pc = phase /\ right
  /\ inPos' = inPos + n
  /\ pc' = next
  /\ UNCHANGED <<src, dstSize, out, outPos, chunk, dict, lzma, rc, xzRet, ret, outSize>>

Magic == <<253, 55, 122, 88, 90, 0>>

(* dec_stream_header: no check, or a CRC. *)
HeaderRight ==
  /\ InAvail >= 12
  /\ BytesAt(inPos, 6) = Magic
  /\ Le32(inPos + 8) = Crc32(BytesAt(inPos + 6, 2))
  /\ At(inPos + 6) = 0
  /\ At(inPos + 7) \in {0, 1}

StreamHeader ==
  \/ Invalid("header", HeaderRight)
  \/ /\ Forward("header", HeaderRight, 12, "blockStart")
     /\ checkType' = At(inPos + 7)
     /\ UNCHANGED <<header, block, filter, blocks, index, records>>

(* A zero where a block's header would begin begins the index. *)
BlockStart ==
  \/ Invalid("blockStart", InAvail > 0)
  \/ /\ Forward("blockStart", InAvail > 0 /\ At(inPos) = 0, 1, "index")
     /\ index' = [index EXCEPT !.start = inPos]
     /\ UNCHANGED <<checkType, header, block, filter, blocks, records>>
  \/ /\ Forward("blockStart", InAvail > 0 /\ At(inPos) # 0, 0, "blockHeader")
     /\ header' = [header EXCEPT !.size = 4 * (At(inPos) + 1)]
     /\ UNCHANGED <<checkType, block, filter, blocks, index, records>>
-----------------------------------------------------------------------------
(* dec_block_header.  The fields follow each other; each begins where the  *)
(* one before it ends, and all of them end before the header's CRC.        *)
FieldsEnd == inPos + header.size - 4

Flag(b) == b \in BitsOf[At(inPos + 1)]

AfterFlags == inPos + 2

SizeEnd(flag, i) == IF Flag(flag) THEN VliEnd(i, FieldsEnd) ELSE i

SizeRight(flag, i) == Flag(flag) => VliRight(i, FieldsEnd)

SizeGiven(flag, i) == IF Flag(flag) THEN Vli(i, FieldsEnd) ELSE Unknown

CompressedEnd == SizeEnd(6, AfterFlags)
UncompressedEnd == SizeEnd(7, CompressedEnd)
FiltersAt == UncompressedEnd
Lzma2At == FiltersAt + IF Flag(0) THEN 2 ELSE 0

(* xz_dec_bcj_reset: a filter the build has, without properties. *)
FilterRight ==
  Flag(0) => /\ FieldsEnd - FiltersAt >= 2
             /\ At(FiltersAt) \in Filters
             /\ At(FiltersAt + 1) = 0

Lzma2Right ==
  /\ FieldsEnd - Lzma2At >= 3
  /\ At(Lzma2At) = 33 /\ At(Lzma2At + 1) = 1
  /\ At(Lzma2At + 2) <= 39
  /\ AllZero(Lzma2At + 3, FieldsEnd - (Lzma2At + 3))

BlockHeaderRight ==
  /\ InAvail >= header.size
  /\ Le32(FieldsEnd) = Crc32(BytesAt(inPos, header.size - 4))
  /\ ~ \E b \in 1 .. 5 : Flag(b)
  /\ SizeRight(6, AfterFlags) /\ SizeRight(7, CompressedEnd)
  /\ FilterRight /\ Lzma2Right

BlockHeader ==
  \/ Invalid("blockHeader", BlockHeaderRight)
  \/ /\ pc = "blockHeader" /\ BlockHeaderRight
     /\ header' = [header EXCEPT
          !.compressed = SizeGiven(6, AfterFlags),
          !.uncompressed = SizeGiven(7, CompressedEnd)]
     /\ filter' = IF Flag(0) THEN At(FiltersAt) ELSE 0
     /\ Lzma2Reset(At(Lzma2At + 2))
     /\ xzRet' = "RUNNING"
     /\ inPos' = inPos + header.size
     /\ block' = [in |-> inPos + header.size, out |-> outPos]
     /\ pc' = "uncompress"
     /\ UNCHANGED <<src, dstSize, out, outPos, lzma, checkType, blocks, index,
                    records, ret, outSize>>
-----------------------------------------------------------------------------
(* dec_block *)
Uncompress ==
  /\ pc = "uncompress"
  /\ Lzma2Run
  /\ UNCHANGED <<src, dstSize, pc, streamVars, ret, outSize>>

SizeIn  == inPos - block.in
SizeOut == outPos - block.out

Within(size, given) == given = Unknown \/ size <= given
AsGiven(size, given) == given \in {Unknown, size}

BlockRight ==
  /\ Within(SizeIn, header.compressed) /\ Within(SizeOut, header.uncompressed)
  /\ xzRet \in {"OK", "STREAM_END"}
  /\ xzRet = "STREAM_END" => /\ AsGiven(SizeIn, header.compressed)
                             /\ AsGiven(SizeOut, header.uncompressed)

UnpaddedSize == header.size + SizeIn + IF checkType = 1 THEN 4 ELSE 0

(* xz_dec_bcj_run *)
WithFilter_Wrong ==
  IF filter = 0 THEN out ELSE Filtered(filter, out)

WithFilter ==
  IF filter = 0 THEN out
  ELSE SubSeq(out, 1, block.out)
         \o Filtered(filter, SubSeq(out, block.out + 1, Len(out)))

(* xz_dec_run: a decoder that is stuck with input left lacks room. *)
NoRoom == BlockRight /\ xzRet = "OK" /\ InAvail > 0

BlockOver ==
  /\ pc = "uncompress" /\ xzRet # "RUNNING"
  /\ \/ NoRoom /\ Return("NOSPACE")
     \/ ~NoRoom /\ ~(BlockRight /\ xzRet = "STREAM_END") /\ Return("INVALID")
     \/ /\ BlockRight /\ xzRet = "STREAM_END"
        /\ out' = WithFilter
        /\ filter' = 0
        /\ blocks' = Append(blocks, <<UnpaddedSize, SizeOut>>)
        /\ pc' = "padding"
        /\ UNCHANGED <<src, dstSize, inPos, outPos, chunk, dict, lzma, rc, xzRet,
                       checkType, header, block, index, records, ret, outSize>>

Padding == (4 - (SizeIn % 4)) % 4

PaddingRight == InAvail >= Padding /\ AllZero(inPos, Padding)

BlockPadding ==
  \/ Invalid("padding", PaddingRight)
  \/ /\ Forward("padding", PaddingRight, Padding, "check")
     /\ UNCHANGED streamVars

CheckRight ==
  checkType = 1 =>
    /\ InAvail >= 4
    /\ Le32(inPos) = Crc32(SubSeq(out, block.out + 1, Len(out)))

BlockCheck ==
  \/ Invalid("check", CheckRight)
  \/ /\ Forward("check", CheckRight, IF checkType = 1 THEN 4 ELSE 0, "blockStart")
     /\ UNCHANGED streamVars
-----------------------------------------------------------------------------
(* dec_index *)
CountRight ==
  VliRight(inPos, Len(src)) /\ Vli(inPos, Len(src)) = Len(blocks)

(* The index is over when it has no more records. *)
AfterRecord(left) == IF left = 0 THEN "indexPadding" ELSE "record"

IndexCount ==
  \/ Invalid("index", CountRight)
  \/ /\ Forward("index", CountRight, VliEnd(inPos, Len(src)) - inPos,
                AfterRecord(Len(blocks)))
     /\ index' = [index EXCEPT !.left = Len(blocks)]
     /\ UNCHANGED <<checkType, header, block, filter, blocks, records>>

RecordRight ==
  /\ VliRight(inPos, Len(src))
  /\ VliRight(VliEnd(inPos, Len(src)), Len(src))

IndexRecord ==
  \/ Invalid("record", RecordRight)
  \/ LET second == VliEnd(inPos, Len(src))
     IN /\ Forward("record", RecordRight, VliEnd(second, Len(src)) - inPos,
                   AfterRecord(index.left - 1))
        /\ records' = Append(records, <<Vli(inPos, Len(src)), Vli(second, Len(src))>>)
        /\ index' = [index EXCEPT !.left = @ - 1]
        /\ UNCHANGED <<checkType, header, block, filter, blocks>>

IndexRest == (4 - ((inPos - index.start) % 4)) % 4

(* The index must give the sizes of the blocks, in their order. *)
SizesAgree_Wrong == Len(records) = Len(blocks)

SizesAgree == records = blocks

IndexRight == InAvail >= IndexRest /\ AllZero(inPos, IndexRest) /\ SizesAgree

IndexPadding ==
  \/ Invalid("indexPadding", IndexRight)
  \/ /\ Forward("indexPadding", IndexRight, IndexRest, "indexCrc")
     /\ UNCHANGED streamVars

IndexSize == inPos - index.start

IndexCrcRight ==
  InAvail >= 4 /\ Le32(inPos) = Crc32(BytesAt(index.start, IndexSize))

IndexCrc ==
  \/ Invalid("indexCrc", IndexCrcRight)
  \/ /\ Forward("indexCrc", IndexCrcRight, 4, "footer")
     /\ UNCHANGED streamVars

(* dec_stream_footer, with the index's size in words. *)
BackwardSize == ToLe((inPos - 4 - index.start) \div 4, 4)

FooterRight ==
  /\ InAvail >= 12
  /\ BytesAt(inPos + 10, 2) = <<89, 90>>
  /\ Le32(inPos) = Crc32(BytesAt(inPos + 4, 6))
  /\ BytesAt(inPos + 4, 4) = BackwardSize
  /\ At(inPos + 8) = 0 /\ At(inPos + 9) = checkType

StreamFooter ==
  \/ Invalid("footer", FooterRight)
  \/ /\ pc = "footer" /\ FooterRight
     /\ outSize' = outPos
     /\ ret' = "OK"
     /\ pc' = "returned"
     /\ inPos' = inPos + 12
     /\ UNCHANGED <<src, dstSize, out, outPos, chunk, dict, lzma, rc, xzRet, streamVars>>

(* The decoder has returned; nothing more happens. *)
Over == pc = "returned" /\ UNCHANGED vars

Next ==
  \/ StreamHeader \/ BlockStart \/ BlockHeader \/ Uncompress \/ BlockOver
  \/ BlockPadding \/ BlockCheck \/ IndexCount \/ IndexRecord \/ IndexPadding
  \/ IndexCrc \/ StreamFooter \/ Over

Spec == Init /\ [][Next]_vars
-----------------------------------------------------------------------------
(* The variables have their types. *)
TypeOK ==
  /\ src \in Seq(Byte) /\ out \in Seq(Byte)
  /\ {dstSize, inPos, outPos, outSize, filter, checkType} \subseteq Nat
  /\ {chunk.uncompressed, chunk.compressed, rc.pos, rc.limit, rc.temp} \subseteq Nat
  /\ lzma.rep \in Seq(Nat) /\ Len(lzma.rep) = 4
  /\ lzma.state \in 0 .. 11 /\ lzma.len \in 0 .. 273
  /\ xzRet \in {"RUNNING", "OK", "STREAM_END", "DATA_ERROR"}
  /\ ret \in Errors \cup {"RUNNING", "OK"}

(* How far the range decoder may read: to the end of the payload, or of    *)
(* what was put into the copy, or of the zeros that follow the end of a    *)
(* chunk there.                                                            *)
Readable == IF chunk.seq = "IN_PLACE" THEN Len(src) - rc.in
            ELSE IF Held = chunk.compressed THEN 3 * InRequired ELSE Held

(* The bytes a symbol may need are there, and the one more that the         *)
(* normalization at the end of lzma_main may take when it was the last.     *)
WindowHolds ==
  LET last == rc.pos + InRequired - 1
  IN /\ chunk.seq = "COPIED" => ~TooLittle /\ Held <= 2 * InRequired
     /\ last < Readable

(* No byte has been taken that was not there, nor will the one that is due. *)
TakenWasThere ==
  xzRet = "RUNNING" /\ chunk.seq \in {"COPIED", "IN_PLACE"} => Normalized.pos <= Readable

(* A literal after a match is decoded with the help of a byte of the match: *)
(* that byte is in the dictionary that is current.                          *)
MatchByteThere == lzma.state \in LiteralStates \/ lzma.rep[1] < DictFull

(* Whatever the payload, nothing is read beyond it, written beyond the      *)
(* ceiling, or fetched from before the dictionary; and the loop that copies *)
(* a match, which counts its length down before it looks, has one.          *)
MemorySafe ==
  /\ TypeOK
  /\ inPos <= Len(src)
  /\ outPos <= Len(out) /\ Len(out) <= dstSize
  /\ Symbols => WindowHolds /\ MatchByteThere /\ lzma.len = 0
  /\ TakenWasThere

(* What no later step changes: a block has to be filtered first. *)
Final == IF filter = 0 THEN out ELSE SubSeq(out, 1, block.out)

(* Whatever the payload, the decoder keeps what kernel_payload_load promises. *)
Promise == INSTANCE PayloadDecoder
             WITH OK <- "OK", Running <- "RUNNING", MayBeEmpty <- TRUE, out <- Final

KeepsPromise == Promise!Spec
=============================================================================
