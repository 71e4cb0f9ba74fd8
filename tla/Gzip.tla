-------------------------------- MODULE Gzip --------------------------------
(***************************************************************************)
(* kernel_decompress_gzip() and tinf_gzip_uncompress(): the header with    *)
(* its optional fields, the inflater of module Inflate run on what lies    *)
(* between header and trailer, and the size and the CRC that the trailer   *)
(* demands of the result.                                                  *)
(***************************************************************************)
EXTENDS Inflate

CONSTANTS
  UintMax,   (* the largest unsigned int, which tinf's sizes are            *)
  Inputs,    (* the payloads that are decoded                               *)
  DstSizes   (* the ceilings dst_size they are decoded under                *)

ASSUME GzipAssumption ==
  /\ UintMax \in Nat /\ UintMax >= 18
  /\ Inputs \subseteq Seq(Byte)
  /\ DstSizes \subseteq Nat

VARIABLES
  dstSize,   (* dst_size                                                    *)
  start,     (* offset of what the header still has to be read from         *)
  ret,       (* value returned, "RUNNING" before                            *)
  outSize    (* *out_size                                                   *)

containerVars == <<src, dstSize, destLen>>
vars == <<containerVars, pc, start, blockVars, out, ret, outSize>>

Errors == {"INVALID", "NOSPACE", "UNSUPPORTED", "NOMEM"}

Magic == <<31, 139, 8>>

(* The bits of the flag byte. *)
FHCRC == 1
FEXTRA == 2
FNAME == 3
FCOMMENT == 4
Reserved == 5 .. 7

Has(flag) == flag \in BitsOf[At(3)]
-----------------------------------------------------------------------------
(* tinf_crc32tab[8], 0xedb88320; the rows 4, 2 and 1 are this one shifted, *)
(* and every other row is the exclusive or of those its index is made of.  *)
Row8 == {31, 30, 29, 27, 26, 24, 23, 21, 20, 19, 15, 9, 8, 5}

Row(w) == FoldSet(LAMBDA b, r : Xor(r, Shifted(Row8, 3 - b)), {}, w \cap 0 .. 3)

HalfStep(crc) == Xor(Row(crc), Shifted(crc, 4))

CrcByte(crc, byte) == HalfStep(HalfStep(Xor(crc, BitsOf[byte])))

(* In halves, so that a long text does not nest deeply. *)
Crc32(bytes) ==
  LET crc[first \in Nat, last \in Nat, c \in SUBSET (0 .. 31)] ==
        LET mid == (first + last) \div 2
        IN IF first > last THEN c
           ELSE IF first = last THEN CrcByte(c, bytes[first])
           ELSE crc[mid + 1, last, crc[first, mid, c]]
  IN 0 .. 31 \ crc[1, Len(bytes), 0 .. 31]

(* read_le16 and read_le32, as such a set. *)
WordAt(i, size) ==
  UNION {{8 * k + b : b \in BitsOf[At(i + k)]} : k \in 0 .. size - 1}
-----------------------------------------------------------------------------
InitWith(s, size) ==
  /\ src = s
  /\ dstSize = size
  /\ destLen = 0
  /\ pc = "call"
  /\ start = 0
  /\ sourceEnd = 0
  /\ d = [source |-> 0, tag |-> 0, bitcount |-> 0, overflow |-> FALSE]
  /\ bfinal = FALSE
  /\ hlit = 0 /\ hdist = 0 /\ lengths = <<>>
  /\ lt = NoTree /\ dt = NoTree
  /\ length = 0 /\ offs = 0
  /\ out = <<>>
  /\ ret = "RUNNING"
  /\ outSize = 0

Init == \E s \in Inputs, size \in DstSizes : InitWith(s, size)

Return(error) ==
  /\ pc' = "returned"
  /\ ret' = error
  /\ UNCHANGED <<containerVars, start, blockVars, out, outSize>>

(* kernel_decompress_gzip: tinf counts in unsigned int. *)
Call ==
  /\ pc = "call"
  /\ \/ Len(src) > UintMax /\ Return("INVALID")
     \/ /\ Len(src) <= UintMax
        /\ destLen' = IF dstSize > UintMax THEN UintMax ELSE dstSize
        /\ pc' = "header"
        /\ UNCHANGED <<src, dstSize, start, blockVars, out, ret, outSize>>

HeaderValid ==
  /\ Len(src) >= 18
  /\ SubSeq(src, 1, 3) = Magic
  /\ BitsOf[At(3)] \cap Reserved = {}

(* The header goes on at to, with the phase next. *)
Advance(to, next) ==
  /\ start' = to
  /\ pc' = next
  /\ UNCHANGED <<containerVars, blockVars, out, ret, outSize>>

CheckHeader ==
  /\ pc = "header"
  /\ \/ ~HeaderValid /\ Return("INVALID")
     \/ HeaderValid /\ Advance(10, "extra")

ExtraFits == start <= Len(src) - 2 /\ Le16(start) <= Len(src) - 12

SkipExtra ==
  /\ pc = "extra"
  /\ \/ ~Has(FEXTRA) /\ Advance(start, "name")
     \/ Has(FEXTRA) /\ ~ExtraFits /\ Return("INVALID")
     \/ Has(FEXTRA) /\ ExtraFits /\ Advance(start + Le16(start) + 2, "name")

(* The places of the zero bytes that may end a string at start. *)
StringEnds == {i \in start .. Len(src) - 1 : At(i) = 0}

SkipString(phase, flag, next) ==
  /\ pc = phase
  /\ \/ ~Has(flag) /\ Advance(start, next)
     \/ Has(flag) /\ StringEnds = {} /\ Return("INVALID")
     \/ Has(flag) /\ StringEnds # {} /\ Advance(Min(StringEnds) + 1, next)

SkipName == SkipString("name", FNAME, "comment")

SkipComment == SkipString("comment", FCOMMENT, "hcrc")

HeaderCrcRight ==
  /\ start <= Len(src) - 2
  /\ WordAt(start, 2) = Crc32(SubSeq(src, 1, start)) \cap 0 .. 15

CheckHeaderCrc ==
  /\ pc = "hcrc"
  /\ \/ ~Has(FHCRC) /\ Advance(start, "trailer")
     \/ Has(FHCRC) /\ ~HeaderCrcRight /\ Return("INVALID")
     \/ Has(FHCRC) /\ HeaderCrcRight /\ Advance(start + 2, "trailer")

Trailer == Len(src) - 8

(* The size the trailer gives, in halves. *)
DlenLow  == Le16(Trailer + 4)
DlenHigh == Le16(Trailer + 6)

TooLarge ==
  \/ DlenHigh > destLen \div 65536
  \/ DlenHigh = destLen \div 65536 /\ DlenLow > destLen % 65536

ReadTrailer ==
  /\ pc = "trailer"
  /\ \/ start > Trailer /\ Return("INVALID")
     \/ start <= Trailer /\ TooLarge /\ Return("NOSPACE")
     \/ /\ start <= Trailer
        /\ ~TooLarge
        /\ Start(start, Trailer)
        /\ UNCHANGED <<containerVars, start, bfinal, treeVars, lt, dt,
                       matchVars, out, ret, outSize>>

Inflating ==
  /\ Block
  /\ UNCHANGED <<containerVars, start, ret, outSize>>

(* An error of the inflater is reported as invalid, whichever it was. *)
InflateFailed == pc = "error" /\ Return("INVALID")

SizeRight == Len(out) = 65536 * DlenHigh + DlenLow

ResultRight_Wrong == SizeRight

ResultRight == SizeRight /\ WordAt(Trailer, 4) = Crc32(out)

Finish ==
  /\ pc = "done"
  /\ \/ ~ResultRight /\ Return("INVALID")
     \/ /\ ResultRight
        /\ outSize' = Len(out)
        /\ ret' = "OK"
        /\ pc' = "returned"
        /\ UNCHANGED <<containerVars, start, blockVars, out>>

Container == \/ Call \/ CheckHeader \/ SkipExtra \/ SkipName \/ SkipComment
             \/ CheckHeaderCrc \/ ReadTrailer \/ InflateFailed \/ Finish

(* The decoder has returned; nothing more happens. *)
Over == pc = "returned" /\ UNCHANGED vars

Next == Container \/ Inflating \/ Over

Spec == Init /\ [][Next]_vars
-----------------------------------------------------------------------------
(* The longest match, and the farthest, that a stream can code. *)
MaxLength == 258
MaxDistance == 32768

(* The variables have their types; the numbers they hold fit the arrays of *)
(* the code that they index or are stored in.                              *)
TypeOK ==
  /\ src \in Seq(Byte) /\ out \in Seq(Byte)
  /\ {dstSize, destLen, start, sourceEnd, outSize} \subseteq Nat
  /\ d.bitcount \in 0 .. 32 /\ d.tag \in 0 .. Pow2[d.bitcount] - 1
  /\ d.overflow \in BOOLEAN /\ bfinal \in BOOLEAN
  /\ hlit \in 0 .. 286 /\ hdist \in 0 .. 30
  /\ lengths \in Seq(0 .. 15) /\ Len(lengths) <= hlit + hdist
  /\ \A t \in {lt, dt} : t.maxSym \in -1 .. 287 /\ Len(t.symbols) <= 288
  /\ length \in 0 .. MaxLength /\ offs \in 0 .. MaxDistance
  /\ ret \in Errors \cup {"RUNNING", "OK"}

(* Whatever the payload, the header is read inside it, the compressed data *)
(* before the trailer and the result below the ceiling; a match that is    *)
(* copied begins at a byte the stream has produced; and no walk through a  *)
(* tree, however its lengths were made up, leaves the tables of the tree.  *)
MemorySafe ==
  /\ TypeOK
  /\ start <= Len(src)
  /\ d.source <= sourceEnd /\ sourceEnd <= Len(src)
  /\ Len(out) <= destLen \/ pc = "call"
  /\ Len(out) <= dstSize
  /\ pc = "copy" => offs \in 1 .. Len(out) /\ length <= Room
  /\ WalkStays

(* Whatever the payload, the decoder keeps what kernel_payload_load promises. *)
Promise == INSTANCE PayloadDecoder
             WITH OK <- "OK", Running <- "RUNNING", MayBeEmpty <- TRUE

KeepsPromise == Promise!Spec
=============================================================================
