----------------------------- MODULE Lz4Legacy ------------------------------
(***************************************************************************)
(* The legacy-framed LZ4 decoder of src/lib/decompress/lz4.c: the stream   *)
(* loop kernel_decompress_lz4() and the block loop lz4_decode_block() it   *)
(* calls.  One action stands for one phase of a loop body, up to the next  *)
(* read of the input, so every early return is a disjunct of its own.      *)
(*                                                                         *)
(* Pointers are offsets: ip counts bytes of src consumed, Len(out) is op.  *)
(* The block's oend is op + (dst_size - total), that is dst_size.          *)
(***************************************************************************)
EXTENDS Integers, Sequences

CONSTANTS
  Nibble,    (* values of half a byte (16 in the code); a byte has Nibble^2 *)
  SizeMax,   (* the largest size_t, (size_t)-1                              *)
  MinMatch,  (* LZ4_MIN_MATCH                                               *)
  Magic,     (* LZ4_LEGACY_MAGIC                                            *)
  Inputs,    (* the payloads (src, src_size) that are decoded               *)
  DstSizes   (* the ceilings dst_size they are decoded under                *)

ByteBase == Nibble * Nibble

Byte == 0 .. ByteBase - 1

ASSUME Lz4Assumption ==
  /\ Nibble \in Nat \ {0, 1}
  /\ SizeMax \in Nat /\ ByteBase <= SizeMax
  /\ MinMatch \in 1 .. SizeMax
  /\ Magic \in Nat \ {0}
  /\ Inputs \subseteq Seq(Byte)
  /\ \A s \in Inputs : Len(s) <= SizeMax
  /\ DstSizes \subseteq 0 .. SizeMax

VARIABLES
  src,       (* the payload                                                 *)
  dstSize,   (* dst_size                                                    *)
  pc,        (* the phase that runs next                                    *)
  ip,        (* bytes of src consumed                                       *)
  iend,      (* end of the current block                                    *)
  blockStart,(* bytes of out that precede the current block                 *)
  token,     (* token of the current sequence                               *)
  literalLen,
  matchLen,
  offset,
  out,       (* bytes written at dst                                        *)
  ret,       (* value returned, "RUNNING" before                            *)
  outSize    (* *out_size                                                   *)

vars == <<src, dstSize, pc, ip, iend, blockStart, token, literalLen,
          matchLen, offset, out, ret, outSize>>

Errors == {"INVALID", "NOSPACE", "UNSUPPORTED", "NOMEM"}

Phases == {"magic", "chunk", "token", "literalExt", "literals", "offset",
           "matchExt", "matchLen", "copy", "returned"}

(* The definitions named _Wrong, here and below, are mistakes the runs are *)
(* known to notice; nothing uses them.  This one: a plain, signed char.    *)
AtSigned_Wrong(i) == IF src[i + 1] < ByteBase \div 2
                     THEN src[i + 1] ELSE src[i + 1] - ByteBase

(* src[i], counted from 0 as in C. *)
At(i) == src[i + 1]

Le16(i) == At(i) + ByteBase * At(i + 1)

(* lz4_read_le32 *)
Le32(i) == Le16(i) + ByteBase * ByteBase * Le16(i + 2)

(* Bytes left before the end of the payload, and of the block. *)
StreamLeft == Len(src) - ip
BlockLeft  == iend - ip

(* >= where the code has > *)
RoomExactFit_Wrong == dstSize - Len(out) - 1

(* Room left between op and oend. *)
Room == dstSize - Len(out)

Return(error) ==
  /\ pc' = "returned"
  /\ ret' = error
  /\ UNCHANGED <<src, dstSize, ip, iend, blockStart, token, literalLen,
                 matchLen, offset, out, outSize>>

InitWith(s, d) ==
  /\ src = s
  /\ dstSize = d
  /\ pc = "magic"
  /\ ip = 0 /\ iend = 0 /\ blockStart = 0
  /\ token = 0 /\ literalLen = 0 /\ matchLen = 0 /\ offset = 0
  /\ out = <<>>
  /\ ret = "RUNNING"
  /\ outSize = 0

Init == \E s \in Inputs, d \in DstSizes : InitWith(s, d)
-----------------------------------------------------------------------------
(* kernel_decompress_lz4 *)

HasMagic == Len(src) >= 4 /\ Le32(0) = Magic

CheckMagic ==
  /\ pc = "magic"
  /\ \/ ~HasMagic /\ Return("INVALID")
     \/ /\ HasMagic
        /\ ip' = 4
        /\ pc' = "chunk"
        /\ UNCHANGED <<src, dstSize, iend, blockStart, token, literalLen,
                       matchLen, offset, out, ret, outSize>>

HasOutput_Wrong == TRUE
HasOutput == Len(out) > 0

(* The stream is over: no output at all is an error. *)
Finish ==
  \/ /\ ~HasOutput
     /\ Return("INVALID")
  \/ /\ HasOutput
     /\ outSize' = Len(out)
     /\ ret' = "OK"
     /\ pc' = "returned"
     /\ UNCHANGED <<src, dstSize, ip, iend, blockStart, token, literalLen,
                    matchLen, offset, out>>

ChunkSizeClamped_Wrong ==
  IF Le32(ip) > StreamLeft - 4 THEN StreamLeft - 4 ELSE Le32(ip)
ChunkSize == Le32(ip)

(* The input is used up, or a chunk size of zero ends the stream. *)
EndOfStream ==
  /\ pc = "chunk"
  /\ \/ StreamLeft = 0
     \/ StreamLeft >= 4 /\ ChunkSize = 0
  /\ Finish

(* continue before ip += 4 *)
AfterMagic_Wrong == ip
AfterMagic == ip + 4

(* A concatenated stream's magic stands where a chunk size would. *)
NextMagic ==
  /\ pc = "chunk"
  /\ StreamLeft >= 4
  /\ ChunkSize = Magic
  /\ ip' = AfterMagic
  /\ UNCHANGED <<src, dstSize, pc, iend, blockStart, token, literalLen,
                 matchLen, offset, out, ret, outSize>>

BadChunk ==
  /\ pc = "chunk"
  /\ StreamLeft > 0
  /\ \/ /\ StreamLeft < 4
        /\ Return("INVALID")
     \/ /\ StreamLeft >= 4
        /\ ChunkSize \notin {0, Magic}
        /\ IF ChunkSize > StreamLeft - 4
           THEN Return("INVALID")
           ELSE Len(out) >= dstSize /\ Return("NOSPACE")

EnterBlock ==
  /\ pc = "chunk"
  /\ StreamLeft >= 4
  /\ ChunkSize \notin {0, Magic}
  /\ ChunkSize <= StreamLeft - 4
  /\ Len(out) < dstSize
  /\ ip' = ip + 4
  /\ iend' = ip + 4 + ChunkSize
  /\ blockStart' = Len(out)
  /\ pc' = "token"
  /\ UNCHANGED <<src, dstSize, token, literalLen, matchLen, offset, out,
                 ret, outSize>>
-----------------------------------------------------------------------------
(* lz4_decode_block *)

(* while (ip < iend) is over: back in the stream loop, whose ip moves on by *)
(* chunk_size, to iend, and whose total and op take in what was produced.   *)
LeaveBlock ==
  /\ pc = "token"
  /\ BlockLeft = 0
  /\ pc' = "chunk"
  /\ UNCHANGED <<src, dstSize, ip, iend, blockStart, token, literalLen,
                 matchLen, offset, out, ret, outSize>>

ReadToken ==
  /\ pc = "token"
  /\ BlockLeft > 0
  /\ token' = At(ip)
  /\ ip' = ip + 1
  /\ literalLen' = At(ip) \div Nibble
  /\ pc' = IF At(ip) \div Nibble = Nibble - 1 THEN "literalExt" ELSE "literals"
  /\ UNCHANGED <<src, dstSize, iend, blockStart, matchLen, offset, out, ret,
                 outSize>>

(* One iteration of lz4_extend_length on the length len: it succeeds when *)
(* a byte is left and the sum does not wrap, and leaves ExtendedTo(len).  *)
Extends(len) == BlockLeft > 0 /\ At(ip) <= SizeMax - len

ExtendedTo(len) == len + At(ip)

ExtendLiteral ==
  /\ pc = "literalExt"
  /\ \/ ~Extends(literalLen) /\ Return("INVALID")
     \/ /\ Extends(literalLen)
        /\ literalLen' = ExtendedTo(literalLen)
        /\ ip' = ip + 1
        /\ pc' = IF At(ip) = ByteBase - 1 THEN pc ELSE "literals"
        /\ UNCHANGED <<src, dstSize, iend, blockStart, token, matchLen,
                       offset, out, ret, outSize>>

(* The literals are copied; a block may end right after them. *)
CopyLiterals ==
  /\ pc = "literals"
  /\ \/ literalLen > BlockLeft /\ Return("INVALID")
     \/ literalLen <= BlockLeft /\ literalLen > Room /\ Return("NOSPACE")
     \/ /\ literalLen <= BlockLeft
        /\ literalLen <= Room
        /\ out' = out \o SubSeq(src, ip + 1, ip + literalLen)
        /\ ip' = ip + literalLen
        /\ pc' = IF ip + literalLen = iend THEN "chunk" ELSE "offset"
        /\ UNCHANGED <<src, dstSize, iend, blockStart, token, literalLen,
                       matchLen, offset, ret, outSize>>

OffsetReachesTooFar_Wrong(o) == o # 0 /\ o <= Len(out) - blockStart + 1

(* An offset must point at a byte this block has produced. *)
OffsetReachesBack(o) == o # 0 /\ o <= Len(out) - blockStart

ReadOffset ==
  /\ pc = "offset"
  /\ \/ BlockLeft < 2 /\ Return("INVALID")
     \/ BlockLeft >= 2 /\ ~OffsetReachesBack(Le16(ip)) /\ Return("INVALID")
     \/ /\ BlockLeft >= 2
        /\ OffsetReachesBack(Le16(ip))
        /\ offset' = Le16(ip)
        /\ ip' = ip + 2
        /\ matchLen' = token % Nibble
        /\ pc' = IF token % Nibble = Nibble - 1 THEN "matchExt" ELSE "matchLen"
        /\ UNCHANGED <<src, dstSize, iend, blockStart, token, literalLen, out,
                       ret, outSize>>

ExtendMatch ==
  /\ pc = "matchExt"
  /\ \/ ~Extends(matchLen) /\ Return("INVALID")
     \/ /\ Extends(matchLen)
        /\ matchLen' = ExtendedTo(matchLen)
        /\ ip' = ip + 1
        /\ pc' = IF At(ip) = ByteBase - 1 THEN pc ELSE "matchLen"
        /\ UNCHANGED <<src, dstSize, iend, blockStart, token, literalLen,
                       offset, out, ret, outSize>>

(* match_len += LZ4_MIN_MATCH, which must neither wrap nor pass oend. *)
CheckMatch ==
  /\ pc = "matchLen"
  /\ \/ matchLen > SizeMax - MinMatch /\ Return("INVALID")
     \/ /\ matchLen <= SizeMax - MinMatch
        /\ matchLen + MinMatch > Room
        /\ Return("NOSPACE")
     \/ /\ matchLen <= SizeMax - MinMatch
        /\ matchLen + MinMatch <= Room
        /\ matchLen' = matchLen + MinMatch
        /\ pc' = "copy"
        /\ UNCHANGED <<src, dstSize, ip, iend, blockStart, token, literalLen,
                       offset, out, ret, outSize>>

(* *op++ = *match++, byte by byte: match stays offset bytes behind op, so *)
(* a match longer than its offset reads bytes it has itself written.      *)
CopyMatchByte ==
  /\ pc = "copy"
  /\ out' = Append(out, out[Len(out) - offset + 1])
  /\ matchLen' = matchLen - 1
  /\ pc' = IF matchLen = 1 THEN "token" ELSE "copy"
  /\ UNCHANGED <<src, dstSize, ip, iend, blockStart, token, literalLen, offset,
                 ret, outSize>>

Stream == CheckMagic \/ EndOfStream \/ NextMagic \/ BadChunk \/ EnterBlock

Block == \/ LeaveBlock \/ ReadToken \/ ExtendLiteral \/ CopyLiterals
         \/ ReadOffset \/ ExtendMatch \/ CheckMatch \/ CopyMatchByte

(* The decoder has returned; nothing more happens. *)
Returned == pc = "returned" /\ UNCHANGED vars

Next == Stream \/ Block \/ Returned

Spec == Init /\ [][Next]_vars

(* The decoder is straight-line code on the boot CPU: it never stops early. *)
FairSpec == Spec /\ WF_vars(Next)
-----------------------------------------------------------------------------
(* The variables have their types, whatever the payload holds. *)
TypeOK ==
  /\ src \in Seq(Byte)
  /\ dstSize \in Nat
  /\ pc \in Phases
  /\ ip \in Nat /\ iend \in Nat /\ blockStart \in Nat
  /\ token \in Byte
  /\ literalLen \in Nat /\ matchLen \in Nat /\ offset \in Nat
  /\ out \in Seq(Byte)
  /\ ret \in Errors \cup {"RUNNING", "OK"}
  /\ outSize \in Nat

InBlock == pc \in {"token", "literalExt", "literals", "offset", "matchExt",
                   "matchLen", "copy"}

(* Every byte read from the payload lies inside it, and inside the block    *)
(* while one is decoded: ip never passes iend nor the end of the buffer.    *)
ReadsInside ==
  /\ ip <= Len(src)
  /\ InBlock => ip <= iend /\ iend <= Len(src)

(* What is written never passes dst + dst_size; a match copy that has begun *)
(* fits, and reads a byte the current block has already produced.           *)
WritesInside ==
  /\ Len(out) <= dstSize
  /\ pc = "copy" =>
       /\ matchLen \in 1 .. Room
       /\ offset \in 1 .. Len(out) - blockStart

(* A length in a size_t variable is one a size_t can hold: however long the *)
(* run of 255s, the sum of the extension bytes has not wrapped.             *)
NoLengthWraps ==
  /\ literalLen <= SizeMax
  /\ matchLen <= SizeMax

(* The decoder reads and writes nothing outside its two buffers, for every *)
(* payload, well-formed or not.                                            *)
MemorySafe == ReadsInside /\ WritesInside /\ NoLengthWraps

(* Whatever the payload, the decoder keeps what kernel_payload_load promises. *)
Promise == INSTANCE PayloadDecoder
             WITH OK <- "OK", Running <- "RUNNING", MayBeEmpty <- FALSE

KeepsPromise == Promise!Spec

(* The decoder returns for every payload: each turn of its loops uses up *)
(* input or shrinks the match that is left to copy.                      *)
Terminates == <>(pc = "returned")
=============================================================================
