-------------------------- MODULE Lz4Legacy_proofs --------------------------
(***************************************************************************)
(* Theorems about the LZ4 decoder, for every payload, every ceiling        *)
(* dst_size and every width of a byte and of a size_t.                     *)
(*                                                                         *)
(* MemorySafe is not inductive: a step that copies a match knows neither   *)
(* that the offset was checked two phases ago nor that nothing it was      *)
(* checked against has shrunk since.  Inv carries those facts along.       *)
(***************************************************************************)
EXTENDS Lz4Legacy, SequenceTheorems, TLAPS

(* What an earlier phase has established for a later one. *)
Carried ==
  /\ Len(src) <= SizeMax
  /\ dstSize <= SizeMax
  /\ blockStart <= Len(out)
  /\ pc \in {"matchExt", "matchLen"} => offset \in 1 .. Len(out) - blockStart
  /\ pc # "returned" => ret = "RUNNING" /\ outSize = 0
  /\ pc = "returned" => ret # "RUNNING"

Inv == TypeOK /\ MemorySafe /\ Carried
-----------------------------------------------------------------------------
(* The two halves of a byte are half-bytes, and fit a size_t. *)
LEMMA NibbleFits ==
  ASSUME NEW b \in Byte
  PROVE  /\ b \div Nibble \in Nat /\ b \div Nibble <= SizeMax
         /\ b % Nibble \in Nat /\ b % Nibble <= SizeMax
<1>. USE Lz4Assumption DEF Byte, ByteBase
<1>1. b \in Nat /\ b < Nibble * Nibble /\ Nibble \in Nat /\ Nibble > 1
      /\ SizeMax \in Nat /\ Nibble * Nibble <= SizeMax
  BY SMT
<1>2. b % Nibble \in Nat /\ b % Nibble < Nibble
  BY <1>1, SMT
<1>3. b \div Nibble \in Nat /\ b \div Nibble <= b
  BY <1>1, SMT
<1>4. Nibble <= Nibble * Nibble
  BY <1>1, SMT
<1>. QED  BY <1>1, <1>2, <1>3, <1>4, SMT

(* A read inside the payload yields a byte. *)
LEMMA ReadsAByte ==
  ASSUME NEW s \in Seq(Byte), NEW i \in 0 .. Len(s) - 1
  PROVE  s[i + 1] \in Byte /\ s[i + 1] \in Nat
BY Lz4Assumption DEF Byte, ByteBase

(* The decoder starts in a state of the invariant. *)
LEMMA InitInv == Init => Inv
<1>. SUFFICES ASSUME NEW s \in Inputs, NEW d \in DstSizes, InitWith(s, d)
     PROVE  Inv
  BY DEF Init
<1>1. s \in Seq(Byte) /\ Len(s) \in Nat /\ Len(s) <= SizeMax
  BY Lz4Assumption
<1>2. d \in Nat /\ d <= SizeMax /\ SizeMax \in Nat /\ 0 \in Byte
  BY Lz4Assumption, SMT DEF Byte, ByteBase
<1>3. TypeOK
  BY <1>1, <1>2 DEF InitWith, TypeOK, Phases, Errors
<1>4. MemorySafe
  BY <1>1, <1>2 DEF InitWith, MemorySafe, ReadsInside, WritesInside,
     NoLengthWraps, InBlock
<1>5. Carried
  BY <1>1, <1>2 DEF InitWith, Carried
<1>. QED  BY <1>3, <1>4, <1>5 DEF Inv

(* Returning an error keeps the invariant from any phase: it moves nothing. *)
LEMMA ReturnInv ==
  ASSUME Inv, NEW e \in Errors, Return(e)
  PROVE  Inv'
<1>1. TypeOK'
  BY DEF Inv, TypeOK, Return, Phases, Errors
<1>2. MemorySafe'
  BY DEF Inv, TypeOK, Return, MemorySafe, ReadsInside, WritesInside,
     NoLengthWraps, InBlock, Room
<1>3. Carried'
  BY DEF Inv, TypeOK, Carried, Return, Errors
<1>. QED  BY <1>1, <1>2, <1>3 DEF Inv

(* Every step of the stream loop keeps the invariant. *)
LEMMA StreamInv ==
  ASSUME Inv, Stream
  PROVE  Inv'
<1>. USE DEF Inv
<1>. "INVALID" \in Errors /\ "NOSPACE" \in Errors
  BY DEF Errors
<1>a. SizeMax \in Nat /\ Len(src) \in Nat /\ Len(out) \in Nat
  BY Lz4Assumption DEF TypeOK
<1>1. CASE CheckMagic
  <2>1. CASE Return("INVALID")  BY <2>1, ReturnInv
  <2>2. CASE HasMagic /\ ip' = 4 /\ pc' = "chunk"
             /\ UNCHANGED <<src, dstSize, iend, blockStart, token, literalLen,
                            matchLen, offset, out, ret, outSize>>
    BY <1>1, <1>a, <2>2 DEF CheckMagic, HasMagic, TypeOK, Phases, MemorySafe,
       ReadsInside, WritesInside, NoLengthWraps, InBlock, Room, Carried
  <2>. QED  BY <1>1, <2>1, <2>2 DEF CheckMagic
<1>2. CASE EndOfStream
  <2>1. CASE Return("INVALID")  BY <2>1, ReturnInv
  <2>2. CASE outSize' = Len(out) /\ ret' = "OK" /\ pc' = "returned"
             /\ UNCHANGED <<src, dstSize, ip, iend, blockStart, token,
                            literalLen, matchLen, offset, out>>
    BY <1>2, <1>a, <2>2 DEF TypeOK, Phases, MemorySafe, ReadsInside,
       WritesInside, NoLengthWraps, InBlock, Room, Carried
  <2>. QED  BY <1>2, <2>1, <2>2 DEF EndOfStream, Finish, HasOutput
<1>3. CASE NextMagic
  BY <1>3, <1>a DEF NextMagic, AfterMagic, StreamLeft, TypeOK, Phases, MemorySafe,
     ReadsInside, WritesInside, NoLengthWraps, InBlock, Room, Carried
<1>4. CASE BadChunk
  BY <1>4, ReturnInv DEF BadChunk
<1>5. CASE EnterBlock
  <2>1. Le32(ip) \in Nat
    <3>1. At(ip) \in Nat /\ At(ip + 1) \in Nat
          /\ At(ip + 2) \in Nat /\ At(ip + 2 + 1) \in Nat
      <4>1. \A i \in {ip, ip + 1, ip + 2, ip + 2 + 1} : i \in 0 .. Len(src) - 1
        BY <1>5, <1>a DEF EnterBlock, ChunkSize, StreamLeft, TypeOK
      <4>2. \A i \in 0 .. Len(src) - 1 : At(i) \in Nat
        BY ReadsAByte DEF At, TypeOK
      <4>. QED  BY <4>1, <4>2
    <3>2. ByteBase \in Nat
      BY Lz4Assumption, SMT DEF ByteBase
    <3>3. Le16(ip) \in Nat /\ Le16(ip + 2) \in Nat
      BY <3>1, <3>2, SMT DEF Le16
    <3>4. ByteBase * ByteBase * Le16(ip + 2) \in Nat
      BY <3>2, <3>3, SMT
    <3>. QED  BY <3>3, <3>4 DEF Le32
  <2>2. TypeOK'
    BY <1>5, <1>a, <2>1 DEF EnterBlock, ChunkSize, TypeOK, Phases
  <2>3. MemorySafe'
    BY <1>5, <1>a, <2>1 DEF EnterBlock, ChunkSize, StreamLeft, TypeOK, MemorySafe,
       ReadsInside, WritesInside, NoLengthWraps, InBlock, Room
  <2>4. Carried'
    BY <1>5, <1>a DEF EnterBlock, ChunkSize, TypeOK, Carried
  <2>. QED  BY <2>2, <2>3, <2>4
<1>. QED  BY <1>1, <1>2, <1>3, <1>4, <1>5 DEF Stream

(* Every step of the block loop keeps the invariant. *)
LEMMA BlockInv ==
  ASSUME Inv, Block
  PROVE  Inv'
<1>. USE DEF Inv
<1>. "INVALID" \in Errors /\ "NOSPACE" \in Errors
  BY DEF Errors
<1>a. /\ SizeMax \in Nat /\ Len(src) \in Nat /\ Len(out) \in Nat
      /\ MinMatch \in Nat /\ MinMatch >= 1 /\ Nibble \in Nat
  BY Lz4Assumption DEF TypeOK
<1>b. pc \in {"token", "literalExt", "matchExt"} /\ BlockLeft > 0
        => At(ip) \in Byte /\ At(ip) \in Nat
  BY <1>a, ReadsAByte DEF BlockLeft, At, TypeOK, MemorySafe, ReadsInside, InBlock
<1>1. CASE LeaveBlock
  BY <1>1, <1>a DEF LeaveBlock, BlockLeft, TypeOK, Phases, MemorySafe,
     ReadsInside, WritesInside, NoLengthWraps, InBlock, Room, Carried
<1>2. CASE ReadToken
  <2>1. At(ip) \in Byte /\ At(ip) \div Nibble \in Nat
        /\ At(ip) \div Nibble <= SizeMax
    BY <1>2, <1>b, NibbleFits DEF ReadToken
  <2>2. TypeOK'
    BY <1>2, <1>a, <2>1 DEF ReadToken, TypeOK, Phases
  <2>3. MemorySafe'
    BY <1>2, <1>a, <2>1 DEF ReadToken, BlockLeft, TypeOK, MemorySafe,
       ReadsInside, WritesInside, NoLengthWraps, InBlock, Room
  <2>4. Carried'
    BY <1>2, <1>a DEF ReadToken, TypeOK, Carried
  <2>. QED  BY <2>2, <2>3, <2>4
<1>3. CASE ExtendLiteral
  <2>1. CASE Return("INVALID")  BY <2>1, ReturnInv
  <2>2. CASE Extends(literalLen) /\ ~Return("INVALID")
    <3>1. At(ip) \in Nat /\ literalLen + At(ip) <= SizeMax /\ BlockLeft > 0
      BY <1>3, <1>a, <1>b, <2>2 DEF ExtendLiteral, Extends, TypeOK
    <3>. QED
      BY <1>3, <1>a, <2>2, <3>1 DEF ExtendLiteral, ExtendedTo, BlockLeft,
         TypeOK, Phases, MemorySafe, ReadsInside, WritesInside, NoLengthWraps,
         InBlock, Room, Carried
  <2>. QED  BY <1>3, <2>1, <2>2 DEF ExtendLiteral
<1>4. CASE CopyLiterals
  <2>1. CASE Return("INVALID") \/ Return("NOSPACE")  BY <2>1, ReturnInv
  <2>2. CASE ~(Return("INVALID") \/ Return("NOSPACE"))
    <3>1. /\ literalLen <= BlockLeft /\ literalLen <= Room
          /\ out' = out \o SubSeq(src, ip + 1, ip + literalLen)
          /\ ip' = ip + literalLen
          /\ pc' = IF ip + literalLen = iend THEN "chunk" ELSE "offset"
          /\ UNCHANGED <<src, dstSize, iend, blockStart, token, literalLen,
                         matchLen, offset, ret, outSize>>
          /\ pc = "literals"
      BY <1>4, <2>2 DEF CopyLiterals
    <3>2. SubSeq(src, ip + 1, ip + literalLen) \in Seq(Byte)
          /\ Len(SubSeq(src, ip + 1, ip + literalLen)) = literalLen
      BY <3>1, <1>a DEF TypeOK, MemorySafe, ReadsInside, InBlock, BlockLeft
    <3>3. out' \in Seq(Byte) /\ Len(out') = Len(out) + literalLen
      BY <3>1, <3>2 DEF TypeOK
    <3>. QED
      BY <3>1, <3>3, <1>a DEF BlockLeft, TypeOK, Phases, MemorySafe,
         ReadsInside, WritesInside, NoLengthWraps, InBlock, Room, Carried
  <2>. QED  BY <2>1, <2>2
<1>5. CASE ReadOffset
  <2>1. CASE Return("INVALID")  BY <2>1, ReturnInv
  <2>2. CASE ~Return("INVALID")
    <3>1. /\ BlockLeft >= 2 /\ OffsetReachesBack(Le16(ip))
          /\ offset' = Le16(ip) /\ ip' = ip + 2
          /\ matchLen' = token % Nibble
          /\ pc' = IF token % Nibble = Nibble - 1 THEN "matchExt" ELSE "matchLen"
          /\ UNCHANGED <<src, dstSize, iend, blockStart, token, literalLen, out,
                         ret, outSize>>
          /\ pc = "offset"
      BY <1>5, <2>2 DEF ReadOffset
    <3>2. At(ip) \in Nat /\ At(ip + 1) \in Nat
      <4>1. ip \in 0 .. Len(src) - 1 /\ ip + 1 \in 0 .. Len(src) - 1
        BY <3>1, <1>a DEF BlockLeft, TypeOK, MemorySafe, ReadsInside, InBlock
      <4>2. \A i \in 0 .. Len(src) - 1 : At(i) \in Nat
        BY ReadsAByte DEF At, TypeOK
      <4>. QED  BY <4>1, <4>2
    <3>3. Le16(ip) \in Nat
      BY <3>2, <1>a, SMT DEF Le16, ByteBase
    <3>4. token % Nibble \in Nat /\ token % Nibble <= SizeMax
      BY NibbleFits DEF TypeOK
    <3>. QED
      BY <3>1, <3>3, <3>4, <1>a DEF OffsetReachesBack, BlockLeft, TypeOK, Phases,
         MemorySafe, ReadsInside, WritesInside, NoLengthWraps, InBlock, Room,
         Carried
  <2>. QED  BY <2>1, <2>2
<1>6. CASE ExtendMatch
  <2>1. CASE Return("INVALID")  BY <2>1, ReturnInv
  <2>2. CASE Extends(matchLen) /\ ~Return("INVALID")
    <3>1. At(ip) \in Nat /\ matchLen + At(ip) <= SizeMax /\ BlockLeft > 0
      BY <1>6, <1>a, <1>b, <2>2 DEF ExtendMatch, Extends, TypeOK
    <3>2. TypeOK'
      BY <1>6, <2>2, <3>1 DEF ExtendMatch, ExtendedTo, TypeOK, Phases
    <3>3. MemorySafe'
      BY <1>6, <1>a, <2>2, <3>1 DEF ExtendMatch, ExtendedTo, BlockLeft, TypeOK,
         MemorySafe, ReadsInside, WritesInside, NoLengthWraps, InBlock, Room
    <3>4. Carried'
      BY <1>6, <2>2 DEF ExtendMatch, Carried
    <3>. QED  BY <3>2, <3>3, <3>4
  <2>. QED  BY <1>6, <2>1, <2>2 DEF ExtendMatch
<1>7. CASE CheckMatch
  <2>1. CASE Return("INVALID") \/ Return("NOSPACE")  BY <2>1, ReturnInv
  <2>2. CASE ~(Return("INVALID") \/ Return("NOSPACE"))
    <3>1. /\ pc = "matchLen" /\ pc' = "copy"
          /\ matchLen <= SizeMax - MinMatch /\ matchLen + MinMatch <= Room
          /\ matchLen' = matchLen + MinMatch
          /\ UNCHANGED <<src, dstSize, ip, iend, blockStart, token, literalLen,
                         offset, out, ret, outSize>>
      BY <1>7, <2>2 DEF CheckMatch
    <3>2. TypeOK'
      BY <1>a, <3>1 DEF TypeOK, Phases
    <3>3. MemorySafe'
      BY <1>a, <3>1 DEF TypeOK, MemorySafe, ReadsInside, WritesInside,
         NoLengthWraps, InBlock, Room, Carried
    <3>4. Carried'
      BY <3>1 DEF Carried
    <3>. QED  BY <3>2, <3>3, <3>4
  <2>. QED  BY <2>1, <2>2
<1>8. CASE CopyMatchByte
  <2>1. pc = "copy" /\ matchLen \in 1 .. Room
        /\ offset \in 1 .. Len(out) - blockStart
    BY <1>8 DEF CopyMatchByte, MemorySafe, WritesInside
  <2>2. out[Len(out) - offset + 1] \in Byte
    BY <2>1, <1>a DEF TypeOK
  <2>3. out' \in Seq(Byte) /\ Len(out') = Len(out) + 1
    BY <1>8, <2>2 DEF CopyMatchByte, TypeOK
  <2>. QED
    BY <1>8, <1>a, <2>1, <2>3 DEF CopyMatchByte, TypeOK, Phases, MemorySafe,
       ReadsInside, WritesInside, NoLengthWraps, InBlock, Room, Carried
<1>. QED  BY <1>1, <1>2, <1>3, <1>4, <1>5, <1>6, <1>7, <1>8 DEF Block

(* Inv is an invariant of the decoder. *)
THEOREM Invariance == Spec => []Inv
<1>1. Inv /\ [Next]_vars => Inv'
  <2>. SUFFICES ASSUME Inv, [Next]_vars  PROVE Inv'
    OBVIOUS
  <2>1. CASE Stream  BY <2>1, StreamInv
  <2>2. CASE Block  BY <2>2, BlockInv
  <2>3. CASE UNCHANGED vars
    BY <2>3 DEF vars, Inv, TypeOK, MemorySafe, ReadsInside, WritesInside,
       NoLengthWraps, InBlock, Room, Carried
  <2>. QED  BY <2>1, <2>2, <2>3 DEF Next, Returned
<1>. QED  BY InitInv, <1>1, PTL DEF Spec

(* The variables of lz4.c keep their types, for every payload. *)
THEOREM TypeCorrect == Spec => []TypeOK
BY Invariance, PTL DEF Inv

(* lz4_decode_block and kernel_decompress_lz4 read and write nothing outside *)
(* the payload and the dst_size bytes at dst, for every payload.             *)
THEOREM Safe == Spec => []MemorySafe
BY Invariance, PTL DEF Inv
-----------------------------------------------------------------------------
(* Bytes already written stay, and no more than dst_size are ever there. *)
LEMMA OutputGrows ==
  ASSUME Inv, Inv', CopyLiterals \/ CopyMatchByte, out' # out
  PROVE  Promise!Produce
<1>. USE DEF Inv
<1>1. ret = "RUNNING" /\ UNCHANGED <<dstSize, ret, outSize>>
  BY DEF CopyLiterals, CopyMatchByte, Return, Carried
<1>2. PICK tail \in Seq(Byte) : out' = out \o tail
  <2>1. CASE CopyLiterals
    <3>1. out' = out \o SubSeq(src, ip + 1, ip + literalLen)
          /\ literalLen <= BlockLeft /\ pc = "literals"
      BY <2>1 DEF CopyLiterals, Return
    <3>2. SubSeq(src, ip + 1, ip + literalLen) \in Seq(Byte)
      BY <3>1 DEF TypeOK, MemorySafe, ReadsInside, InBlock, BlockLeft
    <3>. QED  BY <3>1, <3>2
  <2>2. CASE CopyMatchByte
    <3>. DEFINE x == out[Len(out) - offset + 1]
    <3>1. x \in Byte
      BY <2>2 DEF CopyMatchByte, TypeOK, MemorySafe, WritesInside
    <3>2. out' = Append(out, x) /\ out \in Seq(Byte)
      BY <2>2 DEF CopyMatchByte, TypeOK
    <3>. HIDE DEF x
    <3>3. out' = out \o <<x>> /\ <<x>> \in Seq(Byte)
      BY <3>1, <3>2, AppendIsConcat
    <3>. QED  BY <3>3
  <2>. QED  BY <2>1, <2>2
<1>3. out \in Seq(Byte) /\ tail # <<>>
  BY <1>2, ConcatEmptySeq DEF TypeOK
<1>4. Len(tail) > 0
  BY <1>3, EmptySeq
<1>5. Len(out') > Len(out) /\ \A i \in 1 .. Len(out) : out'[i] = out[i]
  BY <1>2, <1>3, <1>4, ConcatProperties
<1>6. Len(out') <= dstSize
  BY <1>1 DEF MemorySafe, WritesInside
<1>. QED  BY <1>1, <1>5, <1>6 DEF Promise!Produce

(* Returning an error is the promise's Fail. *)
LEMMA ReturnFails ==
  ASSUME Inv, pc # "returned", NEW e \in Errors, Return(e)
  PROVE  Promise!Fail
BY DEF Inv, Carried, Return, Promise!Fail

(* lz4.c implements what kernel_payload_load() promises of a decoder: it     *)
(* never overwrites what it wrote, stays below the ceiling, and reports a    *)
(* size only on success, the number of bytes that are there.                 *)
THEOREM ImplementsPromise == Spec => KeepsPromise
<1>1. Init => Promise!Init
  BY Lz4Assumption DEF Init, InitWith, Promise!Init
<1>2. Inv /\ Inv' /\ [Next]_vars => [Promise!Next]_(Promise!decoderVars)
  <2>. SUFFICES ASSUME Inv, Inv', [Next]_vars
       PROVE  Promise!Next \/ UNCHANGED Promise!decoderVars
    OBVIOUS
  <2>. USE DEF Promise!Next, Promise!decoderVars
  <2>e. "INVALID" \in Errors /\ "NOSPACE" \in Errors
    BY DEF Errors
  <2>1. CASE CheckMagic
    BY <2>1, <2>e, ReturnFails DEF CheckMagic
  <2>2. CASE EndOfStream
    <3>1. CASE Return("INVALID")
      BY <2>2, <2>e, <3>1, ReturnFails DEF EndOfStream
    <3>2. CASE ~Return("INVALID")
      BY <2>2, <3>2 DEF EndOfStream, Finish, HasOutput, Promise!Succeed, Inv, Carried, TypeOK
    <3>. QED  BY <3>1, <3>2
  <2>3. CASE NextMagic \/ EnterBlock \/ LeaveBlock \/ ReadToken
    BY <2>3 DEF NextMagic, EnterBlock, LeaveBlock, ReadToken
  <2>4. CASE BadChunk
    BY <2>4, <2>e, ReturnFails DEF BadChunk
  <2>5. CASE ExtendLiteral
    BY <2>5, <2>e, ReturnFails DEF ExtendLiteral
  <2>6. CASE CopyLiterals
    <3>1. CASE Return("INVALID") \/ Return("NOSPACE")
      BY <2>6, <2>e, <3>1, ReturnFails DEF CopyLiterals
    <3>2. CASE out' # out
      BY <2>6, <3>2, OutputGrows
    <3>3. CASE ~(Return("INVALID") \/ Return("NOSPACE")) /\ out' = out
      BY <2>6, <3>3 DEF CopyLiterals
    <3>. QED  BY <3>1, <3>2, <3>3
  <2>7. CASE ReadOffset
    BY <2>7, <2>e, ReturnFails DEF ReadOffset
  <2>8. CASE ExtendMatch
    BY <2>8, <2>e, ReturnFails DEF ExtendMatch
  <2>9. CASE CheckMatch
    BY <2>9, <2>e, ReturnFails DEF CheckMatch
  <2>10. CASE CopyMatchByte
    BY <2>10, OutputGrows DEF CopyMatchByte
  <2>11. CASE Returned \/ UNCHANGED vars
    BY <2>11 DEF Returned, vars
  <2>. QED
    BY <2>1, <2>2, <2>3, <2>4, <2>5, <2>6, <2>7, <2>8, <2>9, <2>10, <2>11
       DEF Next, Stream, Block
<1>. QED  BY <1>1, <1>2, Invariance, PTL DEF Spec, KeepsPromise, Promise!Spec
=============================================================================
