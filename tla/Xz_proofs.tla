------------------------------ MODULE Xz_proofs ------------------------------
(***************************************************************************)
(* Theorems about Xz, for every payload, every ceiling, every set of       *)
(* filters and every bound on what a symbol takes: the decoder reads and   *)
(* writes inside its buffers, and keeps what kernel_payload_load promises. *)
(***************************************************************************)
EXTENDS Xz, TLAPS, SequenceTheorems

Chunks ==
  [seq : {"CONTROL", "UNCOMPRESSED", "COMPRESSED", "PROPERTIES", "LZMA_PREPARE", "COPY",
          "LZMA_RUN", "COPIED", "PLACE", "IN_PLACE", "FLUSH"},
   next : {"CONTROL", "COPY", "PROPERTIES", "LZMA_PREPARE"},
   uncompressed : Nat, compressed : Nat, needDictReset : BOOLEAN, needProps : BOOLEAN]

RcTyped ==
  /\ rc = [in |-> rc.in, pos |-> rc.pos, limit |-> rc.limit, code |-> rc.code,
           temp |-> rc.temp, due |-> rc.due]
  /\ rc.in \in Nat /\ rc.pos \in Nat /\ rc.limit \in Nat /\ rc.temp \in Nat
  /\ rc.due \in {0, 1}

LzmaTyped ==
  /\ lzma = [rep |-> lzma.rep, state |-> lzma.state, len |-> lzma.len]
  /\ lzma.rep \in Seq(Nat) /\ Len(lzma.rep) = 4
  /\ lzma.state \in Nat /\ lzma.state <= 11 /\ lzma.len \in Nat /\ lzma.len <= 273

DictTyped ==
  /\ dict = [base |-> dict.base, limit |-> dict.limit, size |-> dict.size]
  /\ dict.base \in Nat /\ dict.limit \in Nat

BufferTyped ==
  /\ src \in Seq(Byte) /\ out \in Seq(Byte)
  /\ dstSize \in Nat /\ inPos \in Nat /\ outPos \in Nat
  /\ chunk \in Chunks
  /\ xzRet \in {"RUNNING", "OK", "STREAM_END", "DATA_ERROR"}

Typed == BufferTyped /\ RcTyped /\ LzmaTyped /\ DictTyped

Running == xzRet = "RUNNING"

(* Between the start of a run of lzma_main and the flush of what it wrote. *)
Busy == {"COPIED", "PLACE", "IN_PLACE", "FLUSH"}

Bounds ==
  /\ inPos <= Len(src)
  /\ dict.base <= outPos /\ outPos <= Len(out) /\ Len(out) <= dstSize
  /\ chunk.seq \notin Busy => outPos = Len(out)

(* How far lzma_main may write: a match that is cut off has come up to it. *)
Room ==
  /\ chunk.seq \in Busy =>
       /\ dict.base + dict.limit = Smaller(dstSize, outPos + chunk.uncompressed)
       /\ Len(out) <= dict.base + dict.limit
       /\ lzma.len = 0 \/ Len(out) = dict.base + dict.limit
  /\ chunk.seq \notin Busy /\ xzRet \in {"RUNNING", "STREAM_END"} => lzma.len = 0

(* What is in the copy is all that is left of the chunk, or else the payload *)
(* is at its end.                                                            *)
AllLeft == rc.temp = chunk.compressed /\ rc.temp < InRequired

CopyKept ==
  /\ rc.temp <= inPos
  /\ Running =>
       CASE chunk.seq = "COPIED" -> AllLeft
         [] chunk.seq = "LZMA_RUN" -> rc.temp = 0 \/ AllLeft
         [] chunk.seq = "FLUSH" -> \/ rc.temp = 0 \/ AllLeft
                                   \/ InAvail = 0 /\ rc.temp < chunk.compressed
         [] OTHER -> rc.temp = 0

Window ==
  /\ chunk.seq = "COPIED" /\ Running =>
       /\ rc.in = inPos - rc.temp /\ rc.limit = rc.temp /\ rc.pos + rc.due <= rc.limit + 4
  /\ chunk.seq = "IN_PLACE" /\ Running =>
       /\ rc.in = inPos /\ InAvail >= InRequired
       /\ rc.limit = LimitInPlace /\ rc.pos + rc.due <= rc.limit + 4

(* A chunk of symbols has a dictionary and its properties, *)
ToProperties ==
  \/ chunk.seq = "PROPERTIES"
  \/ chunk.seq \in {"UNCOMPRESSED", "COMPRESSED"} /\ chunk.next = "PROPERTIES"

ChunkReady ==
  /\ chunk.seq = "UNCOMPRESSED" => chunk.next # "COPY"
  /\ \/ chunk.seq \in {"CONTROL", "COPY"}
     \/ chunk.seq = "COMPRESSED" /\ chunk.next \in {"CONTROL", "COPY"}
     \/ chunk.seq = "UNCOMPRESSED" /\ chunk.next = "CONTROL"
     \/ ~chunk.needDictReset /\ ~chunk.needProps

(* and the latest distance lies in it, or is not going to be used. *)
RepThere ==
  \/ chunk.needDictReset \/ chunk.needProps \/ ToProperties
  \/ MatchByteThere

Decoder == Typed /\ Bounds /\ Room /\ CopyKept /\ Window /\ ChunkReady /\ RepThere

(* The stream around the blocks. *)
Around == {"header", "blockStart", "blockHeader", "padding", "check", "index", "record",
           "indexPadding", "indexCrc", "footer"}

Phase ==
  /\ pc \in Around \cup {"uncompress", "returned"}
  /\ pc \in Around => /\ chunk.seq = "CONTROL" /\ filter = 0
                      /\ xzRet \in {"RUNNING", "STREAM_END"}
  /\ xzRet = "STREAM_END" => chunk.seq = "CONTROL"
  /\ ret = "RUNNING" <=> pc # "returned"

Fields ==
  /\ header = [size |-> header.size, compressed |-> header.compressed,
               uncompressed |-> header.uncompressed]
  /\ header.size \in Nat /\ (pc = "blockHeader" => header.size > 0)
  /\ block.in \in Nat /\ block.out \in Nat /\ (filter # 0 => block.out <= Len(out))
  /\ index = [start |-> index.start, left |-> index.left] /\ index.start \in Nat
  /\ filter \in Filters \cup {0}
  /\ checkType \in Nat /\ outSize \in Nat
  /\ ret \in Errors \cup {"RUNNING", "OK"}

Stream == Phase /\ Fields

Inv == Decoder /\ Stream
-----------------------------------------------------------------------------
LEMMA ByteIs == \A v : v \in Byte <=> v \in Nat /\ v <= 255
BY DEF Byte

LEMMA ByteIn ==
  ASSUME NEW s \in Seq(Byte), NEW i \in Nat, i > 0, i <= Len(s)
  PROVE  s[i] \in Byte /\ s[i] \in Nat /\ s[i] <= 255
<1>1. i \in 1 .. Len(s)
  BY LenProperties
<1>2. s[i] \in Byte
  BY <1>1, ElementOfSeq
<1>. QED  BY <1>2, ByteIs

(* The filters give back as many bytes as they are given. *)
LEMMA OfLength ==
  ASSUME NEW S, NEW n \in Nat, NEW f \in [1 .. n -> S]
  PROVE  f \in Seq(S) /\ Len(f) = n
OBVIOUS

LEMMA Digits ==
  ASSUME NEW v \in Int
  PROVE  /\ (v \div 256 ^ 0) % 256 \in Byte
         /\ (v \div 256 ^ 1) % 256 \in Byte
         /\ (v \div 256 ^ 2) % 256 \in Byte
<1>1. 256 ^ 0 = 1 /\ 256 ^ 1 = 256 /\ 256 ^ 2 = 65536
  OBVIOUS
<1>2. /\ (v \div 1) % 256 \in Nat /\ (v \div 1) % 256 <= 255
      /\ (v \div 256) % 256 \in Nat /\ (v \div 256) % 256 <= 255
      /\ (v \div 65536) % 256 \in Nat /\ (v \div 65536) % 256 <= 255
  OBVIOUS
<1>. QED  BY <1>1, <1>2, ByteIs

LEMMA ToLeBytes ==
  ASSUME NEW v \in Int
  PROVE  ToLe(v, 3) \in Seq(Byte) /\ Len(ToLe(v, 3)) = 3
<1>. DEFINE f == ToLe(v, 3)
<1>1. f = [k \in 1 .. 3 |-> (v \div 256 ^ (k - 1)) % 256]
  BY DEF ToLe
<1>. HIDE DEF f
<1>2. /\ f[1] = (v \div 256 ^ (1 - 1)) % 256
      /\ f[2] = (v \div 256 ^ (2 - 1)) % 256
      /\ f[3] = (v \div 256 ^ (3 - 1)) % 256
      /\ DOMAIN f = 1 .. 3
      /\ f = [k \in 1 .. 3 |-> f[k]]
  <2>1. 1 \in 1 .. 3 /\ 2 \in 1 .. 3 /\ 3 \in 1 .. 3
    OBVIOUS
  <2>. QED  BY <1>1, <2>1, Zenon
<1>3. 1 - 1 = 0 /\ 2 - 1 = 1 /\ 3 - 1 = 2
  OBVIOUS
<1>4. f[1] \in Byte /\ f[2] \in Byte /\ f[3] \in Byte
  BY <1>2, <1>3, Digits
<1>5. \A k \in 1 .. 3 : f[k] \in Byte
  BY <1>4
<1>6. f \in [1 .. 3 -> Byte]
  BY <1>2, <1>5, Zenon
<1>7. f \in Seq(Byte) /\ Len(f) = 3
  BY <1>6, OfLength
<1>. QED  BY <1>7 DEF f

(* Four bytes, as an instruction has them. *)
Four(f) == f[1] \in Byte /\ f[2] \in Byte /\ f[3] \in Byte /\ f[4] \in Byte

LEMMA FourOfFour ==
  ASSUME NEW f \in Seq(Byte), Len(f) = 4
  PROVE  Four(f)
<1>1. f[1] \in Byte /\ f[2] \in Byte /\ f[3] \in Byte /\ f[4] \in Byte
  BY ByteIn
<1>. QED  BY <1>1, Zenon DEF Four

LEMMA FourOf ==
  ASSUME NEW v \in Int, NEW last \in Byte
  PROVE  Four(ToLe(v, 3) \o <<last>>)
<1>. DEFINE f == ToLe(v, 3)
<1>1. f \in Seq(Byte) /\ Len(f) = 3
  BY ToLeBytes
<1>. HIDE DEF f
<1>2. <<last>> \in Seq(Byte) /\ Len(<<last>>) = 1
  OBVIOUS
<1>. DEFINE g == f \o <<last>>
<1>3. g \in Seq(Byte) /\ Len(g) = Len(f) + Len(<<last>>)
  BY <1>1, <1>2, ConcatProperties, Zenon
<1>4. Len(g) = 4
  BY <1>1, <1>2, <1>3
<1>. HIDE DEF g
<1>5. Four(g)
  BY <1>3, <1>4, FourOfFour
<1>. QED  BY <1>5 DEF f, g

LEMMA WordBytes ==
  ASSUME NEW b \in Seq(Byte), NEW i \in WordsIn(b)
  PROVE  /\ i \in Nat /\ i + 4 <= Len(b)
         /\ b[i + 1] \in Byte /\ b[i + 2] \in Byte /\ b[i + 3] \in Byte /\ b[i + 4] \in Byte
         /\ b[i + 1] \in Nat /\ b[i + 4] \in Nat /\ b[i + 4] <= 255
         /\ Le(b, i) \in Nat
<1>1. PICK w \in 0 .. (Len(b) \div 4) - 1 : i = 4 * w
  BY DEF WordsIn
<1>2. Len(b) \in Nat
  BY LenProperties
<1>3. i \in Nat /\ i + 4 <= Len(b)
  BY <1>1, <1>2
<1>4. /\ b[i + 1] \in Byte /\ b[i + 2] \in Byte /\ b[i + 3] \in Byte /\ b[i + 4] \in Byte
  <2>1. /\ i + 1 \in Nat /\ i + 1 > 0 /\ i + 1 <= Len(b)
        /\ i + 2 \in Nat /\ i + 2 > 0 /\ i + 2 <= Len(b)
        /\ i + 3 \in Nat /\ i + 3 > 0 /\ i + 3 <= Len(b)
        /\ i + 4 \in Nat /\ i + 4 > 0 /\ i + 4 <= Len(b)
    BY <1>2, <1>3
  <2>. QED  BY <2>1, ByteIn
<1>5. b[i + 1] \in Nat /\ b[i + 2] \in Nat /\ b[i + 3] \in Nat /\ b[i + 4] \in Nat
      /\ b[i + 4] <= 255
  BY <1>4, ByteIs, Zenon
<1>6. Le(b, i) \in Nat
  <2>. DEFINE p == b[i + 1]
              q == b[i + 2]
              r == b[i + 3]
  <2>1. p \in Nat /\ q \in Nat /\ r \in Nat /\ Le(b, i) = p + 256 * q + 65536 * r
    BY <1>5 DEF Le
  <2>. HIDE DEF p, q, r
  <2>. QED  BY <2>1
<1>. QED  BY <1>3, <1>4, <1>5, <1>6

LEMMA UnchangedFour ==
  ASSUME NEW b \in Seq(Byte), NEW i \in WordsIn(b)
  PROVE  Four(Unchanged(b, i))
<1>1. i \in Nat /\ i + 4 <= Len(b) /\ Len(b) \in Nat
  BY WordBytes, LenProperties
<1>2. \A j \in i + 1 .. i + 4 : b[j] \in Byte
  BY <1>1, ByteIn
<1>3. Unchanged(b, i) \in Seq(Byte) /\ Len(Unchanged(b, i)) = 4
  <2>1. i + 1 \in Int /\ i + 4 \in Int /\ (i + 4) - (i + 1) + 1 = 4 /\ i + 1 <= i + 4
    BY <1>1
  <2>. QED  BY <1>2, <2>1, SubSeqProperties DEF Unchanged
<1>. QED  BY <1>3, FourOfFour

LEMMA ArmFour ==
  ASSUME NEW b \in Seq(Byte), NEW i \in WordsIn(b)
  PROVE  Four(ArmWord(b, i))
<1>1. i \in Nat /\ Le(b, i) \in Nat
  BY WordBytes
<1>2. (4 * Le(b, i) - (i + 8)) \div 4 \in Int /\ 235 \in Byte
  BY <1>1, ByteIs
<1>. QED  BY <1>2, FourOf, UnchangedFour DEF ArmWord

LEMMA Arm64Four ==
  ASSUME NEW b \in Seq(Byte), NEW i \in WordsIn(b)
  PROVE  Four(Arm64Word(b, i))
<1>1. i \in Nat /\ Le(b, i) \in Nat /\ b[i + 1] \in Nat /\ b[i + 4] \in Nat
  BY WordBytes
<1>2. Four(Arm64Bl(b, i))
  <2>. DEFINE addr == (Le(b, i) + (b[i + 4] % 4) * 2 ^ 24 - (i \div 4)) % 2 ^ 26
  <2>0. 2 ^ 24 = 16777216 /\ 2 ^ 26 = 67108864
    OBVIOUS
  <2>1. addr \in Nat /\ addr < 67108864
    <3>1. Le(b, i) + (b[i + 4] % 4) * 16777216 - (i \div 4) \in Int
      BY <1>1
    <3>. QED  BY <2>0, <3>1
  <2>. HIDE DEF addr
  <2>2. 148 + (addr \div 2 ^ 24) \in Byte
    BY <2>0, <2>1, ByteIs
  <2>. QED  BY <2>1, <2>2, FourOf DEF Arm64Bl, addr
<1>3. Four(Arm64Adrp(b, i))
  <2>. DEFINE page == (AdrpPage(b, i) - (i \div 4096)) % 262144
              high == (page \div 4) + IF page >= 131072 THEN 7 * 65536 ELSE 0
  <2>1. page \in Nat /\ page < 262144
    <3>1. AdrpPage(b, i) - (i \div 4096) \in Int
      BY SMTT(30), <1>1 DEF AdrpPage
    <3>. QED  BY <3>1
  <2>. HIDE DEF page
  <2>2. 144 + 32 * (page % 4) \in Byte
    BY <2>1, ByteIs
  <2>3. high \in Int
    BY <2>1
  <2>. HIDE DEF high
  <2>4. (b[i + 1] % 32) + 32 * high \in Int
    BY <1>1, <2>3
  <2>. QED  BY <2>2, <2>4, FourOf DEF Arm64Adrp, page, high
<1>. QED  BY <1>2, <1>3, UnchangedFour DEF Arm64Word

LEMMA EachWordBytes ==
  ASSUME NEW b \in Seq(Byte), NEW converted, DOMAIN converted = WordsIn(b),
         \A i \in WordsIn(b) : Four(converted[i])
  PROVE  EachWord(b, converted) \in Seq(Byte) /\ Len(EachWord(b, converted)) = Len(b)
<1>. DEFINE byte(j) == LET i == 4 * ((j - 1) \div 4)
                       IN IF i \in DOMAIN converted THEN converted[i][j - i] ELSE b[j]
<1>1. ASSUME NEW j \in 1 .. Len(b) PROVE byte(j) \in Byte
  <2>1. j - 4 * ((j - 1) \div 4) \in 1 .. 4
    OBVIOUS
  <2>2. b[j] \in Byte
    OBVIOUS
  <2>. QED  BY <2>1, <2>2 DEF Four
<1>. QED  BY <1>1 DEF EachWord

LEMMA PairBytes ==
  ASSUME NEW b \in Seq(Byte), NEW i \in Nat, i + 4 <= Len(b), NEW j \in 1 .. 4
  PROVE  ThumbPair(b, i)[j] \in Byte
<1>1. /\ i + 1 \in Nat /\ i + 1 > 0 /\ i + 1 <= Len(b)
      /\ i + 2 \in Nat /\ i + 2 > 0 /\ i + 2 <= Len(b)
      /\ i + 3 \in Nat /\ i + 3 > 0 /\ i + 3 <= Len(b)
      /\ i + 4 \in Nat /\ i + 4 > 0 /\ i + 4 <= Len(b)
  BY LenProperties
<1>2. b[i + 1] \in Nat /\ b[i + 2] \in Nat /\ b[i + 3] \in Nat /\ b[i + 4] \in Nat
  BY <1>1, ByteIn
<1>. DEFINE target == (b[i + 2] % 8) * 2 ^ 19 + b[i + 1] * 2 ^ 11
                        + (b[i + 4] % 8) * 256 + b[i + 3]
            addr == (2 * target - (i + 4)) \div 2
<1>3. target \in Int
  <2>. DEFINE n1 == b[i + 1]
              n2 == b[i + 2]
              n3 == b[i + 3]
              n4 == b[i + 4]
  <2>1. /\ n1 \in Nat /\ n2 \in Nat /\ n3 \in Nat /\ n4 \in Nat
        /\ target = (n2 % 8) * 2 ^ 19 + n1 * 2 ^ 11 + (n4 % 8) * 256 + n3
    BY <1>2
  <2>. HIDE DEF n1, n2, n3, n4, target
  <2>. QED  BY <2>1
<1>. HIDE DEF target
<1>4. addr \in Int
  BY <1>3
<1>. HIDE DEF addr
<1>5. /\ (addr \div 2 ^ 11) % 256 \in Byte /\ 240 + ((addr \div 2 ^ 19) % 8) \in Byte
      /\ addr % 256 \in Byte /\ 248 + ((addr \div 256) % 8) \in Byte
  <2>1. 2 ^ 19 = 524288 /\ 2 ^ 11 = 2048
    OBVIOUS
  <2>2. /\ (addr \div 2048) % 256 \in Byte /\ 240 + ((addr \div 524288) % 8) \in Byte
        /\ addr % 256 \in Byte /\ 248 + ((addr \div 256) % 8) \in Byte
    <3>1. /\ (addr \div 2048) % 256 \in Nat /\ (addr \div 2048) % 256 <= 255
          /\ 240 + ((addr \div 524288) % 8) \in Nat /\ 240 + ((addr \div 524288) % 8) <= 255
          /\ addr % 256 \in Nat /\ addr % 256 <= 255
          /\ 248 + ((addr \div 256) % 8) \in Nat /\ 248 + ((addr \div 256) % 8) <= 255
      BY <1>4
    <3>. QED  BY <3>1, ByteIs
  <2>. QED  BY <2>1, <2>2
<1>6. ThumbPair(b, i) = <<(addr \div 2 ^ 11) % 256, 240 + ((addr \div 2 ^ 19) % 8),
                          addr % 256, 248 + ((addr \div 256) % 8)>>
  BY DEF ThumbPair, addr, target
<1>7. Four(ThumbPair(b, i))
  <2>. DEFINE p1 == (addr \div 2 ^ 11) % 256
              p2 == 240 + ((addr \div 2 ^ 19) % 8)
              p3 == addr % 256
              p4 == 248 + ((addr \div 256) % 8)
  <2>1. /\ p1 \in Byte /\ p2 \in Byte /\ p3 \in Byte /\ p4 \in Byte
        /\ ThumbPair(b, i) = <<p1, p2, p3, p4>>
    BY <1>5, <1>6
  <2>. HIDE DEF p1, p2, p3, p4
  <2>. QED  BY <2>1 DEF Four
<1>8. j = 1 \/ j = 2 \/ j = 3 \/ j = 4
  OBVIOUS
<1>. QED  BY <1>7, <1>8 DEF Four

LEMMA ThumbBytes ==
  ASSUME NEW b \in Seq(Byte)
  PROVE  ArmThumb(b) \in Seq(Byte) /\ Len(ArmThumb(b)) = Len(b)
<1>. DEFINE pairs == PairsAt(b)
            byte(j) == IF \E i \in pairs : j - i \in 1 .. 4
                       THEN LET i == CHOOSE i \in pairs : j - i \in 1 .. 4
                            IN ThumbPair(b, i)[j - i]
                       ELSE b[j]
<1>1. pairs \subseteq 0 .. Len(b) - 4
  BY DEF PairsAt
<1>. HIDE DEF pairs
<1>2. ASSUME NEW j \in 1 .. Len(b) PROVE byte(j) \in Byte
  <2>1. CASE \E i \in pairs : j - i \in 1 .. 4
    <3>1. PICK i \in pairs : j - i \in 1 .. 4 /\ byte(j) = ThumbPair(b, i)[j - i]
      BY <2>1
    <3>2. i \in Nat /\ i + 4 <= Len(b)
      BY <1>1
    <3>. QED  BY <3>1, <3>2, PairBytes
  <2>2. CASE ~ \E i \in pairs : j - i \in 1 .. 4
    BY <2>2
  <2>. QED  BY <2>1, <2>2
<1>3. ArmThumb(b) = [j \in 1 .. Len(b) |-> byte(j)]
  BY DEF ArmThumb, pairs
<1>. HIDE DEF byte
<1>. QED  BY <1>2, <1>3

LEMMA FilteredBytes ==
  ASSUME NEW id \in {BCJ_ARM, BCJ_ARMTHUMB, BCJ_ARM64}, NEW b \in Seq(Byte)
  PROVE  Filtered(id, b) \in Seq(Byte) /\ Len(Filtered(id, b)) = Len(b)
<1>. DEFINE arm == [i \in WordsIn(b) |-> ArmWord(b, i)]
            arm64 == [i \in WordsIn(b) |-> Arm64Word(b, i)]
<1>1. EachWord(b, arm) \in Seq(Byte) /\ Len(EachWord(b, arm)) = Len(b)
  <2>1. DOMAIN arm = WordsIn(b) /\ \A i \in WordsIn(b) : Four(arm[i])
    BY ArmFour
  <2>. QED  BY <2>1, EachWordBytes
<1>2. EachWord(b, arm64) \in Seq(Byte) /\ Len(EachWord(b, arm64)) = Len(b)
  <2>1. DOMAIN arm64 = WordsIn(b) /\ \A i \in WordsIn(b) : Four(arm64[i])
    BY Arm64Four
  <2>. QED  BY <2>1, EachWordBytes
<1>. QED  BY <1>1, <1>2, ThumbBytes DEF Filtered, BCJ_ARM, BCJ_ARMTHUMB, BCJ_ARM64
-----------------------------------------------------------------------------
(* Numbers that are there whenever the decoder runs. *)
LEMMA Numbers ==
  ASSUME Typed
  PROVE  /\ Len(src) \in Nat /\ Len(out) \in Nat /\ inPos \in Nat /\ outPos \in Nat
         /\ dstSize \in Nat /\ chunk.uncompressed \in Nat /\ chunk.compressed \in Nat
         /\ rc.in \in Nat /\ rc.pos \in Nat /\ rc.limit \in Nat /\ rc.temp \in Nat
         /\ dict.base \in Nat /\ dict.limit \in Nat
         /\ rc.due \in Nat /\ rc.due <= 1
         /\ InRequired \in Nat /\ InRequired > 3
<1>1. Len(src) \in Nat /\ Len(out) \in Nat
  BY DEF Typed, BufferTyped
<1>2. chunk.uncompressed \in Nat /\ chunk.compressed \in Nat
  BY DEF Typed, BufferTyped, Chunks
<1>. QED
  BY <1>1, <1>2, Lzma2Assumption DEF Typed, BufferTyped, RcTyped, DictTyped

LEMMA AtByte == ASSUME Typed, NEW i \in Nat PROVE At(i) \in Byte /\ At(i) \in Nat /\ At(i) <= 255
<1>1. CASE i < Len(src)
  <2>1. i + 1 \in Nat /\ i + 1 > 0 /\ i + 1 <= Len(src) /\ src \in Seq(Byte)
    BY <1>1, Numbers DEF Typed, BufferTyped
  <2>. QED  BY <1>1, <2>1, ByteIn DEF At
<1>2. CASE ~(i < Len(src))
  BY <1>2, ByteIs DEF At
<1>. QED  BY <1>1, <1>2

LEMMA RepeatedBytes ==
  ASSUME out \in Seq(Byte), NEW n \in Nat, NEW dist \in Nat, dist < Len(out)
  PROVE  Repeated(n, dist) \in Seq(Byte) /\ Len(Repeated(n, dist)) = n
<1>1. ASSUME NEW i \in 1 .. n
      PROVE  out[Len(out) - dist + ((i - 1) % (dist + 1))] \in Byte
  <2>1. (i - 1) % (dist + 1) \in 0 .. dist
    OBVIOUS
  <2>. DEFINE at == Len(out) - dist + ((i - 1) % (dist + 1))
  <2>2. at \in 1 .. Len(out)
    BY <2>1
  <2>. HIDE DEF at
  <2>3. out[at] \in Byte
    BY <2>2
  <2>. QED  BY <2>3 DEF at
<1>. QED  BY <1>1 DEF Repeated

(* The distances stay four. *)
LEMMA Joined ==
  ASSUME NEW d \in Nat, NEW rest \in Seq(Nat), Len(rest) = 3
  PROVE  /\ <<d>> \o rest \in Seq(Nat) /\ Len(<<d>> \o rest) = 4
         /\ (<<d>> \o rest)[1] = d
<1>1. <<d>> \in Seq(Nat) /\ Len(<<d>>) = 1 /\ <<d>>[1] = d
  OBVIOUS
<1>2. 1 \in 1 .. Len(<<d>>) + Len(rest) /\ 1 <= Len(<<d>>) /\ 1 + 3 = 4
  BY <1>1
<1>. DEFINE f == <<d>>
<1>3. f \in Seq(Nat) /\ Len(f) = 1 /\ f[1] = d /\ 1 \in 1 .. Len(f) + Len(rest) /\ 1 <= Len(f)
  BY <1>1, <1>2
<1>. HIDE DEF f
<1>4. /\ f \o rest \in Seq(Nat) /\ Len(f \o rest) = Len(f) + Len(rest)
      /\ (f \o rest)[1] = IF 1 <= Len(f) THEN f[1] ELSE rest[1 - Len(f)]
  <2>1. /\ f \o rest \in Seq(Nat) /\ Len(f \o rest) = Len(f) + Len(rest)
        /\ \A i \in 1 .. Len(f) + Len(rest) :
             (f \o rest)[i] = IF i <= Len(f) THEN f[i] ELSE rest[i - Len(f)]
    BY <1>3, ConcatProperties, Zenon
  <2>. QED  BY <1>3, <2>1, Zenon
<1>5. Len(f \o rest) = 4 /\ (f \o rest)[1] = d
  BY <1>3, <1>4
<1>. QED  BY <1>4, <1>5 DEF f

LEMMA NewDistance ==
  ASSUME NEW rep \in Seq(Nat), Len(rep) = 4, NEW d \in Nat
  PROVE  /\ <<d>> \o Front(rep) \in Seq(Nat) /\ Len(<<d>> \o Front(rep)) = 4
         /\ (<<d>> \o Front(rep))[1] = d
<1>1. Front(rep) = SubSeq(rep, 1, 3)
  BY DEF Front
<1>2. \A j \in 1 .. 3 : rep[j] \in Nat
  <2>1. \A j \in 1 .. 3 : j \in 1 .. Len(rep)
    OBVIOUS
  <2>. QED  BY <2>1, ElementOfSeq, Zenon
<1>3. SubSeq(rep, 1, 3) \in Seq(Nat) /\ Len(SubSeq(rep, 1, 3)) = 3
  BY <1>2, SubSeqProperties
<1>. QED  BY <1>1, <1>3, Joined

LEMMA OldDistance ==
  ASSUME NEW rep \in Seq(Nat), Len(rep) = 4, NEW i \in 1 .. 4
  PROVE  /\ <<rep[i]>> \o RemoveAt(rep, i) \in Seq(Nat)
         /\ Len(<<rep[i]>> \o RemoveAt(rep, i)) = 4
         /\ (<<rep[i]>> \o RemoveAt(rep, i))[1] = rep[i]
<1>0. \A j \in 1 .. 4 : rep[j] \in Nat
  BY ElementOfSeq
<1>1. RemoveAt(rep, i) = SubSeq(rep, 1, i - 1) \o SubSeq(rep, i + 1, 4)
  BY DEF RemoveAt
<1>2. SubSeq(rep, 1, i - 1) \in Seq(Nat) /\ Len(SubSeq(rep, 1, i - 1)) = i - 1
  <2>1. \A j \in 1 .. i - 1 : rep[j] \in Nat
    BY <1>0
  <2>2. i - 1 \in Int /\ (IF 1 <= i - 1 THEN (i - 1) - 1 + 1 ELSE 0) = i - 1
    OBVIOUS
  <2>. QED  BY <2>1, <2>2, SubSeqProperties
<1>3. SubSeq(rep, i + 1, 4) \in Seq(Nat) /\ Len(SubSeq(rep, i + 1, 4)) = 4 - i
  <2>1. \A j \in i + 1 .. 4 : rep[j] \in Nat
    BY <1>0
  <2>2. i + 1 \in Int /\ (IF i + 1 <= 4 THEN 4 - (i + 1) + 1 ELSE 0) = 4 - i
    OBVIOUS
  <2>. QED  BY <2>1, <2>2, SubSeqProperties
<1>4. RemoveAt(rep, i) \in Seq(Nat) /\ Len(RemoveAt(rep, i)) = 3
  <2>1. Len(RemoveAt(rep, i)) = (i - 1) + (4 - i) /\ RemoveAt(rep, i) \in Seq(Nat)
    BY <1>1, <1>2, <1>3, ConcatProperties
  <2>. QED  BY <2>1
<1>. QED  BY <1>0, <1>4, Joined

-----------------------------------------------------------------------------
(* One step of the LZMA2 decoder at a time. *)
LEMMA RefuseStep ==
  ASSUME Decoder, Refuse, UNCHANGED <<src, dstSize>>, Running
  PROVE  Decoder'
<1>1. UNCHANGED <<src, dstSize, inPos, out, outPos, chunk, dict, lzma, rc>>
      /\ xzRet' = "DATA_ERROR"
  BY DEF Refuse, Stop
<1>2. Typed'
  BY <1>1 DEF Decoder, Typed, BufferTyped, RcTyped, LzmaTyped, DictTyped
<1>3. Bounds' /\ Room' /\ CopyKept' /\ Window'
  BY <1>1 DEF Decoder, Bounds, Room, CopyKept, Window, Running, Busy
<1>4. ChunkReady' /\ RepThere'
  BY <1>1 DEF Decoder, ChunkReady, RepThere, ToProperties, MatchByteThere, DictFull, DictPos
<1>. QED  BY <1>2, <1>3, <1>4 DEF Decoder

LEMMA RunsOutStep ==
  ASSUME Decoder, RunsOut, UNCHANGED <<src, dstSize>>, Running, chunk.seq \notin Busy
  PROVE  Decoder'
<1>1. UNCHANGED <<src, dstSize, out, outPos, chunk, dict, lzma, rc>>
      /\ xzRet' = "OK" /\ inPos' = Len(src)
  BY DEF RunsOut, Stop
<1>2. Typed'
  BY <1>1, Numbers DEF Decoder, Typed, BufferTyped, RcTyped, LzmaTyped, DictTyped
<1>3. Bounds' /\ Room' /\ CopyKept' /\ Window'
  BY <1>1, Numbers DEF Decoder, Bounds, Room, CopyKept, Window, Running, Busy
<1>4. ChunkReady' /\ RepThere'
  BY <1>1 DEF Decoder, ChunkReady, RepThere, ToProperties, MatchByteThere, DictFull, DictPos
<1>. QED  BY <1>2, <1>3, <1>4 DEF Decoder

LEMMA LiteralIs == \A n : n \in LiteralStates <=> n \in Nat /\ n <= 6
BY DEF LiteralStates

LEMMA ModeIs ==
  ASSUME NEW q \in {"CONTROL", "UNCOMPRESSED", "COMPRESSED", "PROPERTIES", "LZMA_PREPARE",
                    "COPY", "LZMA_RUN"}
  PROVE  q \notin Busy
BY DEF Busy

(* Outside of a run of lzma_main nothing is pending in the dictionary, *)
(* nothing in the copy.                                                *)
LEMMA QuietStep ==
  ASSUME UNCHANGED <<src, dstSize>>, Typed,
         out' \in Seq(Byte), outPos' = Len(out'), Len(out') <= dstSize, dict'.base <= outPos',
         inPos' \in Nat, inPos' <= Len(src),
         chunk' \in Chunks, chunk'.seq \notin Busy, lzma'.len = 0, rc'.temp = 0,
         RcTyped', LzmaTyped', DictTyped',
         xzRet' \in {"RUNNING", "OK", "STREAM_END", "DATA_ERROR"}
  PROVE  Typed' /\ Bounds' /\ Room' /\ CopyKept' /\ Window'
<1>1. Len(out') \in Nat
  BY LenProperties
<1>2. Typed'
  BY <1>1 DEF Typed, BufferTyped
<1>3. Bounds'
  BY <1>1 DEF Bounds, Busy
<1>4. Room'
  BY DEF Room
<1>5. CopyKept'
  <2>1. chunk'.seq # "COPIED" /\ chunk'.seq # "FLUSH"
    BY DEF Busy
  <2>. QED  BY <2>1 DEF CopyKept
<1>6. Window'
  BY DEF Window, Busy
<1>. QED  BY <1>2, <1>3, <1>4, <1>5, <1>6

(* What a phase outside of a run of lzma_main starts from. *)
LEMMA QuietIs ==
  ASSUME Decoder, Running, chunk.seq \notin Busy, chunk.seq # "LZMA_RUN"
  PROVE  /\ Typed /\ RcTyped /\ LzmaTyped /\ DictTyped /\ chunk \in Chunks /\ out \in Seq(Byte)
         /\ outPos = Len(out) /\ Len(out) <= dstSize /\ dict.base <= outPos
         /\ inPos \in Nat /\ inPos <= Len(src) /\ lzma.len = 0 /\ rc.temp = 0
         /\ Len(src) \in Nat /\ Len(out) \in Nat /\ dstSize \in Nat
         /\ At(inPos) \in Nat /\ At(inPos) <= 255 /\ At(inPos + 1) \in Nat
<1>1. Typed
  BY DEF Decoder
<1>2. Bounds
  BY DEF Decoder
<1>3. lzma.len = 0
  BY DEF Decoder, Room, Running
<1>4. rc.temp = 0
  <2>1. chunk.seq # "COPIED" /\ chunk.seq # "FLUSH"
    BY DEF Busy
  <2>. QED  BY <2>1 DEF Decoder, CopyKept
<1>5. inPos \in Nat /\ inPos + 1 \in Nat
  BY <1>1, Numbers
<1>6. /\ At(inPos) \in Nat /\ At(inPos) <= 255 /\ At(inPos + 1) \in Nat
  BY <1>1, <1>5, AtByte
<1>. QED  BY <1>1, <1>2, <1>3, <1>4, <1>5, <1>6, Numbers DEF Typed, BufferTyped, Bounds

(* What the control byte makes of the chunk, the dictionary and the decoder. *)
ChunkAfter(c) ==
  [chunk EXCEPT
     !.seq = IF IsLzma(c) THEN "UNCOMPRESSED" ELSE "COMPRESSED",
     !.next = IF ~IsLzma(c) THEN "COPY"
              ELSE IF SetsProps(c) THEN "PROPERTIES" ELSE "LZMA_PREPARE",
     !.uncompressed = IF IsLzma(c) THEN (c % 32) * 65536 ELSE @,
     !.needProps = PropsAfter(c),
     !.needDictReset = @ /\ ~ResetsDict(c)]

DictAfter(c) ==
  IF ResetsDict(c) THEN [dict EXCEPT !.base = outPos, !.limit = 0] ELSE dict

LzmaAfter(c) == IF ResetsState(c) /\ ~SetsProps(c) THEN LzmaReset ELSE lzma

LEMMA ControlChunk ==
  ASSUME NEW c \in Nat, chunk \in Chunks, chunk' = ChunkAfter(c)
  PROVE  /\ chunk' \in Chunks /\ chunk'.seq \notin Busy
         /\ IsLzma(c) => chunk'.seq = "UNCOMPRESSED"
         /\ ~IsLzma(c) => chunk'.seq = "COMPRESSED" /\ chunk'.next = "COPY"
         /\ IsLzma(c) /\ SetsProps(c) => chunk'.next = "PROPERTIES"
         /\ IsLzma(c) /\ ~SetsProps(c) => chunk'.next = "LZMA_PREPARE"
         /\ chunk'.needProps = PropsAfter(c)
         /\ chunk'.needDictReset = (chunk.needDictReset /\ ~ResetsDict(c))
<1>. DEFINE size == IF IsLzma(c) THEN (c % 32) * 65536 ELSE chunk.uncompressed
            seq == IF IsLzma(c) THEN "UNCOMPRESSED" ELSE "COMPRESSED"
            next == IF ~IsLzma(c) THEN "COPY"
                    ELSE IF SetsProps(c) THEN "PROPERTIES" ELSE "LZMA_PREPARE"
            needProps == PropsAfter(c)
            needReset == chunk.needDictReset /\ ~ResetsDict(c)
<1>1. size \in Nat
  BY DEF Chunks
<1>2. seq \in {"UNCOMPRESSED", "COMPRESSED"} /\ next \in {"COPY", "PROPERTIES", "LZMA_PREPARE"}
  OBVIOUS
<1>3. needProps \in BOOLEAN /\ needReset \in BOOLEAN
  BY DEF PropsAfter, NeedsProps, SetsProps, Chunks
<1>4. chunk' = [chunk EXCEPT !.seq = seq, !.next = next, !.uncompressed = size,
                             !.needProps = needProps, !.needDictReset = needReset]
  BY DEF ChunkAfter
<1>5. /\ IsLzma(c) => seq = "UNCOMPRESSED"
      /\ ~IsLzma(c) => seq = "COMPRESSED" /\ next = "COPY"
      /\ IsLzma(c) /\ SetsProps(c) => next = "PROPERTIES"
      /\ IsLzma(c) /\ ~SetsProps(c) => next = "LZMA_PREPARE"
  OBVIOUS
<1>. HIDE DEF size, seq, next, needProps, needReset
<1>6. /\ chunk' \in Chunks /\ chunk'.seq = seq /\ chunk'.next = next
      /\ chunk'.needProps = needProps /\ chunk'.needDictReset = needReset
  BY <1>1, <1>2, <1>3, <1>4 DEF Chunks
<1>7. seq \notin Busy
  BY <1>2, ModeIs
<1>. QED  BY <1>5, <1>6, <1>7 DEF needProps, needReset

LEMMA LzmaResets == LzmaReset.rep \in Seq(Nat) /\ Len(LzmaReset.rep) = 4
BY DEF LzmaReset

LEMMA ControlData ==
  ASSUME NEW c, LzmaTyped, DictTyped, lzma.len = 0, dict.base <= outPos, outPos \in Nat,
         lzma' = LzmaAfter(c), dict' = DictAfter(c)
  PROVE  /\ LzmaTyped' /\ lzma'.len = 0 /\ (lzma' = lzma \/ lzma'.state = 0)
         /\ DictTyped' /\ dict'.base <= outPos
         /\ ~ResetsDict(c) => dict' = dict
<1>1. LzmaTyped' /\ lzma'.len = 0 /\ (lzma' = lzma \/ lzma'.state = 0)
  <2>1. CASE lzma' = lzma
    BY <2>1 DEF LzmaTyped
  <2>2. CASE lzma' = LzmaReset
    BY <2>2, LzmaResets DEF LzmaTyped, LzmaReset
  <2>. QED  BY <2>1, <2>2 DEF LzmaAfter
<1>2. DictTyped' /\ dict'.base <= outPos
  <2>1. CASE dict' = dict
    BY <2>1 DEF DictTyped
  <2>2. CASE dict' = [dict EXCEPT !.base = outPos, !.limit = 0]
    <3>1. dict' = [base |-> outPos, limit |-> 0, size |-> dict.size]
      BY <2>2 DEF DictTyped
    <3>. QED  BY <3>1 DEF DictTyped
  <2>. QED  BY <2>1, <2>2 DEF DictAfter
<1>. QED  BY <1>1, <1>2 DEF DictAfter

LEMMA ControlEnd ==
  ASSUME Decoder, Running, chunk.seq = "CONTROL", UNCHANGED <<src, dstSize>>,
         InAvail > 0, Stop("STREAM_END"), inPos' = inPos + 1,
         UNCHANGED <<out, outPos, chunk, dict, lzma, rc>>
  PROVE  Decoder'
<1>1. chunk.seq \notin Busy /\ chunk.seq # "LZMA_RUN"
  BY DEF Busy
<1>2. inPos' \in Nat /\ inPos' <= Len(src)
  BY <1>1, QuietIs DEF InAvail
<1>3. RcTyped' /\ LzmaTyped' /\ DictTyped'
  BY <1>1, QuietIs DEF RcTyped, LzmaTyped, DictTyped
<1>4. Typed' /\ Bounds' /\ Room' /\ CopyKept' /\ Window'
  BY <1>1, <1>2, <1>3, QuietIs, QuietStep DEF Stop
<1>5. ChunkReady' /\ RepThere'
  BY DEF Decoder, ChunkReady, RepThere, ToProperties, MatchByteThere, DictFull, DictPos
<1>. QED  BY <1>4, <1>5 DEF Decoder

LEMMA ControlTaken ==
  ASSUME Decoder, Running, chunk.seq = "CONTROL", UNCHANGED <<src, dstSize>>,
         NEW c \in Nat, InAvail > 0, ControlRight(c), inPos' = inPos + 1,
         chunk' = ChunkAfter(c), dict' = DictAfter(c), lzma' = LzmaAfter(c),
         UNCHANGED <<out, outPos, rc, xzRet>>
  PROVE  Decoder'
<1>0. chunk.seq \notin Busy /\ chunk.seq # "LZMA_RUN"
  BY DEF Busy
<1>1. /\ chunk' \in Chunks /\ chunk'.seq \notin Busy
      /\ IsLzma(c) => chunk'.seq = "UNCOMPRESSED"
      /\ ~IsLzma(c) => chunk'.seq = "COMPRESSED" /\ chunk'.next = "COPY"
      /\ IsLzma(c) /\ SetsProps(c) => chunk'.next = "PROPERTIES"
      /\ IsLzma(c) /\ ~SetsProps(c) => chunk'.next = "LZMA_PREPARE"
      /\ chunk'.needProps = PropsAfter(c)
      /\ chunk'.needDictReset = (chunk.needDictReset /\ ~ResetsDict(c))
  <2>1. chunk \in Chunks
    BY <1>0, QuietIs
  <2>. QED  BY <2>1, ControlChunk
<1>2. /\ LzmaTyped' /\ lzma'.len = 0 /\ (lzma' = lzma \/ lzma'.state = 0)
      /\ DictTyped' /\ dict'.base <= outPos
      /\ ~ResetsDict(c) => dict' = dict
  <2>1. LzmaTyped /\ DictTyped /\ lzma.len = 0 /\ dict.base <= outPos /\ outPos \in Nat
    BY <1>0, QuietIs
  <2>. QED  BY <2>1, ControlData
<1>3. RcTyped' /\ rc'.temp = 0
  BY <1>0, QuietIs DEF RcTyped
<1>4. inPos' \in Nat /\ inPos' <= Len(src)
  BY <1>0, QuietIs DEF InAvail
<1>5. Typed' /\ Bounds' /\ Room' /\ CopyKept' /\ Window'
  <2>1. /\ Typed /\ out' \in Seq(Byte) /\ outPos' = Len(out') /\ Len(out') <= dstSize
        /\ dict'.base <= outPos' /\ xzRet' = "RUNNING"
    BY <1>0, <1>2, QuietIs DEF Running
  <2>. QED  BY <1>1, <1>2, <1>3, <1>4, <2>1, QuietStep
<1>6. ~IsLzma(c) => ~SetsProps(c)
  BY DEF IsLzma, SetsProps
<1>7. ChunkReady'
  BY <1>1 DEF ChunkReady, ControlRight, PropsAfter
<1>8. RepThere'
  <2>1. CASE SetsProps(c)
    BY <1>1, <1>6, <2>1 DEF RepThere, ToProperties
  <2>2. CASE ResetsDict(c) /\ ~SetsProps(c)
    BY <1>1, <2>2 DEF RepThere, PropsAfter, NeedsProps
  <2>3. CASE lzma'.state = 0
    BY <2>3, LiteralIs DEF RepThere, MatchByteThere
  <2>4. CASE ~ResetsDict(c) /\ ~SetsProps(c) /\ lzma' = lzma
    <3>1. dict' = dict /\ out' = out
      BY <1>2, <2>4
    <3>2. MatchByteThere' = MatchByteThere
      BY <2>4, <3>1 DEF MatchByteThere, DictFull, DictPos
    <3>3. chunk.needDictReset => chunk'.needDictReset
      BY <1>1, <2>4
    <3>4. chunk.needProps => chunk'.needProps
      BY <1>1, <2>4 DEF PropsAfter, NeedsProps
    <3>5. ~ToProperties
      BY DEF ToProperties
    <3>. QED  BY <3>2, <3>3, <3>4, <3>5 DEF Decoder, RepThere
  <2>. QED  BY <1>2, <2>1, <2>2, <2>3, <2>4
<1>. QED  BY <1>5, <1>7, <1>8 DEF Decoder

LEMMA ControlStep ==
  ASSUME Decoder, Control, UNCHANGED <<src, dstSize>> PROVE Decoder'
<1>. DEFINE c == At(inPos)
<1>1. Running /\ chunk.seq = "CONTROL" /\ chunk.seq \notin Busy /\ chunk.seq # "LZMA_RUN"
  BY DEF Control, In, Running, Busy
<1>2. c \in Nat
  BY <1>1, QuietIs
<1>3. \/ RunsOut \/ Refuse
      \/ /\ InAvail > 0 /\ Stop("STREAM_END") /\ inPos' = inPos + 1
         /\ UNCHANGED <<out, outPos, chunk, dict, lzma, rc>>
      \/ /\ InAvail > 0 /\ ControlRight(c) /\ inPos' = inPos + 1
         /\ chunk' = ChunkAfter(c) /\ dict' = DictAfter(c) /\ lzma' = LzmaAfter(c)
         /\ UNCHANGED <<out, outPos, rc, xzRet>>
  BY DEF Control, ChunkAfter, DictAfter, LzmaAfter
<1>. QED  BY <1>1, <1>2, <1>3, RunsOutStep, RefuseStep, ControlEnd, ControlTaken

(* A byte or more of a chunk's header; of the decoder, no more than the  *)
(* chunk, the properties and the range decoder's code change with it.    *)
LEMMA HeaderRead ==
  ASSUME Decoder, Running, chunk.seq \notin Busy, chunk.seq # "LZMA_RUN",
         UNCHANGED <<src, dstSize, out, outPos, dict, xzRet>>,
         NEW n \in Nat, InAvail >= n, inPos' = inPos + n,
         chunk' \in Chunks, chunk'.seq \notin Busy,
         lzma' = lzma \/ lzma' = LzmaReset,
         NEW code, rc' = rc \/ rc' = [rc EXCEPT !.code = code]
  PROVE  Typed' /\ Bounds' /\ Room' /\ CopyKept' /\ Window'
<1>1. inPos' \in Nat /\ inPos' <= Len(src)
  BY QuietIs DEF InAvail
<1>2. LzmaTyped' /\ lzma'.len = 0
  <2>1. CASE lzma' = lzma
    BY <2>1, QuietIs DEF LzmaTyped
  <2>2. CASE lzma' = LzmaReset
    BY <2>2, LzmaResets DEF LzmaTyped, LzmaReset
  <2>. QED  BY <2>1, <2>2
<1>3. RcTyped' /\ rc'.temp = 0
  <2>1. CASE rc' = rc
    BY <2>1, QuietIs DEF RcTyped
  <2>2. CASE rc' = [rc EXCEPT !.code = code]
    <3>1. rc' = [in |-> rc.in, pos |-> rc.pos, limit |-> rc.limit, code |-> code,
                 temp |-> rc.temp, due |-> rc.due]
      BY <2>2, QuietIs DEF RcTyped
    <3>. QED  BY <3>1, QuietIs DEF RcTyped
  <2>. QED  BY <2>1, <2>2
<1>4. DictTyped'
  BY QuietIs DEF DictTyped
<1>5. /\ Typed /\ out' \in Seq(Byte) /\ outPos' = Len(out') /\ Len(out') <= dstSize
      /\ dict'.base <= outPos' /\ xzRet' = "RUNNING"
  BY QuietIs DEF Running
<1>. QED  BY <1>1, <1>2, <1>3, <1>4, <1>5, QuietStep

LEMMA SameDistance ==
  ASSUME UNCHANGED <<out, dict, lzma>>, RepThere,
         ToProperties => ToProperties',
         chunk'.needDictReset = chunk.needDictReset, chunk'.needProps = chunk.needProps
  PROVE  RepThere'
BY DEF RepThere, MatchByteThere, DictFull, DictPos

LEMMA WordIs == ASSUME Typed PROVE Word \in Nat
<1>1. inPos \in Nat /\ inPos + 1 \in Nat
  BY SMTT(30), Numbers
<1>2. At(inPos) \in Nat /\ At(inPos + 1) \in Nat
  BY <1>1, AtByte
<1>. QED  BY <1>2 DEF Word

LEMMA UncompressedStep ==
  ASSUME Decoder, Uncompressed, UNCHANGED <<src, dstSize>> PROVE Decoder'
<1>1. Running /\ chunk.seq = "UNCOMPRESSED" /\ chunk.seq \notin Busy
  BY DEF Uncompressed, TwoBytes, In, Running, Busy
<1>2. CASE RunsOut
  BY <1>1, <1>2, RunsOutStep
<1>. DEFINE size == chunk.uncompressed + Word
<1>3. CASE /\ InAvail >= 2 /\ inPos' = inPos + 2
           /\ chunk' = [chunk EXCEPT !.seq = "COMPRESSED", !["uncompressed"] = size]
           /\ UNCHANGED <<out, outPos, dict, lzma, rc, xzRet>>
  <2>1. chunk \in Chunks /\ size \in Nat
    BY <1>1, QuietIs, WordIs DEF Chunks
  <2>. HIDE DEF size
  <2>2. /\ chunk' \in Chunks /\ chunk'.seq = "COMPRESSED" /\ chunk'.next = chunk.next
        /\ chunk'.needDictReset = chunk.needDictReset /\ chunk'.needProps = chunk.needProps
    BY <1>3, <2>1 DEF Chunks
  <2>3. chunk'.seq \notin Busy
    BY <2>2, ModeIs
  <2>4. Typed' /\ Bounds' /\ Room' /\ CopyKept' /\ Window'
    BY <1>1, <1>3, <2>2, <2>3, HeaderRead
  <2>5. ChunkReady'
    <3>1. ChunkReady
      BY DEF Decoder
    <3>. QED  BY <1>1, <2>1, <2>2, <3>1 DEF ChunkReady, Chunks
  <2>6. RepThere'
    <3>1. ToProperties => ToProperties'
      BY <1>1, <2>2 DEF ToProperties
    <3>. QED  BY <1>3, <2>2, <3>1, SameDistance DEF Decoder
  <2>. QED  BY <2>4, <2>5, <2>6 DEF Decoder
<1>. QED  BY <1>2, <1>3 DEF Uncompressed, TwoBytes

LEMMA CompressedStep ==
  ASSUME Decoder, Compressed, UNCHANGED <<src, dstSize>> PROVE Decoder'
<1>1. Running /\ chunk.seq = "COMPRESSED" /\ chunk.seq \notin Busy
  BY DEF Compressed, TwoBytes, In, Running, Busy
<1>2. CASE RunsOut
  BY <1>1, <1>2, RunsOutStep
<1>3. CASE /\ InAvail >= 2 /\ inPos' = inPos + 2
           /\ chunk' = [chunk EXCEPT !.seq = chunk.next, !["compressed"] = Word]
           /\ UNCHANGED <<out, outPos, dict, lzma, rc, xzRet>>
  <2>1. chunk \in Chunks /\ Word \in Nat
    BY <1>1, QuietIs, WordIs
  <2>2. /\ chunk' \in Chunks /\ chunk'.seq = chunk.next /\ chunk'.next = chunk.next
        /\ chunk'.needDictReset = chunk.needDictReset /\ chunk'.needProps = chunk.needProps
    BY <1>3, <2>1 DEF Chunks
  <2>3. chunk.next \in {"CONTROL", "COPY", "PROPERTIES", "LZMA_PREPARE"}
    BY <2>1 DEF Chunks
  <2>4. chunk'.seq \notin Busy
    BY <2>2, <2>3, ModeIs
  <2>5. Typed' /\ Bounds' /\ Room' /\ CopyKept' /\ Window'
    BY <1>1, <1>3, <2>2, <2>4, HeaderRead
  <2>6. ChunkReady'
    <3>1. ChunkReady
      BY DEF Decoder
    <3>. QED  BY <1>1, <2>2, <2>3, <3>1 DEF ChunkReady
  <2>7. RepThere'
    <3>1. ToProperties => ToProperties'
      BY <1>1, <2>2 DEF ToProperties
    <3>. QED  BY <1>3, <2>2, <3>1, SameDistance DEF Decoder
  <2>. QED  BY <2>5, <2>6, <2>7 DEF Decoder
<1>. QED  BY <1>2, <1>3 DEF Compressed, TwoBytes

LEMMA PropertiesStep ==
  ASSUME Decoder, Properties, UNCHANGED <<src, dstSize>> PROVE Decoder'
<1>1. Running /\ chunk.seq = "PROPERTIES" /\ chunk.seq \notin Busy
  BY DEF Properties, In, Running, Busy
<1>2. CASE RunsOut
  BY <1>1, <1>2, RunsOutStep
<1>3. CASE Refuse
  BY <1>1, <1>3, RefuseStep
<1>4. CASE /\ InAvail > 0 /\ inPos' = inPos + 1
           /\ chunk' = [chunk EXCEPT !.seq = "LZMA_PREPARE"]
           /\ lzma' = LzmaReset
           /\ UNCHANGED <<out, outPos, dict, rc, xzRet>>
  <2>1. chunk \in Chunks
    BY <1>1, QuietIs
  <2>2. /\ chunk' \in Chunks /\ chunk'.seq = "LZMA_PREPARE"
        /\ chunk'.needDictReset = chunk.needDictReset /\ chunk'.needProps = chunk.needProps
    BY <1>4, <2>1 DEF Chunks
  <2>3. chunk'.seq \notin Busy
    BY <2>2, ModeIs
  <2>4. InAvail >= 1
    BY <1>1, <1>4, QuietIs DEF InAvail
  <2>5. Typed' /\ Bounds' /\ Room' /\ CopyKept' /\ Window'
    BY <1>1, <1>4, <2>2, <2>3, <2>4, HeaderRead
  <2>6. ChunkReady'
    <3>1. ChunkReady
      BY DEF Decoder
    <3>. QED  BY <1>1, <2>2, <3>1 DEF ChunkReady
  <2>7. RepThere'
    <3>1. lzma'.state = 0
      BY <1>4 DEF LzmaReset
    <3>. QED  BY <3>1, LiteralIs DEF RepThere, MatchByteThere
  <2>. QED  BY <2>5, <2>6, <2>7 DEF Decoder
<1>. QED  BY <1>2, <1>3, <1>4 DEF Properties

LEMMA PrepareStep ==
  ASSUME Decoder, Prepare, UNCHANGED <<src, dstSize>> PROVE Decoder'
<1>1. Running /\ chunk.seq = "LZMA_PREPARE" /\ chunk.seq \notin Busy
  BY DEF Prepare, In, Running, Busy
<1>2. CASE RunsOut
  BY <1>1, <1>2, RunsOutStep
<1>3. CASE Refuse
  BY <1>1, <1>3, RefuseStep
<1>4. CASE /\ chunk.compressed >= RcInitBytes /\ InAvail >= RcInitBytes
           /\ inPos' = inPos + RcInitBytes
           /\ chunk' = [chunk EXCEPT !.seq = "LZMA_RUN", !.compressed = @ - RcInitBytes]
           /\ rc' = [rc EXCEPT !.code = Code]
           /\ UNCHANGED <<out, outPos, dict, lzma, xzRet>>
  <2>1. chunk \in Chunks /\ RcInitBytes \in Nat
    BY <1>1, QuietIs DEF RcInitBytes
  <2>2. /\ chunk' \in Chunks /\ chunk'.seq = "LZMA_RUN"
        /\ chunk'.needDictReset = chunk.needDictReset /\ chunk'.needProps = chunk.needProps
    <3>. DEFINE left == chunk.compressed - RcInitBytes
    <3>1. left \in Nat
      BY <1>4, <2>1 DEF Chunks
    <3>2. chunk' = [chunk EXCEPT !.seq = "LZMA_RUN", !.compressed = left]
      BY <1>4
    <3>. HIDE DEF left
    <3>. QED  BY <2>1, <3>1, <3>2 DEF Chunks
  <2>3. chunk'.seq \notin Busy
    BY <2>2, ModeIs
  <2>4. Typed' /\ Bounds' /\ Room' /\ CopyKept' /\ Window'
    BY <1>1, <1>4, <2>1, <2>2, <2>3, HeaderRead
  <2>5. ChunkReady'
    <3>1. ChunkReady
      BY DEF Decoder
    <3>. QED  BY <1>1, <2>2, <3>1 DEF ChunkReady
  <2>6. RepThere'
    <3>1. ToProperties => ToProperties'
      BY <1>1 DEF ToProperties
    <3>. QED  BY <1>4, <2>2, <3>1, SameDistance DEF Decoder
  <2>. QED  BY <2>4, <2>5, <2>6 DEF Decoder
<1>. QED  BY <1>2, <1>3, <1>4 DEF Prepare

LEMMA SmallerIs ==
  ASSUME NEW a \in Int, NEW b \in Int
  PROVE  /\ Smaller(a, b) \in Int /\ Smaller(a, b) <= a /\ Smaller(a, b) <= b
         /\ Smaller(a, b) = a \/ Smaller(a, b) = b
BY DEF Smaller

LEMMA SrcPart ==
  ASSUME Typed, NEW n \in Nat, inPos + n <= Len(src)
  PROVE  /\ SubSeq(src, inPos + 1, inPos + n) \in Seq(Byte)
         /\ Len(SubSeq(src, inPos + 1, inPos + n)) = n
<1>1. inPos \in Nat /\ Len(src) \in Nat /\ src \in Seq(Byte)
  BY Numbers DEF Typed, BufferTyped
<1>. DEFINE m == inPos + 1
            l == inPos + n
<1>2. m \in Int /\ l \in Int /\ m > 0 /\ l <= Len(src)
      /\ (IF m <= l THEN l - m + 1 ELSE 0) = n
  BY <1>1
<1>. HIDE DEF m, l
<1>3. \A i \in m .. l : src[i] \in Byte
  <2>1. \A i \in m .. l : i \in 1 .. Len(src)
    BY <1>1, <1>2
  <2>. QED  BY <1>1, <2>1, ElementOfSeq, Zenon
<1>4. /\ SubSeq(src, m, l) \in Seq(Byte)
      /\ Len(SubSeq(src, m, l)) = IF m <= l THEN l - m + 1 ELSE 0
  BY <1>2, <1>3, SubSeqProperties
<1>. QED  BY <1>2, <1>4 DEF m, l

(* The decoder adds to the output, and changes nothing of it. *)
Grown == Len(out) <= Len(out') /\ \A i \in 1 .. Len(out) : out'[i] = out[i]

LEMMA Longer ==
  ASSUME NEW s \in Seq(Byte), NEW more \in Seq(Byte)
  PROVE  /\ s \o more \in Seq(Byte) /\ Len(s \o more) = Len(s) + Len(more)
         /\ Len(s) <= Len(s \o more)
         /\ \A i \in 1 .. Len(s) : (s \o more)[i] = s[i]
<1>1. /\ s \o more \in Seq(Byte) /\ Len(s \o more) = Len(s) + Len(more)
      /\ \A i \in 1 .. Len(s) + Len(more) :
           (s \o more)[i] = IF i <= Len(s) THEN s[i] ELSE more[i - Len(s)]
  BY ConcatProperties, Zenon
<1>2. Len(s) \in Nat /\ Len(more) \in Nat
  BY LenProperties
<1>3. \A i \in 1 .. Len(s) : i \in 1 .. Len(s) + Len(more) /\ i <= Len(s)
  BY <1>2
<1>4. \A i \in 1 .. Len(s) : (s \o more)[i] = s[i]
  BY <1>1, <1>3, Zenon
<1>. QED  BY <1>1, <1>2, <1>4

LEMMA FurtherBack ==
  ASSUME Typed, UNCHANGED <<dict, lzma>>, Len(out') \in Nat, Len(out') >= Len(out), MatchByteThere
  PROVE  MatchByteThere'
<1>1. Len(out) \in Nat /\ dict.base \in Nat
  BY Numbers
<1>2. lzma.rep[1] \in Nat
  <2>1. lzma.rep \in Seq(Nat) /\ 1 \in 1 .. Len(lzma.rep)
    BY DEF Typed, LzmaTyped
  <2>. QED  BY <2>1, ElementOfSeq
<1>. QED  BY <1>1, <1>2 DEF MatchByteThere, DictFull, DictPos

LEMMA CopyStep ==
  ASSUME Decoder, Copy, UNCHANGED <<src, dstSize>> PROVE Decoder' /\ Grown
<1>1. Running /\ chunk.seq = "COPY" /\ chunk.seq \notin Busy /\ chunk.seq # "LZMA_RUN"
  BY DEF Copy, In, Running, Busy
<1>. DEFINE n == CopySize
            left == chunk.compressed - n
            seq == IF n < chunk.compressed THEN "COPY" ELSE "CONTROL"
<1>2. /\ out' = out \o SubSeq(src, inPos + 1, inPos + n)
      /\ outPos' = outPos + n /\ inPos' = inPos + n
      /\ chunk' = [chunk EXCEPT !.compressed = left, !.seq = seq]
      /\ xzRet' \in {"OK", "RUNNING"} /\ UNCHANGED <<dict, lzma, rc>>
  BY <1>1 DEF Copy, Stop
<1>3. n \in Nat /\ inPos + n <= Len(src) /\ outPos + n <= dstSize /\ left \in Nat
  <2>1. /\ InAvail \in Nat /\ dstSize - outPos \in Nat /\ chunk.compressed \in Nat
        /\ outPos \in Nat /\ dstSize \in Nat /\ inPos \in Nat /\ Len(src) \in Nat
    BY SMTT(30), <1>1, QuietIs, Numbers DEF InAvail
  <2>2. n \in Nat /\ n <= InAvail /\ n <= dstSize - outPos /\ n <= chunk.compressed
    BY <2>1 DEF CopySize, Smaller
  <2>. HIDE DEF n
  <2>. QED  BY <2>1, <2>2 DEF InAvail
<1>4. seq \in {"COPY", "CONTROL"}
  OBVIOUS
<1>. HIDE DEF n, left, seq
<1>5. /\ chunk' \in Chunks /\ chunk'.seq = seq
      /\ chunk'.needDictReset = chunk.needDictReset /\ chunk'.needProps = chunk.needProps
  <2>1. chunk \in Chunks
    BY <1>1, QuietIs
  <2>. QED  BY <1>2, <1>3, <1>4, <2>1 DEF Chunks
<1>6. out' \in Seq(Byte) /\ Len(out') = Len(out) + n /\ Grown
  <2>. DEFINE part == SubSeq(src, inPos + 1, inPos + n)
  <2>1. part \in Seq(Byte) /\ Len(part) = n
    BY <1>1, <1>3, QuietIs, SrcPart
  <2>2. out' = out \o part /\ out \in Seq(Byte)
    BY <1>1, <1>2, QuietIs
  <2>. HIDE DEF part
  <2>. QED  BY <2>1, <2>2, Longer DEF Grown
<1>7. Typed' /\ Bounds' /\ Room' /\ CopyKept' /\ Window'
  <2>1. RcTyped' /\ LzmaTyped' /\ DictTyped' /\ lzma'.len = 0 /\ rc'.temp = 0
    BY <1>1, <1>2, QuietIs DEF RcTyped, LzmaTyped, DictTyped
  <2>2. /\ Typed /\ outPos' = Len(out') /\ Len(out') <= dstSize /\ dict'.base <= outPos'
        /\ inPos' \in Nat /\ inPos' <= Len(src)
    <3>1. /\ Typed /\ outPos = Len(out) /\ dict.base <= outPos /\ Len(out) \in Nat
          /\ inPos \in Nat /\ Len(src) \in Nat /\ dict.base \in Nat /\ dstSize \in Nat
      BY <1>1, QuietIs, Numbers
    <3>2. outPos' = Len(out') /\ Len(out') <= dstSize
      BY <1>2, <1>3, <1>6, <3>1
    <3>3. dict'.base <= outPos'
      BY <1>2, <1>3, <3>1
    <3>. QED  BY <1>2, <1>3, <3>1, <3>2, <3>3
  <2>3. chunk'.seq \notin Busy
    BY <1>4, <1>5, ModeIs
  <2>. QED  BY <1>2, <1>5, <1>6, <2>1, <2>2, <2>3, QuietStep
<1>8. ChunkReady'
  BY <1>4, <1>5 DEF ChunkReady
<1>9. RepThere'
  <2>1. ~ToProperties
    BY <1>1 DEF ToProperties
  <2>2. Typed /\ Len(out') \in Nat /\ Len(out') >= Len(out)
    BY <1>1, <1>3, <1>6, QuietIs
  <2>3. MatchByteThere => MatchByteThere'
    BY <1>2, <2>2, FurtherBack
  <2>. QED  BY <1>5, <2>1, <2>3 DEF Decoder, RepThere
<1>. QED  BY <1>6, <1>7, <1>8, <1>9 DEF Decoder

(* During a run of lzma_main. *)
LEMMA BusyIs ==
  ASSUME Decoder, Running, chunk.seq \in Busy
  PROVE  /\ Typed /\ RcTyped /\ LzmaTyped /\ DictTyped /\ chunk \in Chunks /\ out \in Seq(Byte)
         /\ dict.base <= outPos /\ outPos <= Len(out) /\ Len(out) <= dstSize
         /\ inPos <= Len(src) /\ rc.temp <= inPos
         /\ dict.base + dict.limit = Smaller(dstSize, outPos + chunk.uncompressed)
         /\ Len(out) <= dict.base + dict.limit
         /\ lzma.len = 0 \/ Len(out) = dict.base + dict.limit
         /\ ~chunk.needDictReset /\ ~chunk.needProps
         /\ MatchByteThere
<1>1. Typed /\ Bounds /\ Room /\ CopyKept /\ ChunkReady /\ RepThere
  BY DEF Decoder
<1>2. ~chunk.needDictReset /\ ~chunk.needProps
  BY <1>1 DEF ChunkReady, Busy
<1>3. MatchByteThere
  BY <1>1, <1>2 DEF RepThere, ToProperties, Busy
<1>4. rc.temp <= inPos
  BY <1>1 DEF CopyKept
<1>5. /\ dict.base + dict.limit = Smaller(dstSize, outPos + chunk.uncompressed)
      /\ Len(out) <= dict.base + dict.limit
      /\ lzma.len = 0 \/ Len(out) = dict.base + dict.limit
  BY <1>1 DEF Room
<1>. QED  BY <1>1, <1>2, <1>3, <1>4, <1>5 DEF Typed, BufferTyped, Bounds

LEMMA InAvailIs ==
  ASSUME Decoder
  PROVE  /\ InAvail \in Nat /\ InAvail = Len(src) - inPos
         /\ Len(src) \in Nat /\ inPos \in Nat
<1>1. Typed /\ inPos <= Len(src)
  BY DEF Decoder, Bounds
<1>. QED  BY <1>1, Numbers DEF InAvail

(* What stays when neither the output nor the dictionary is touched. *)
LEMMA BusyStep ==
  ASSUME Decoder, Running, chunk.seq \in Busy,
         UNCHANGED <<src, dstSize, out, outPos, dict, lzma, xzRet>>,
         inPos' \in Nat, inPos' <= Len(src), RcTyped',
         chunk' \in Chunks, chunk'.seq \in Busy,
         chunk'.uncompressed = chunk.uncompressed,
         chunk'.needDictReset = chunk.needDictReset, chunk'.needProps = chunk.needProps
  PROVE  Typed' /\ Bounds' /\ Room' /\ ChunkReady' /\ RepThere'
<1>1. Typed'
  <2>1. LzmaTyped' /\ DictTyped'
    BY BusyIs DEF LzmaTyped, DictTyped
  <2>2. Typed /\ BufferTyped
    BY BusyIs DEF Typed
  <2>. QED  BY <2>1, <2>2 DEF Typed, BufferTyped
<1>2. Bounds'
  BY BusyIs DEF Bounds
<1>3. Room'
  BY BusyIs DEF Room, Smaller
<1>4. ChunkReady'
  <2>1. chunk'.seq # "UNCOMPRESSED"
    BY DEF Busy
  <2>. QED  BY <2>1, BusyIs DEF ChunkReady
<1>5. RepThere'
  BY BusyIs DEF RepThere, MatchByteThere, DictFull, DictPos
<1>. QED  BY <1>1, <1>2, <1>3, <1>4, <1>5

(* The range decoder before the normalization at the end, and after it. *)
LEMMA CoderIs ==
  ASSUME Decoder
  PROVE  /\ RcTyped /\ Normalized.pos = rc.pos + rc.due /\ Normalized.pos \in Nat
         /\ Normalized.temp = rc.temp
         /\ Normalized = [in |-> rc.in, pos |-> rc.pos + rc.due, limit |-> rc.limit,
                          code |-> rc.code, temp |-> rc.temp, due |-> 0]
<1>1. RcTyped
  BY DEF Decoder, Typed
<1>2. Normalized = [in |-> rc.in, pos |-> rc.pos + rc.due, limit |-> rc.limit,
                    code |-> rc.code, temp |-> rc.temp, due |-> 0]
  <2>1. SUFFICES ASSUME NEW coder, coder = [rc EXCEPT !.pos = @ + rc.due, !.due = 0]
                 PROVE  coder = [in |-> rc.in, pos |-> rc.pos + rc.due, limit |-> rc.limit,
                                 code |-> rc.code, temp |-> rc.temp, due |-> 0]
    BY DEF Normalized
  <2>. QED  BY <1>1, <2>1 DEF RcTyped
<1>3. rc.pos + rc.due \in Nat
  BY <1>1 DEF RcTyped
<1>4. Normalized.pos = rc.pos + rc.due /\ Normalized.temp = rc.temp
  BY <1>2
<1>. QED  BY <1>1, <1>2, <1>3, <1>4

LEMMA CopiedCoder ==
  ASSUME Decoder, NEW n \in Nat, NEW coder \in {rc, Normalized}, rc' = [coder EXCEPT !.temp = n]
  PROVE  RcTyped' /\ rc'.temp = n
<1>1. CASE coder = rc
  <2>1. rc' = [in |-> rc.in, pos |-> rc.pos, limit |-> rc.limit, code |-> rc.code, temp |-> n,
               due |-> rc.due]
    BY <1>1, CoderIs DEF RcTyped
  <2>. QED  BY <2>1, CoderIs DEF RcTyped
<1>2. CASE coder = Normalized
  <2>1. rc' = [in |-> rc.in, pos |-> rc.pos + rc.due, limit |-> rc.limit, code |-> rc.code,
               temp |-> n, due |-> 0]
    BY <1>2, CoderIs
  <2>2. rc.pos + rc.due \in Nat
    BY CoderIs
  <2>. QED  BY <2>1, <2>2, CoderIs DEF RcTyped
<1>. QED  BY <1>1, <1>2

(* The end of the input that is put into the copy. *)
LEMMA KeepRestStep ==
  ASSUME Decoder, Running, chunk.seq \in Busy,
         UNCHANGED <<src, dstSize, out, outPos, dict, lzma, xzRet>>,
         NEW in \in Nat, NEW left \in Nat, inPos <= in, in <= Len(src),
         Len(src) - in < InRequired,
         NEW coder \in {rc, Normalized}, KeepRest(coder, in, left)
  PROVE  Decoder'
<1>. DEFINE n == Smaller(Len(src) - in, left)
<1>1. /\ inPos' = in + n /\ rc' = [coder EXCEPT !.temp = n]
      /\ chunk' = [chunk EXCEPT !.seq = "FLUSH", !.compressed = left]
  BY DEF KeepRest
<1>2. Len(src) \in Nat /\ inPos \in Nat /\ InRequired \in Nat
  BY InAvailIs, Lzma2Assumption
<1>3. /\ n \in Nat /\ n <= Len(src) - in /\ n <= left
      /\ n = Len(src) - in \/ n = left
  BY <1>2 DEF Smaller
<1>. HIDE DEF n
<1>4. inPos' \in Nat /\ inPos' <= Len(src)
  BY <1>1, <1>2, <1>3
<1>5. RcTyped' /\ rc'.temp = n
  BY <1>1, <1>3, CoderIs, CopiedCoder
<1>6. /\ chunk' \in Chunks /\ chunk'.seq = "FLUSH" /\ chunk'.compressed = left
      /\ chunk'.uncompressed = chunk.uncompressed
      /\ chunk'.needDictReset = chunk.needDictReset /\ chunk'.needProps = chunk.needProps
  <2>1. chunk \in Chunks
    BY BusyIs
  <2>. QED  BY <1>1, <2>1 DEF Chunks
<1>7. Typed' /\ Bounds' /\ Room' /\ ChunkReady' /\ RepThere'
  <2>1. chunk'.seq \in Busy
    BY <1>6 DEF Busy
  <2>. QED  BY <1>4, <1>5, <1>6, <2>1, BusyStep
<1>8. CopyKept'
  <2>1. rc'.temp <= inPos'
    BY <1>1, <1>3, <1>5
  <2>2. AllLeft' \/ (InAvail = 0 /\ rc.temp < chunk.compressed)'
    <3>1. CASE n = left
      BY <1>2, <1>3, <1>5, <1>6, <3>1 DEF AllLeft
    <3>2. CASE n # left
      <4>1. n = Len(src) - in /\ n < left
        BY <1>2, <1>3, <3>2
      <4>. QED  BY <1>1, <1>2, <1>5, <1>6, <4>1 DEF InAvail
    <3>. QED  BY <3>1, <3>2
  <2>. QED  BY <1>6, <2>1, <2>2 DEF CopyKept
<1>9. Window'
  BY <1>6 DEF Window
<1>. QED  BY <1>7, <1>8, <1>9 DEF Decoder

LEMMA PlaceStep ==
  ASSUME Decoder, Place, UNCHANGED <<src, dstSize>> PROVE Decoder'
<1>1. /\ Running /\ chunk.seq = "PLACE" /\ chunk.seq \in Busy
      /\ UNCHANGED <<src, dstSize, out, outPos, dict, lzma, xzRet>>
  BY DEF Place, In, Running, Busy
<1>2. /\ chunk \in Chunks /\ chunk.compressed \in Nat /\ InRequired \in Nat
      /\ InAvail \in Nat /\ InAvail = Len(src) - inPos /\ inPos \in Nat /\ inPos <= Len(src)
      /\ Len(src) \in Nat
  BY <1>1, BusyIs, InAvailIs, Numbers
<1>3. rc.temp = 0
  BY <1>1 DEF Decoder, CopyKept
<1>4. CASE InAvail < InRequired /\ KeepRest(rc, inPos, chunk.compressed)
  BY <1>1, <1>2, <1>4, KeepRestStep
<1>5. CASE /\ InAvail >= InRequired
           /\ rc' = [rc EXCEPT !.in = inPos, !.pos = 0, !.limit = LimitInPlace]
           /\ chunk' = [chunk EXCEPT !.seq = "IN_PLACE"]
           /\ UNCHANGED inPos
  <2>1. LimitInPlace \in Nat
    BY <1>2, <1>5 DEF LimitInPlace
  <2>2. rc' = [in |-> inPos, pos |-> 0, limit |-> LimitInPlace, code |-> rc.code,
               temp |-> rc.temp, due |-> rc.due]
    BY <1>1, <1>5, BusyIs DEF RcTyped
  <2>3. RcTyped' /\ rc'.temp = 0
    BY <1>1, <1>2, <1>3, <2>1, <2>2, BusyIs DEF RcTyped
  <2>4. /\ chunk' \in Chunks /\ chunk'.seq = "IN_PLACE" /\ chunk'.compressed = chunk.compressed
        /\ chunk'.uncompressed = chunk.uncompressed
        /\ chunk'.needDictReset = chunk.needDictReset /\ chunk'.needProps = chunk.needProps
    BY <1>2, <1>5 DEF Chunks
  <2>5. Typed' /\ Bounds' /\ Room' /\ ChunkReady' /\ RepThere'
    <3>1. chunk'.seq \in Busy /\ inPos' \in Nat /\ inPos' <= Len(src)
      BY <1>2, <1>5, <2>4 DEF Busy
    <3>. QED  BY <1>1, <2>3, <2>4, <3>1, BusyStep
  <2>6. CopyKept'
    BY <1>2, <1>5, <2>3, <2>4 DEF CopyKept
  <2>7. Window'
    <3>1. LimitInPlace' = LimitInPlace /\ InAvail' = InAvail
      BY <1>1, <1>5, <2>4 DEF LimitInPlace, InAvail
    <3>2. rc'.pos + rc'.due <= rc'.limit + 4
      BY <1>1, <2>1, <2>2, BusyIs, Numbers
    <3>. QED  BY <1>2, <1>5, <2>1, <2>2, <2>4, <3>1, <3>2 DEF Window
  <2>. QED  BY <2>5, <2>6, <2>7 DEF Decoder
<1>. QED  BY <1>1, <1>4, <1>5 DEF Place

LEMMA InPlaceEndStep ==
  ASSUME Decoder, InPlaceEnd, UNCHANGED <<src, dstSize>> PROVE Decoder'
<1>1. Running /\ chunk.seq = "IN_PLACE" /\ chunk.seq \in Busy
  BY DEF InPlaceEnd, In, Running, Busy
<1>2. CASE Refuse
  BY <1>1, <1>2, RefuseStep
<1>. DEFINE n == Normalized.pos
            left == chunk.compressed - n
            in == inPos + n
<1>3. CASE /\ n <= chunk.compressed
           /\ UNCHANGED <<out, outPos, dict, lzma, xzRet>>
           /\ IF InAvail - n < InRequired THEN KeepRest(Normalized, in, left)
              ELSE /\ inPos' = in
                   /\ chunk' = [chunk EXCEPT !.seq = "FLUSH", !.compressed = left]
                   /\ rc' = Normalized
  <2>1. /\ chunk \in Chunks /\ chunk.compressed \in Nat /\ InRequired \in Nat
        /\ InRequired > 3 /\ n \in Nat /\ n = rc.pos + rc.due
        /\ InAvail \in Nat /\ InAvail = Len(src) - inPos /\ inPos \in Nat /\ Len(src) \in Nat
    BY <1>1, BusyIs, InAvailIs, Numbers, CoderIs
  <2>2. n <= LimitInPlace + 4 /\ InAvail >= InRequired
    <3>1. Window
      BY DEF Decoder
    <3>. QED  BY <1>1, <2>1, <3>1 DEF Window
  <2>. HIDE DEF n
  <2>3. LimitInPlace <= InAvail - InRequired /\ LimitInPlace \in Int
    BY <2>1, <2>2 DEF LimitInPlace
  <2>4. /\ in \in Nat /\ in <= Len(src) /\ inPos <= in /\ left \in Nat
        /\ InAvail - n = Len(src) - in
    <3>1. n <= Len(src) - inPos
      BY <2>1, <2>2, <2>3
    <3>2. in \in Nat /\ in <= Len(src) /\ inPos <= in /\ left \in Nat
      BY SMTT(30), <1>3, <2>1, <3>1
    <3>3. InAvail - n = Len(src) - in
      BY <2>1
    <3>. QED  BY <3>2, <3>3
  <2>. HIDE DEF in, left
  <2>5. CASE InAvail - n < InRequired
    BY <1>1, <1>3, <2>4, <2>5, KeepRestStep
  <2>6. CASE ~(InAvail - n < InRequired)
    <3>1. /\ chunk' \in Chunks /\ chunk'.seq = "FLUSH"
          /\ chunk'.uncompressed = chunk.uncompressed
          /\ chunk'.needDictReset = chunk.needDictReset /\ chunk'.needProps = chunk.needProps
      BY <1>3, <2>1, <2>4, <2>6 DEF Chunks
    <3>2. rc' = Normalized /\ inPos' = in
      BY <1>3, <2>6
    <3>3. RcTyped' /\ rc'.temp = 0
      <4>1. rc.temp = 0
        BY <1>1 DEF Decoder, CopyKept
      <4>. QED  BY <3>2, <4>1, CoderIs DEF RcTyped
    <3>4. Typed' /\ Bounds' /\ Room' /\ ChunkReady' /\ RepThere'
      <4>1. chunk'.seq \in Busy
        BY <3>1 DEF Busy
      <4>. QED  BY <1>1, <1>3, <2>4, <3>1, <3>2, <3>3, <4>1, BusyStep
    <3>5. CopyKept'
      BY <2>4, <3>1, <3>2, <3>3 DEF CopyKept
    <3>6. Window'
      BY <3>1 DEF Window
    <3>. QED  BY <3>4, <3>5, <3>6 DEF Decoder
  <2>. QED  BY <2>5, <2>6
<1>. QED  BY <1>2, <1>3 DEF InPlaceEnd

(* What the copy holds is what is left of the chunk: it is what lzma_main *)
(* may read.                                                              *)
LEMMA HeldIs ==
  ASSUME Decoder, AllLeft
  PROVE  Held = rc.temp /\ Held = chunk.compressed /\ LimitInCopy = rc.temp /\ Held \in Nat
<1>1. /\ InAvail \in Nat /\ rc.temp \in Nat /\ chunk.compressed \in Nat /\ InRequired \in Nat
      /\ rc.temp = chunk.compressed /\ rc.temp < InRequired
  BY InAvailIs, Numbers DEF Decoder, AllLeft
<1>2. Smaller(2 * InRequired, chunk.compressed) = rc.temp
  BY <1>1 DEF Smaller
<1>3. Added = 0
  BY <1>1, <1>2 DEF Added, Smaller
<1>4. Held = rc.temp
  BY <1>1, <1>3 DEF Held
<1>. QED  BY <1>1, <1>4 DEF LimitInCopy

LEMMA CopiedEndStep ==
  ASSUME Decoder, CopiedEnd, UNCHANGED <<src, dstSize>> PROVE Decoder'
<1>. DEFINE n == Normalized.pos
<1>1. Running /\ chunk.seq = "COPIED" /\ chunk.seq \in Busy
  BY DEF CopiedEnd, In, Running, Busy
<1>2. AllLeft /\ rc.in = inPos - rc.temp
  BY <1>1 DEF Decoder, CopyKept, Window
<1>3. /\ chunk \in Chunks /\ chunk.compressed \in Nat /\ rc.temp \in Nat /\ n \in Nat
      /\ inPos \in Nat /\ Len(src) \in Nat /\ inPos <= Len(src) /\ rc.temp <= inPos
      /\ InRequired \in Nat /\ InRequired > 3
      /\ rc.temp = chunk.compressed /\ rc.temp < InRequired
      /\ RcTyped
  BY <1>1, <1>2, BusyIs, InAvailIs, Numbers, CoderIs DEF AllLeft
<1>4. CASE Refuse
  BY <1>1, <1>4, RefuseStep
<1>. DEFINE left == chunk.compressed - n
            more == rc.temp - n
<1>. HIDE DEF n
<1>5. CASE /\ n <= Held /\ n < rc.temp
           /\ rc' = [Normalized EXCEPT !.temp = more]
           /\ chunk' = [chunk EXCEPT !.seq = "FLUSH", !.compressed = left]
           /\ UNCHANGED <<inPos, out, outPos, dict, lzma, xzRet>>
  <2>1. left \in Nat /\ more \in Nat /\ left = more /\ more <= rc.temp
    BY <1>3, <1>5
  <2>. HIDE DEF left, more
  <2>2. /\ chunk' \in Chunks /\ chunk'.seq = "FLUSH" /\ chunk'.compressed = left
        /\ chunk'.uncompressed = chunk.uncompressed
        /\ chunk'.needDictReset = chunk.needDictReset /\ chunk'.needProps = chunk.needProps
    BY <1>3, <1>5, <2>1 DEF Chunks
  <2>3. RcTyped' /\ rc'.temp = more
    BY <1>3, <1>5, <2>1, CopiedCoder
  <2>4. Typed' /\ Bounds' /\ Room' /\ ChunkReady' /\ RepThere'
    <3>1. chunk'.seq \in Busy /\ inPos' \in Nat /\ inPos' <= Len(src)
      BY <1>3, <1>5, <2>2 DEF Busy
    <3>. QED  BY <1>1, <1>5, <2>2, <2>3, <3>1, BusyStep
  <2>5. CopyKept'
    <3>1. AllLeft' /\ rc'.temp <= inPos'
      BY <1>3, <1>5, <2>1, <2>2, <2>3 DEF AllLeft
    <3>. QED  BY <2>2, <3>1 DEF CopyKept
  <2>6. Window'
    BY <2>2 DEF Window
  <2>. QED  BY <2>4, <2>5, <2>6 DEF Decoder
<1>6. CASE /\ n <= Held /\ ~(n < rc.temp)
           /\ rc' = [Normalized EXCEPT !.temp = 0]
           /\ chunk' = [chunk EXCEPT !.seq = "PLACE", !.compressed = left]
           /\ inPos' = rc.in + n
           /\ UNCHANGED <<out, outPos, dict, lzma, xzRet>>
  <2>1. left = 0 /\ left \in Nat /\ inPos' = inPos
    <3>1. n <= rc.temp
      BY <1>2, <1>6, HeldIs
    <3>2. n = rc.temp
      BY <1>3, <1>6, <3>1
    <3>. QED  BY <1>2, <1>3, <1>6, <3>2
  <2>. HIDE DEF left
  <2>2. /\ chunk' \in Chunks /\ chunk'.seq = "PLACE" /\ chunk'.compressed = left
        /\ chunk'.uncompressed = chunk.uncompressed
        /\ chunk'.needDictReset = chunk.needDictReset /\ chunk'.needProps = chunk.needProps
    BY <1>3, <1>6, <2>1 DEF Chunks
  <2>3. RcTyped' /\ rc'.temp = 0
    BY <1>3, <1>6, CopiedCoder
  <2>4. Typed' /\ Bounds' /\ Room' /\ ChunkReady' /\ RepThere'
    <3>1. chunk'.seq \in Busy /\ inPos' \in Nat /\ inPos' <= Len(src)
      BY <1>3, <2>1, <2>2 DEF Busy
    <3>. QED  BY <1>1, <1>6, <2>2, <2>3, <3>1, BusyStep
  <2>5. CopyKept'
    BY <1>3, <2>1, <2>2, <2>3 DEF CopyKept
  <2>6. Window'
    BY <2>2 DEF Window
  <2>. QED  BY <2>4, <2>5, <2>6 DEF Decoder
<1>7. Normalized.temp = rc.temp
  BY CoderIs
<1>. QED  BY <1>4, <1>5, <1>6, <1>7 DEF CopiedEnd, n

(* The room of a run: to the ceiling, or to the end of the chunk. *)
LEMMA LimitIs ==
  ASSUME Decoder, outPos = Len(out)
  PROVE  /\ DictLimit \in Nat
         /\ dict.base + DictLimit = Smaller(dstSize, outPos + chunk.uncompressed)
         /\ Len(out) <= dict.base + DictLimit
<1>1. /\ Len(out) \in Nat /\ dict.base \in Nat /\ dstSize \in Nat /\ chunk.uncompressed \in Nat
      /\ dict.base <= Len(out) /\ Len(out) <= dstSize
  BY Numbers DEF Decoder, Bounds
<1>. DEFINE most == Smaller(dstSize - outPos, chunk.uncompressed)
<1>2. most \in Nat /\ IF dstSize - Len(out) <= chunk.uncompressed THEN most = dstSize - Len(out)
                      ELSE most = chunk.uncompressed
  BY <1>1 DEF Smaller
<1>3. DictLimit = IF DictEnd - DictPos <= most THEN DictEnd ELSE DictPos + most
  BY DEF DictLimit
<1>. HIDE DEF most
<1>4. /\ DictEnd = dstSize - dict.base /\ DictPos = Len(out) - dict.base
      /\ DictEnd - DictPos = dstSize - Len(out)
  <2>1. DictEnd = dstSize - dict.base /\ DictPos = Len(out) - dict.base
    BY DEF DictEnd, DictPos
  <2>2. (dstSize - dict.base) - (Len(out) - dict.base) = dstSize - Len(out)
    <3>1. \A a, b, c \in Nat : (a - c) - (b - c) = a - b
      OBVIOUS
    <3>. QED  BY <1>1, <3>1, Zenon
  <2>. QED  BY <2>1, <2>2
<1>5. CASE dstSize - Len(out) <= chunk.uncompressed
  <2>1. DictLimit = dstSize - dict.base
    <3>1. DictEnd - DictPos <= most
      BY <1>1, <1>2, <1>4, <1>5
    <3>. QED  BY <1>3, <1>4, <3>1
  <2>2. Smaller(dstSize, outPos + chunk.uncompressed) = dstSize
    BY <1>1, <1>5 DEF Smaller
  <2>. QED  BY <1>1, <2>1, <2>2
<1>6. CASE ~(dstSize - Len(out) <= chunk.uncompressed)
  <2>1. DictLimit = (Len(out) - dict.base) + chunk.uncompressed
    <3>1. ~(DictEnd - DictPos <= most) /\ most = chunk.uncompressed
      BY <1>1, <1>2, <1>4, <1>6
    <3>. QED  BY <1>3, <1>4, <3>1
  <2>2. Smaller(dstSize, outPos + chunk.uncompressed) = Len(out) + chunk.uncompressed
    BY <1>1, <1>6 DEF Smaller
  <2>. QED  BY SMTT(30), <1>1, <2>1, <2>2
<1>. QED  BY <1>5, <1>6

LEMMA RunStep ==
  ASSUME Decoder, Run, UNCHANGED <<src, dstSize>> PROVE Decoder'
<1>1. /\ Running /\ chunk.seq = "LZMA_RUN" /\ chunk.seq \notin Busy
      /\ UNCHANGED <<src, dstSize, inPos, out, outPos, lzma, xzRet>>
      /\ dict' = [dict EXCEPT !.limit = DictLimit]
  BY DEF Run, In, Running, Busy
<1>2. /\ Typed /\ RcTyped /\ LzmaTyped /\ DictTyped /\ BufferTyped /\ chunk \in Chunks
      /\ Bounds /\ outPos = Len(out) /\ lzma.len = 0 /\ rc.temp <= inPos
      /\ rc.temp = 0 \/ AllLeft
  <2>1. Typed /\ Bounds /\ Room /\ CopyKept
    BY DEF Decoder
  <2>2. RcTyped /\ LzmaTyped /\ DictTyped /\ BufferTyped /\ chunk \in Chunks
    BY <2>1 DEF Typed, BufferTyped
  <2>3. outPos = Len(out) /\ lzma.len = 0
    BY <1>1, <2>1 DEF Bounds, Room, Running
  <2>4. rc.temp <= inPos /\ (rc.temp = 0 \/ AllLeft)
    BY <1>1, <2>1 DEF CopyKept
  <2>. QED  BY <2>1, <2>2, <2>3, <2>4
<1>3. /\ DictLimit \in Nat
      /\ dict.base + DictLimit = Smaller(dstSize, outPos + chunk.uncompressed)
      /\ Len(out) <= dict.base + DictLimit
  BY <1>2, LimitIs
<1>4. DictTyped' /\ dict'.base = dict.base /\ dict'.limit = DictLimit
  <2>1. dict' = [base |-> dict.base, limit |-> DictLimit, size |-> dict.size]
    BY <1>1, <1>2 DEF DictTyped
  <2>. QED  BY <1>2, <1>3, <2>1 DEF DictTyped
<1>5. /\ ~chunk.needDictReset /\ ~chunk.needProps /\ MatchByteThere
  <2>1. ~chunk.needDictReset /\ ~chunk.needProps
    BY <1>1 DEF Decoder, ChunkReady
  <2>. QED  BY <1>1, <2>1 DEF Decoder, RepThere, ToProperties
<1>6. ASSUME chunk' \in Chunks, chunk'.seq \in Busy, RcTyped',
             chunk'.uncompressed = chunk.uncompressed,
             chunk'.needDictReset = chunk.needDictReset, chunk'.needProps = chunk.needProps
      PROVE  Typed' /\ Bounds' /\ Room' /\ ChunkReady' /\ RepThere'
  <2>1. Typed'
    <3>1. LzmaTyped'
      BY <1>1, <1>2 DEF LzmaTyped
    <3>. QED  BY <1>1, <1>2, <1>4, <1>6, <3>1 DEF Typed, BufferTyped
  <2>2. Bounds'
    BY <1>1, <1>2, <1>4 DEF Bounds
  <2>3. Room'
    BY <1>1, <1>2, <1>3, <1>4, <1>6 DEF Room, Smaller
  <2>4. ChunkReady'
    <3>1. chunk'.seq # "UNCOMPRESSED"
      BY <1>6 DEF Busy
    <3>. QED  BY <1>5, <1>6, <3>1 DEF ChunkReady
  <2>5. RepThere'
    BY <1>1, <1>4, <1>5 DEF RepThere, MatchByteThere, DictFull, DictPos
  <2>. QED  BY <2>1, <2>2, <2>3, <2>4, <2>5
<1>7. CASE /\ InCopy
           /\ chunk' = [chunk EXCEPT !.seq = "COPIED"]
           /\ rc' = [rc EXCEPT !.in = inPos - rc.temp, !.pos = 0, !.limit = LimitInCopy]
  <2>1. rc.temp \in Nat /\ chunk.compressed \in Nat /\ InRequired \in Nat /\ InRequired > 3
        /\ inPos \in Nat /\ rc.due \in {0, 1}
    BY <1>2, Numbers DEF RcTyped
  <2>2. AllLeft
    BY <1>2, <1>7, <2>1 DEF InCopy, AllLeft
  <2>3. LimitInCopy = rc.temp
    BY <2>2, HeldIs
  <2>4. rc' = [in |-> inPos - rc.temp, pos |-> 0, limit |-> rc.temp, code |-> rc.code,
               temp |-> rc.temp, due |-> rc.due]
    BY <1>2, <1>7, <2>3 DEF RcTyped
  <2>5. inPos - rc.temp \in Nat
    BY <1>2, <2>1
  <2>6. RcTyped' /\ rc'.temp = rc.temp
    BY <2>1, <2>4, <2>5 DEF RcTyped
  <2>7. /\ chunk' \in Chunks /\ chunk'.seq = "COPIED" /\ chunk'.compressed = chunk.compressed
        /\ chunk'.uncompressed = chunk.uncompressed
        /\ chunk'.needDictReset = chunk.needDictReset /\ chunk'.needProps = chunk.needProps
    BY <1>2, <1>7 DEF Chunks
  <2>8. Typed' /\ Bounds' /\ Room' /\ ChunkReady' /\ RepThere'
    <3>1. chunk'.seq \in Busy
      BY <2>7 DEF Busy
    <3>. QED  BY <1>6, <2>6, <2>7, <3>1
  <2>9. CopyKept'
    <3>1. AllLeft' /\ rc'.temp <= inPos'
      BY <1>1, <1>2, <2>2, <2>6, <2>7 DEF AllLeft
    <3>. QED  BY <2>7, <3>1 DEF CopyKept
  <2>10. Window'
    BY <1>1, <2>1, <2>4, <2>7 DEF Window
  <2>. QED  BY <2>8, <2>9, <2>10 DEF Decoder
<1>8. CASE ~InCopy /\ chunk' = [chunk EXCEPT !.seq = "PLACE"] /\ UNCHANGED rc
  <2>1. rc.temp = 0
    BY <1>2, <1>8, Numbers DEF InCopy
  <2>2. /\ chunk' \in Chunks /\ chunk'.seq = "PLACE"
        /\ chunk'.uncompressed = chunk.uncompressed
        /\ chunk'.needDictReset = chunk.needDictReset /\ chunk'.needProps = chunk.needProps
    BY <1>2, <1>8 DEF Chunks
  <2>3. Typed' /\ Bounds' /\ Room' /\ ChunkReady' /\ RepThere'
    <3>1. chunk'.seq \in Busy /\ RcTyped'
      BY <1>2, <1>8, <2>2 DEF Busy, RcTyped
    <3>. QED  BY <1>6, <2>2, <3>1
  <2>4. CopyKept'
    BY <1>1, <1>2, <1>8, <2>1, <2>2 DEF CopyKept
  <2>5. Window'
    BY <2>2 DEF Window
  <2>. QED  BY <2>3, <2>4, <2>5 DEF Decoder
<1>. QED  BY <1>7, <1>8 DEF Run

LEMMA FlushStep ==
  ASSUME Decoder, Flush, UNCHANGED <<src, dstSize>> PROVE Decoder'
<1>. DEFINE left == chunk.uncompressed - (Len(out) - outPos)
            seq == IF left = 0 THEN "CONTROL" ELSE "LZMA_RUN"
<1>1. /\ Running /\ chunk.seq = "FLUSH" /\ chunk.seq \in Busy
      /\ UNCHANGED <<src, dstSize, inPos, out, dict, lzma, rc>> /\ outPos' = Len(out)
      /\ chunk' = [chunk EXCEPT !.uncompressed = left, !.seq = seq]
      /\ xzRet' \in {"RUNNING", "OK", "DATA_ERROR"}
      /\ xzRet' = "RUNNING" /\ left = 0 => ChunkOver
      /\ xzRet' = "RUNNING" /\ left # 0 =>
           /\ Len(out) # dstSize
           /\ ~(InAvail = 0 /\ rc.temp < chunk.compressed)
  BY DEF Flush, In, Running, Busy, Stop
<1>2. /\ dict.base <= outPos /\ outPos <= Len(out) /\ Len(out) <= dstSize
      /\ inPos <= Len(src) /\ rc.temp <= inPos
      /\ dict.base + dict.limit = Smaller(dstSize, outPos + chunk.uncompressed)
      /\ Len(out) <= dict.base + dict.limit
      /\ lzma.len = 0 \/ Len(out) = dict.base + dict.limit
      /\ ~chunk.needDictReset /\ ~chunk.needProps
      /\ MatchByteThere
  BY <1>1, BusyIs
<1>3. /\ Len(out) \in Nat /\ outPos \in Nat /\ dstSize \in Nat /\ chunk.uncompressed \in Nat
      /\ chunk.compressed \in Nat /\ rc.temp \in Nat
      /\ dict.base \in Nat /\ dict.limit \in Nat
  BY Numbers DEF Decoder
<1>4. left \in Nat
  BY <1>2, <1>3 DEF Smaller
<1>5. seq \in {"CONTROL", "LZMA_RUN"} /\ (left = 0 => seq = "CONTROL")
      /\ (left # 0 => seq = "LZMA_RUN")
  OBVIOUS
<1>6. xzRet' = "RUNNING" => lzma.len = 0
  <2>1. SUFFICES ASSUME xzRet' = "RUNNING", left # 0 PROVE lzma.len = 0
    BY <1>1 DEF ChunkOver
  <2>2. Len(out) # dstSize /\ Len(out) # outPos + chunk.uncompressed
    BY <1>1, <1>3, <2>1
  <2>. QED  BY <1>2, <1>3, <2>2 DEF Smaller
<1>. HIDE DEF left, seq
<1>7. /\ chunk' \in Chunks /\ chunk'.seq = seq /\ chunk'.compressed = chunk.compressed
      /\ chunk'.needDictReset = chunk.needDictReset /\ chunk'.needProps = chunk.needProps
  <2>1. chunk \in Chunks
    BY <1>1, BusyIs
  <2>. QED  BY <1>1, <1>4, <1>5, <2>1 DEF Chunks
<1>8. seq \notin Busy
  BY <1>5, ModeIs
<1>9. Typed'
  <2>1. Typed /\ RcTyped /\ LzmaTyped /\ DictTyped /\ BufferTyped
    BY <1>1, BusyIs DEF Typed
  <2>2. RcTyped' /\ LzmaTyped' /\ DictTyped'
    BY <1>1, <2>1 DEF RcTyped, LzmaTyped, DictTyped
  <2>. QED  BY <1>1, <1>3, <1>7, <2>1, <2>2 DEF Typed, BufferTyped
<1>10. Bounds'
  BY <1>1, <1>2, <1>3 DEF Bounds
<1>11. Room'
  <2>1. xzRet' # "STREAM_END"
    BY <1>1
  <2>. QED  BY <1>1, <1>6, <1>7, <1>8, <2>1 DEF Room
<1>12. CopyKept'
  <2>1. rc'.temp <= inPos'
    BY <1>1, <1>2
  <2>2. ASSUME xzRet' = "RUNNING" PROVE rc.temp = 0 \/ (left # 0 /\ AllLeft)
    <3>1. rc.temp = 0 \/ AllLeft \/ (InAvail = 0 /\ rc.temp < chunk.compressed)
      BY <1>1 DEF Decoder, CopyKept
    <3>2. left = 0 => chunk.compressed = 0
      BY <1>1, <2>2 DEF ChunkOver
    <3>. QED  BY <1>1, <1>3, <2>2, <3>1, <3>2 DEF AllLeft
  <2>3. AllLeft' = AllLeft
    BY <1>1, <1>7 DEF AllLeft
  <2>. QED  BY <1>1, <1>5, <1>7, <2>1, <2>2, <2>3 DEF CopyKept, Running
<1>13. Window'
  BY <1>5, <1>7 DEF Window
<1>14. ChunkReady'
  BY <1>2, <1>5, <1>7 DEF ChunkReady
<1>15. RepThere'
  BY <1>1, <1>2 DEF RepThere, MatchByteThere, DictFull, DictPos
<1>. QED  BY <1>9, <1>10, <1>11, <1>12, <1>13, <1>14, <1>15 DEF Decoder

(* A symbol: the output grows into the room, the range decoder goes on by a *)
(* byte or two, after the one that was due, and may leave another due.      *)
LEMMA SymbolStep ==
  ASSUME Decoder, Symbols, UNCHANGED <<src, dstSize, inPos, outPos, chunk, dict, xzRet>>,
         NEW cost \in {1, 2}, NEW due \in {0, 1}, Take(cost, due),
         out' \in Seq(Byte), Len(out') >= Len(out), Len(out') <= dict.base + dict.limit,
         LzmaTyped', lzma'.len = 0 \/ Len(out') = dict.base + dict.limit,
         MatchByteThere'
  PROVE  Decoder'
<1>1. /\ Running /\ chunk.seq \in {"COPIED", "IN_PLACE"} /\ chunk.seq \in Busy
      /\ HasSpace /\ rc.pos <= rc.limit
  BY DEF Symbols, Decoding, Running, Busy
<1>2. /\ Typed /\ BufferTyped /\ RcTyped /\ DictTyped /\ chunk \in Chunks
      /\ dict.base <= outPos /\ outPos <= Len(out) /\ Len(out) <= dstSize
      /\ inPos <= Len(src) /\ rc.temp <= inPos
      /\ dict.base + dict.limit = Smaller(dstSize, outPos + chunk.uncompressed)
      /\ ~chunk.needDictReset /\ ~chunk.needProps
  BY <1>1, BusyIs DEF Typed
<1>3. /\ Len(out) \in Nat /\ outPos \in Nat /\ dstSize \in Nat /\ chunk.uncompressed \in Nat
      /\ dict.base \in Nat /\ dict.limit \in Nat /\ Len(out') \in Nat
      /\ rc.pos \in Nat /\ rc.limit \in Nat /\ rc.due \in Nat /\ rc.due <= 1
  BY <1>2, Numbers, LenProperties
<1>4. RcTyped' /\ rc'.pos = rc.pos + rc.due + cost /\ rc'.in = rc.in
      /\ rc'.limit = rc.limit /\ rc'.temp = rc.temp /\ rc'.due = due
  <2>1. rc' = [in |-> rc.in, pos |-> rc.pos + rc.due + cost, limit |-> rc.limit,
               code |-> rc.code, temp |-> rc.temp, due |-> due]
    BY <1>2 DEF RcTyped, Take
  <2>2. rc.pos + rc.due + cost \in Nat
    BY <1>3
  <2>. QED  BY <1>2, <2>1, <2>2 DEF RcTyped
<1>5. Typed'
  <2>1. DictTyped'
    BY <1>2 DEF DictTyped
  <2>. QED  BY <1>2, <1>4, <2>1 DEF Typed, BufferTyped
<1>6. Bounds'
  <2>1. Len(out') <= dstSize
    BY <1>2, <1>3 DEF Smaller
  <2>. QED  BY <1>1, <1>2, <1>3, <2>1 DEF Bounds
<1>7. Room'
  BY <1>1, <1>2, <1>3 DEF Room, Smaller
<1>8. CopyKept'
  BY <1>1, <1>4 DEF Decoder, CopyKept, AllLeft, InAvail, Running
<1>9. Window'
  <2>1. LimitInPlace' = LimitInPlace /\ InAvail' = InAvail
    BY DEF LimitInPlace, InAvail
  <2>2. rc'.pos + rc'.due <= rc'.limit + 4
    BY SMTT(30), <1>1, <1>3, <1>4
  <2>. QED  BY <1>1, <1>4, <2>1, <2>2 DEF Decoder, Window, Running
<1>10. ChunkReady'
  BY DEF Decoder, ChunkReady
<1>11. RepThere'
  BY DEF RepThere
<1>. QED  BY <1>5, <1>6, <1>7, <1>8, <1>9, <1>10, <1>11 DEF Decoder

LEMMA SymbolIs ==
  ASSUME Decoder, Symbols
  PROVE  /\ Running /\ chunk.seq \in Busy /\ lzma.len = 0 /\ LzmaTyped /\ Typed
         /\ out \in Seq(Byte) /\ Len(out) \in Nat /\ dict.base \in Nat /\ dict.limit \in Nat
         /\ dict.base <= Len(out) /\ Len(out) + 1 <= dict.base + dict.limit
         /\ lzma.state \in Nat /\ lzma.state <= 11
         /\ Peek(0) \in Nat /\ Peek(0) <= 255 /\ Peek(1) \in Nat
         /\ Leaves(Peek(0)) \in {0, 1}
         /\ MatchByteThere
<1>1. /\ Running /\ chunk.seq \in {"COPIED", "IN_PLACE"} /\ chunk.seq \in Busy /\ HasSpace
  BY DEF Symbols, Decoding, Running, Busy
<1>2. /\ Typed /\ LzmaTyped /\ out \in Seq(Byte)
      /\ dict.base <= outPos /\ outPos <= Len(out)
      /\ lzma.len = 0 \/ Len(out) = dict.base + dict.limit
      /\ MatchByteThere
  BY <1>1, BusyIs
<1>3. /\ Len(out) \in Nat /\ outPos \in Nat /\ dict.base \in Nat /\ dict.limit \in Nat
      /\ rc.in \in Nat /\ rc.pos \in Nat /\ rc.due \in Nat
  BY <1>2, Numbers
<1>4. Len(out) + 1 <= dict.base + dict.limit
  BY <1>1, <1>3 DEF HasSpace, DictPos
<1>5. lzma.len = 0
  BY <1>2, <1>3, <1>4
<1>6. lzma.state \in Nat /\ lzma.state <= 11
  BY <1>2 DEF LzmaTyped
<1>7. \A k \in Nat : Peek(k) \in Nat /\ Peek(k) <= 255
  <2>1. SUFFICES ASSUME NEW k \in Nat PROVE Peek(k) \in Nat /\ Peek(k) <= 255
    OBVIOUS
  <2>. DEFINE i == rc.in + (rc.pos + rc.due + k)
  <2>2. i \in Nat
    BY <1>3
  <2>3. At(i) \in Nat /\ At(i) <= 255
    BY <1>2, <2>2, AtByte
  <2>. QED  BY <2>3 DEF Peek
<1>8. dict.base <= Len(out)
  BY <1>2, <1>3
<1>9. Peek(0) \in Nat /\ Peek(0) <= 255 /\ Peek(1) \in Nat
  BY <1>7
<1>10. Leaves(Peek(0)) \in {0, 1}
  BY <1>9 DEF Leaves
<1>. QED  BY <1>1, <1>2, <1>3, <1>4, <1>5, <1>6, <1>8, <1>9, <1>10

LEMMA LiteralStep ==
  ASSUME Decoder, Literal, UNCHANGED <<src, dstSize>> PROVE Decoder' /\ Grown
<1>. DEFINE state == IF lzma.state <= 3 THEN 0
                     ELSE IF lzma.state <= 9 THEN lzma.state - 3 ELSE lzma.state - 6
<1>1. /\ Symbols /\ out' = Append(out, Peek(0)) /\ lzma' = [lzma EXCEPT !.state = state]
      /\ Take(1, 0)
      /\ UNCHANGED <<src, dstSize, inPos, outPos, chunk, dict, xzRet>>
  BY DEF Literal
<1>0. /\ lzma.state \in Nat /\ lzma.state <= 11 /\ lzma.len = 0
      /\ lzma = [rep |-> lzma.rep, state |-> lzma.state, len |-> lzma.len]
      /\ lzma.rep \in Seq(Nat) /\ Len(lzma.rep) = 4
  <2>1. LzmaTyped /\ lzma.len = 0
    BY <1>1, SymbolIs
  <2>. QED  BY <2>1 DEF LzmaTyped
<1>2. /\ state \in Nat /\ state <= 11
      /\ lzma.state <= 6 => state <= 6
  BY <1>0
<1>. HIDE DEF state
<1>3. Peek(0) \in Byte
  BY <1>1, SymbolIs, ByteIs
<1>4. out' \in Seq(Byte) /\ Len(out') = Len(out) + 1
  BY <1>1, <1>3, SymbolIs, AppendProperties
<1>5. LzmaTyped' /\ lzma'.len = 0 /\ lzma'.rep = lzma.rep /\ lzma'.state = state
  <2>1. lzma' = [rep |-> lzma.rep, state |-> state, len |-> lzma.len]
    BY <1>0, <1>1
  <2>. QED  BY <1>0, <1>2, <2>1 DEF LzmaTyped
<1>6. MatchByteThere'
  <2>1. CASE lzma.state \in LiteralStates
    BY <1>2, <1>5, <2>1, LiteralIs DEF MatchByteThere
  <2>2. CASE lzma.rep[1] < DictFull
    <3>1. lzma.rep[1] \in Nat
      <4>1. lzma.rep \in Seq(Nat) /\ 1 \in 1 .. Len(lzma.rep)
        BY <1>0
      <4>. QED  BY <4>1, ElementOfSeq
    <3>2. Len(out) \in Nat /\ dict.base \in Nat
      BY <1>1, SymbolIs
    <3>. QED  BY <1>1, <1>4, <1>5, <2>2, <3>1, <3>2 DEF MatchByteThere, DictFull, DictPos
  <2>. QED  BY <1>1, <2>1, <2>2, SymbolIs DEF MatchByteThere
<1>7. Len(out') >= Len(out) /\ Len(out') <= dict.base + dict.limit
  BY <1>1, <1>4, SymbolIs
<1>8. Decoder'
  BY <1>1, <1>4, <1>5, <1>6, <1>7, SymbolStep
<1>9. Grown
  <2>1. out \in Seq(Byte) /\ Len(out) \in Nat
    BY <1>1, SymbolIs
  <2>2. \A i \in 1 .. Len(out) : Append(out, Peek(0))[i] = out[i]
    BY <1>3, <2>1, AppendProperties
  <2>. QED  BY <1>1, <1>4, <2>1, <2>2 DEF Grown
<1>. QED  BY <1>8, <1>9

(* A match repeats bytes of the dictionary, as many as there is room for. *)
LEMMA RepeatStep ==
  ASSUME Decoder, Symbols, UNCHANGED <<src, dstSize>>,
         NEW rep \in Seq(Nat), Len(rep) = 4,
         NEW len \in Nat, len <= 273, NEW state \in Nat, state <= 11,
         NEW cost \in {1, 2}, Repeat(rep, len, state, cost)
  PROVE  Decoder' /\ Grown
<1>1. Running
  BY SymbolIs
<1>2. CASE Refuse
  <2>1. Len(out) \in Nat /\ out' = out
    BY <1>2, SymbolIs DEF Refuse
  <2>. QED  BY <1>1, <1>2, <2>1, RefuseStep DEF Grown
<1>. DEFINE n == Smaller(dict.limit - DictPos, len)
            left == len - n
            more == Repeated(n, rep[1])
<1>3. CASE /\ DistanceRight(rep[1])
           /\ out' = out \o more
           /\ lzma' = [rep |-> rep, state |-> state, len |-> left]
           /\ Take(cost, Leaves(Peek(0)))
           /\ UNCHANGED <<inPos, outPos, chunk, dict, xzRet>>
  <2>1. rep[1] \in Nat
    <3>1. 1 \in 1 .. Len(rep)
      OBVIOUS
    <3>. QED  BY <3>1, ElementOfSeq
  <2>2. /\ Len(out) \in Nat /\ dict.base \in Nat /\ dict.limit \in Nat
        /\ dict.base <= Len(out) /\ Len(out) + 1 <= dict.base + dict.limit
        /\ out \in Seq(Byte)
    BY SymbolIs
  <2>3. rep[1] < Len(out) - dict.base /\ rep[1] < Len(out)
    BY <1>3, <2>1, <2>2 DEF DistanceRight, DictFull, DictPos
  <2>4. /\ n \in Nat /\ n <= len /\ Len(out) + n <= dict.base + dict.limit
        /\ n = len \/ Len(out) + n = dict.base + dict.limit
    BY SMTT(30), <2>2 DEF Smaller, DictPos
  <2>. HIDE DEF n
  <2>5. left \in Nat /\ left <= 273 /\ (left = 0 \/ Len(out) + n = dict.base + dict.limit)
    BY <2>4
  <2>. HIDE DEF left
  <2>6. more \in Seq(Byte) /\ Len(more) = n
    BY <2>1, <2>2, <2>3, <2>4, RepeatedBytes
  <2>. HIDE DEF more
  <2>7. out' \in Seq(Byte) /\ Len(out') = Len(out) + n /\ Grown
    BY <1>3, <2>2, <2>6, Longer DEF Grown
  <2>8. LzmaTyped' /\ lzma'.len = left /\ lzma'.rep = rep
    BY <1>3, <2>5 DEF LzmaTyped
  <2>9. MatchByteThere'
    BY SMTT(30), <1>3, <2>1, <2>2, <2>3, <2>4, <2>7, <2>8 DEF MatchByteThere, DictFull, DictPos
  <2>10. Len(out') >= Len(out) /\ Len(out') <= dict.base + dict.limit
    BY <2>2, <2>4, <2>7
  <2>11. Decoder'
    BY <1>3, <2>5, <2>7, <2>8, <2>9, <2>10, SymbolIs, SymbolStep
  <2>. QED  BY <2>7, <2>11
<1>. QED  BY <1>2, <1>3 DEF Repeat

LEMMA MatchSteps ==
  ASSUME Decoder, Match \/ RepMatch \/ ShortRep, UNCHANGED <<src, dstSize>>
  PROVE  Decoder' /\ Grown
<1>1. Symbols
  BY DEF Match, RepMatch, ShortRep
<1>2. /\ lzma.rep \in Seq(Nat) /\ Len(lzma.rep) = 4
      /\ Peek(0) \in Nat /\ Peek(1) \in Nat
  BY <1>1, SymbolIs DEF LzmaTyped
<1>3. \A a, b \in Nat : a <= 11 /\ b <= 11 =>
        After(lzma.state, a, b) \in Nat /\ After(lzma.state, a, b) <= 11
  BY DEF After
<1>4. CASE Match
  <2>. DEFINE rep == <<Peek(1)>> \o Front(lzma.rep)
              len == 2 + (Peek(0) % 16)
              state == After(lzma.state, 7, 10)
  <2>1. rep \in Seq(Nat) /\ Len(rep) = 4
    BY <1>2, NewDistance
  <2>2. len \in Nat /\ len <= 273
    BY <1>2
  <2>3. state \in Nat /\ state <= 11
    BY <1>3
  <2>4. Repeat(rep, len, state, 2)
    BY <1>4 DEF Match
  <2>. HIDE DEF rep, len, state
  <2>. QED  BY <1>1, <2>1, <2>2, <2>3, <2>4, RepeatStep
<1>5. CASE RepMatch
  <2>. DEFINE which == ((Peek(0) % 16) \div 4) + 1
              rep == <<lzma.rep[which]>> \o RemoveAt(lzma.rep, which)
              len == 2 + (Peek(0) % 4)
              state == After(lzma.state, 8, 11)
  <2>1. which \in 1 .. 4
    BY <1>2
  <2>. HIDE DEF which
  <2>2. rep \in Seq(Nat) /\ Len(rep) = 4
    BY <1>2, <2>1, OldDistance
  <2>3. len \in Nat /\ len <= 273
    BY <1>2
  <2>4. state \in Nat /\ state <= 11
    BY <1>3
  <2>5. Repeat(rep, len, state, 1)
    BY <1>5 DEF RepMatch, which
  <2>. HIDE DEF rep, len, state
  <2>. QED  BY <1>1, <2>2, <2>3, <2>4, <2>5, RepeatStep
<1>6. CASE ShortRep
  <2>. DEFINE state == After(lzma.state, 9, 11)
  <2>1. state \in Nat /\ state <= 11
    BY <1>3
  <2>2. Repeat(lzma.rep, 1, state, 1)
    BY <1>6 DEF ShortRep
  <2>. HIDE DEF state
  <2>. QED  BY <1>1, <1>2, <2>1, <2>2, RepeatStep
<1>. QED  BY <1>4, <1>5, <1>6

(* Whatever the LZMA2 decoder does. *)
LEMMA DecoderStep ==
  ASSUME Decoder, Lzma2Run, UNCHANGED <<src, dstSize>>
  PROVE  Decoder' /\ Grown /\ (xzRet' = "STREAM_END" => chunk'.seq = "CONTROL")
<1>1. Len(out) \in Nat
  BY Numbers DEF Decoder
<1>2. CASE Control
  <2>1. out' = out
    BY <1>2 DEF Control, RunsOut, Refuse
  <2>2. xzRet' = "STREAM_END" => chunk'.seq = "CONTROL"
    BY <1>2 DEF Control, RunsOut, Refuse, Stop, In
  <2>. QED  BY <1>1, <1>2, <2>1, <2>2, ControlStep DEF Grown
<1>3. CASE Copy
  <2>1. xzRet' # "STREAM_END"
    BY <1>3 DEF Copy, Stop
  <2>. QED  BY <1>3, <2>1, CopyStep
<1>4. CASE Literal \/ Match \/ RepMatch \/ ShortRep
  <2>1. xzRet' # "STREAM_END"
    BY <1>4 DEF Literal, Match, RepMatch, ShortRep, Repeat, Refuse, Stop, Symbols
  <2>. QED  BY <1>4, <2>1, LiteralStep, MatchSteps
<1>5. CASE Uncompressed \/ Compressed \/ Properties \/ Prepare
  <2>1. out' = out /\ xzRet' # "STREAM_END"
    BY <1>5 DEF Uncompressed, Compressed, TwoBytes, Properties, Prepare, RunsOut, Refuse, Stop, In
  <2>2. Decoder'
    BY <1>5, UncompressedStep, CompressedStep, PropertiesStep, PrepareStep
  <2>. QED  BY <1>1, <2>1, <2>2 DEF Grown
<1>6. CASE Run \/ Place \/ CopiedEnd \/ InPlaceEnd \/ Flush
  <2>1. out' = out /\ xzRet' # "STREAM_END"
    BY <1>6 DEF Run, Place, CopiedEnd, InPlaceEnd, Flush, Refuse, Stop, In
  <2>2. Decoder'
    BY <1>6, RunStep, PlaceStep, CopiedEndStep, InPlaceEndStep, FlushStep
  <2>. QED  BY <1>1, <2>1, <2>2 DEF Grown
<1>. QED  BY <1>2, <1>3, <1>4, <1>5, <1>6 DEF Lzma2Run
-----------------------------------------------------------------------------
(* The stream around the blocks. *)
LEMMA RestIs ==
  ASSUME Inv
  PROVE  /\ Decoder /\ Phase /\ Fields /\ Typed
         /\ Len(src) \in Nat /\ inPos \in Nat /\ outPos \in Nat /\ Len(out) \in Nat
         /\ src \in Seq(Byte) /\ out \in Seq(Byte)
         /\ inPos <= Len(src) /\ outPos <= Len(out) /\ Len(out) <= dstSize
<1>1. Decoder /\ Phase /\ Fields /\ Typed /\ Bounds
  BY DEF Inv, Stream, Decoder
<1>2. src \in Seq(Byte) /\ out \in Seq(Byte)
  BY <1>1 DEF Typed, BufferTyped
<1>. QED  BY <1>1, <1>2, Numbers DEF Bounds

(* The decoder does nothing. *)
LEMMA SameDecoder ==
  ASSUME Decoder, UNCHANGED <<src, dstSize, inPos, out, outPos, chunk, dict, lzma, rc, xzRet>>
  PROVE  Decoder'
<1>1. Typed'
  BY DEF Decoder, Typed, BufferTyped, RcTyped, LzmaTyped, DictTyped
<1>2. Bounds' /\ Room'
  BY DEF Decoder, Bounds, Room
<1>3. CopyKept' /\ Window'
  BY DEF Decoder, CopyKept, Window, Running, InAvail, AllLeft, LimitInPlace
<1>4. ChunkReady' /\ RepThere'
  BY DEF Decoder, ChunkReady, RepThere, ToProperties, MatchByteThere, DictFull, DictPos
<1>. QED  BY <1>1, <1>2, <1>3, <1>4 DEF Decoder

LEMMA ReturnStep ==
  ASSUME Inv, NEW error \in Errors, Return(error) PROVE Inv'
<1>1. UNCHANGED <<src, dstSize, inPos, out, outPos, chunk, dict, lzma, rc, xzRet, checkType,
                  header, block, filter, index, outSize>>
      /\ pc' = "returned" /\ ret' = error
  BY DEF Return, lzma2Vars, streamVars
<1>2. Decoder'
  BY <1>1, RestIs, SameDecoder
<1>3. Phase'
  BY <1>1, RestIs DEF Phase, Around, Errors
<1>4. Fields'
  BY <1>1, RestIs DEF Fields
<1>. QED  BY <1>2, <1>3, <1>4 DEF Inv, Stream

(* The bytes read are there. *)
LEMMA ForwardStep ==
  ASSUME Inv, pc \in Around, NEW n \in Nat, n <= InAvail, inPos' = inPos + n,
         UNCHANGED <<src, dstSize, out, outPos, chunk, dict, lzma, rc, xzRet>>
  PROVE  Decoder'
<1>1. Len(src) \in Nat /\ inPos \in Nat /\ inPos <= Len(src) /\ InAvail = Len(src) - inPos
  BY RestIs DEF InAvail
<1>2. inPos' \in Nat /\ inPos <= inPos' /\ inPos' <= Len(src)
  BY <1>1
<1>3. chunk.seq = "CONTROL" /\ Decoder
  BY RestIs DEF Phase
<1>4. Typed'
  BY <1>2, <1>3 DEF Decoder, Typed, BufferTyped, RcTyped, LzmaTyped, DictTyped
<1>5. Bounds' /\ Room'
  BY <1>2, <1>3 DEF Decoder, Bounds, Room
<1>6. CopyKept' /\ Window'
  <2>1. rc.temp \in Nat /\ rc.temp <= inPos
    BY <1>3, Numbers DEF Decoder, CopyKept
  <2>2. rc.temp <= inPos'
    BY <1>1, <1>2, <2>1
  <2>. QED  BY <1>3, <2>2 DEF Decoder, CopyKept, Window, Running
<1>7. ChunkReady' /\ RepThere'
  BY <1>3 DEF Decoder, ChunkReady, RepThere, ToProperties, MatchByteThere, DictFull, DictPos
<1>. QED  BY <1>4, <1>5, <1>6, <1>7 DEF Decoder

(* From one phase around the blocks to another. *)
LEMMA PhaseStep ==
  ASSUME Inv, pc \in Around, pc' \in Around, NEW n \in Nat, n <= InAvail, inPos' = inPos + n,
         UNCHANGED <<src, dstSize, out, outPos, chunk, dict, lzma, rc, xzRet, ret, outSize,
                     block, filter>>,
         header' = [size |-> header'.size, compressed |-> header'.compressed,
                    uncompressed |-> header'.uncompressed],
         header'.size \in Nat, pc' = "blockHeader" => header'.size > 0,
         index' = [start |-> index'.start, left |-> index'.left], index'.start \in Nat,
         checkType' \in Nat
  PROVE  Inv'
<1>1. Decoder'
  BY ForwardStep
<1>2. Phase'
  BY RestIs DEF Phase, Around
<1>3. Fields'
  BY RestIs DEF Fields
<1>. QED  BY <1>1, <1>2, <1>3 DEF Inv, Stream

LEMMA VliIs ==
  ASSUME NEW i \in Nat, NEW end \in Nat, VliRight(i, end)
  PROVE  VliEnd(i, end) \in Nat /\ i <= VliEnd(i, end) /\ VliEnd(i, end) <= end
<1>. DEFINE n == CHOOSE m \in VliLen(i, end) : TRUE
<1>1. \E m \in VliLen(i, end) : TRUE
  BY DEF VliRight
<1>2. n \in VliLen(i, end)
  BY <1>1, Zenon
<1>3. VliEnd(i, end) = i + n
  BY DEF VliEnd
<1>. HIDE DEF n
<1>4. n \in Nat /\ i + n <= end
  BY <1>2 DEF VliLen
<1>. QED  BY <1>3, <1>4

LEMMA MultipleOfFour == \A k \in Int : (4 - (k % 4)) % 4 \in Nat
OBVIOUS

(* Every phase around the blocks. *)
LEMMA AroundStep ==
  ASSUME Inv, StreamHeader \/ BlockStart \/ BlockPadding \/ BlockCheck \/ IndexCount \/ IndexRecord
              \/ IndexPadding \/ IndexCrc
  PROVE  Inv'
<1>1. "INVALID" \in Errors
  BY DEF Errors
<1>2. ASSUME Return("INVALID") PROVE Inv'
  BY <1>1, <1>2, ReturnStep
<1>3. /\ Len(src) \in Nat /\ inPos \in Nat /\ inPos <= Len(src) /\ InAvail = Len(src) - inPos
      /\ Typed /\ Fields
  BY RestIs DEF InAvail
<1>4. ASSUME NEW phase \in Around, NEW right, NEW n \in Nat, n <= InAvail,
             NEW next \in Around \ {"blockHeader"}, Forward(phase, right, n, next),
             UNCHANGED <<header, block, filter>>,
             checkType' \in Nat,
             index' = [start |-> index'.start, left |-> index'.left], index'.start \in Nat
      PROVE  Inv'
  <2>1. /\ pc \in Around /\ pc' \in Around /\ pc' # "blockHeader" /\ inPos' = inPos + n
        /\ UNCHANGED <<src, dstSize, out, outPos, chunk, dict, lzma, rc, xzRet, ret, outSize>>
    BY <1>4 DEF Forward
  <2>2. /\ header' = [size |-> header'.size, compressed |-> header'.compressed,
                      uncompressed |-> header'.uncompressed]
        /\ header'.size \in Nat
    BY <1>3, <1>4 DEF Fields
  <2>. QED  BY <1>4, <2>1, <2>2, PhaseStep
<1>5. index.start \in Nat /\ index = [start |-> index.start, left |-> index.left]
      /\ checkType \in Nat /\ block.in \in Nat
  BY <1>3 DEF Fields
<1>6. CASE StreamHeader
  <2>1. CASE Invalid("header", HeaderRight)
    BY <1>2, <2>1 DEF Invalid
  <2>2. CASE /\ Forward("header", HeaderRight, 12, "blockStart")
             /\ checkType' = At(inPos + 7)
             /\ UNCHANGED <<header, block, filter, index>>
    <3>1. 12 <= InAvail
      BY <2>2 DEF Forward, HeaderRight
    <3>2. checkType' \in Nat
      BY <1>3, <2>2, AtByte
    <3>. QED  BY <1>4, <1>5, <2>2, <3>1, <3>2 DEF Around
  <2>. QED  BY <1>6, <2>1, <2>2 DEF StreamHeader
<1>7. CASE BlockStart
  <2>1. CASE Invalid("blockStart", InAvail > 0)
    BY <1>2, <2>1 DEF Invalid
  <2>2. CASE /\ Forward("blockStart", InAvail > 0 /\ At(inPos) = 0, 1, "index")
             /\ index' = [index EXCEPT !.start = inPos]
             /\ UNCHANGED <<checkType, header, block, filter>>
    <3>1. 1 <= InAvail
      BY <1>3, <2>2 DEF Forward
    <3>2. index' = [start |-> inPos, left |-> index.left]
      BY <1>5, <2>2
    <3>. QED  BY <1>3, <1>4, <1>5, <2>2, <3>1, <3>2 DEF Around
  <2>3. CASE /\ Forward("blockStart", InAvail > 0 /\ At(inPos) # 0, 0, "blockHeader")
             /\ header' = [header EXCEPT !.size = 4 * (At(inPos) + 1)]
             /\ UNCHANGED <<checkType, block, filter, index>>
    <3>1. At(inPos) \in Nat
      BY <1>3, AtByte
    <3>2. /\ header' = [size |-> 4 * (At(inPos) + 1), compressed |-> header.compressed,
                        uncompressed |-> header.uncompressed]
          /\ 4 * (At(inPos) + 1) \in Nat /\ 4 * (At(inPos) + 1) > 0
      BY SMTT(30), <1>3, <2>3, <3>1 DEF Fields
    <3>3. /\ pc \in Around /\ pc' \in Around /\ inPos' = inPos + 0 /\ 0 <= InAvail
          /\ UNCHANGED <<src, dstSize, out, outPos, chunk, dict, lzma, rc, xzRet, ret, outSize>>
      BY <1>3, <2>3 DEF Forward, Around
    <3>. QED  BY <1>5, <2>3, <3>2, <3>3, PhaseStep
  <2>. QED  BY <1>7, <2>1, <2>2, <2>3 DEF BlockStart
<1>8. CASE BlockPadding
  <2>1. CASE Invalid("padding", PaddingRight)
    BY <1>2, <2>1 DEF Invalid
  <2>2. CASE Forward("padding", PaddingRight, Padding, "check") /\ UNCHANGED streamVars
    <3>1. Padding \in Nat
      <4>1. SizeIn \in Int
        BY <1>3, <1>5 DEF SizeIn
      <4>. QED  BY <4>1, MultipleOfFour DEF Padding
    <3>2. Padding <= InAvail
      BY <1>3, <2>2, <3>1 DEF Forward, PaddingRight
    <3>. HIDE DEF Padding
    <3>. QED  BY <1>4, <1>5, <2>2, <3>1, <3>2 DEF Around, streamVars
  <2>. QED  BY <1>8, <2>1, <2>2 DEF BlockPadding
<1>9. CASE BlockCheck
  <2>1. CASE Invalid("check", CheckRight)
    BY <1>2, <2>1 DEF Invalid
  <2>. DEFINE n == IF checkType = 1 THEN 4 ELSE 0
  <2>2. CASE Forward("check", CheckRight, n, "blockStart") /\ UNCHANGED streamVars
    <3>1. n \in Nat /\ n <= InAvail
      BY <1>3, <2>2 DEF Forward, CheckRight
    <3>. HIDE DEF n
    <3>. QED  BY <1>4, <1>5, <2>2, <3>1 DEF Around, streamVars
  <2>. QED  BY <1>9, <2>1, <2>2 DEF BlockCheck
<1>10. CASE IndexCount
  <2>1. CASE Invalid("index", CountRight)
    BY <1>2, <2>1 DEF Invalid
  <2>. DEFINE n == VliEnd(inPos, Len(src)) - inPos
              next == AfterRecord(Len(blocks))
  <2>2. CASE /\ Forward("index", CountRight, n, next)
             /\ index' = [index EXCEPT !.left = Len(blocks)]
             /\ UNCHANGED <<checkType, header, block, filter>>
    <3>1. VliRight(inPos, Len(src))
      BY <2>2 DEF Forward, CountRight
    <3>2. n \in Nat /\ n <= InAvail
      BY <1>3, <3>1, VliIs
    <3>3. next \in Around \ {"blockHeader"}
      BY DEF AfterRecord, Around
    <3>4. index' = [start |-> index.start, left |-> Len(blocks)]
      BY <1>5, <2>2
    <3>. HIDE DEF n, next
    <3>. QED  BY <1>4, <1>5, <2>2, <3>2, <3>3, <3>4 DEF Around
  <2>. QED  BY <1>10, <2>1, <2>2 DEF IndexCount
<1>11. CASE IndexRecord
  <2>. DEFINE second == VliEnd(inPos, Len(src))
              n == VliEnd(second, Len(src)) - inPos
              next == AfterRecord(index.left - 1)
  <2>1. CASE Invalid("record", RecordRight)
    BY <1>2, <2>1 DEF Invalid
  <2>2. CASE /\ Forward("record", RecordRight, n, next)
             /\ index' = [index EXCEPT !.left = @ - 1]
             /\ UNCHANGED <<checkType, header, block, filter>>
    <3>1. VliRight(inPos, Len(src)) /\ VliRight(second, Len(src))
      BY <2>2 DEF Forward, RecordRight
    <3>2. second \in Nat /\ inPos <= second
      BY <1>3, <3>1, VliIs
    <3>3. n \in Nat /\ n <= InAvail
      <4>. HIDE DEF second
      <4>1. /\ VliEnd(second, Len(src)) \in Nat /\ second <= VliEnd(second, Len(src))
            /\ VliEnd(second, Len(src)) <= Len(src)
        BY <1>3, <3>1, <3>2, VliIs
      <4>. QED  BY <1>3, <3>2, <4>1
    <3>4. next \in Around \ {"blockHeader"}
      BY DEF AfterRecord, Around
    <3>5. index' = [start |-> index.start, left |-> index.left - 1]
      BY <1>5, <2>2
    <3>. HIDE DEF n, next
    <3>. QED  BY <1>4, <1>5, <2>2, <3>3, <3>4, <3>5 DEF Around
  <2>. QED  BY <1>11, <2>1, <2>2 DEF IndexRecord
<1>12. CASE IndexPadding
  <2>1. CASE Invalid("indexPadding", IndexRight)
    BY <1>2, <2>1 DEF Invalid
  <2>2. CASE Forward("indexPadding", IndexRight, IndexRest, "indexCrc") /\ UNCHANGED streamVars
    <3>1. IndexRest \in Nat
      <4>1. inPos - index.start \in Int
        BY <1>3, <1>5
      <4>. QED  BY <4>1, MultipleOfFour DEF IndexRest
    <3>2. IndexRest <= InAvail
      BY <1>3, <2>2, <3>1 DEF Forward, IndexRight
    <3>. HIDE DEF IndexRest
    <3>. QED  BY <1>4, <1>5, <2>2, <3>1, <3>2 DEF Around, streamVars
  <2>. QED  BY <1>12, <2>1, <2>2 DEF IndexPadding
<1>13. CASE IndexCrc
  <2>1. CASE Invalid("indexCrc", IndexCrcRight)
    BY <1>2, <2>1 DEF Invalid
  <2>2. CASE Forward("indexCrc", IndexCrcRight, 4, "footer") /\ UNCHANGED streamVars
    <3>1. 4 <= InAvail
      BY <1>3, <2>2 DEF Forward, IndexCrcRight
    <3>. QED  BY <1>4, <1>5, <2>2, <3>1 DEF Around, streamVars
  <2>. QED  BY <1>13, <2>1, <2>2 DEF IndexCrc
<1>. QED  BY <1>6, <1>7, <1>8, <1>9, <1>10, <1>11, <1>12, <1>13

(* A block begins with a dictionary that is to be reset. *)
LEMMA BlockHeaderStep == ASSUME Inv, BlockHeader PROVE Inv'
<1>1. CASE Invalid("blockHeader", BlockHeaderRight)
  <2>1. "INVALID" \in Errors
    BY DEF Errors
  <2>. QED  BY <1>1, <2>1, ReturnStep DEF Invalid
<1>. DEFINE id == IF Flag(0) THEN At(FiltersAt) ELSE 0
            props == At(Lzma2At + 2)
            given == SizeGiven(6, AfterFlags)
            whole == SizeGiven(7, CompressedEnd)
<1>2. CASE /\ pc = "blockHeader" /\ BlockHeaderRight
           /\ header' = [header EXCEPT !.compressed = given, !.uncompressed = whole]
           /\ filter' = id
           /\ Lzma2Reset(props)
           /\ xzRet' = "RUNNING"
           /\ inPos' = inPos + header.size
           /\ block' = [in |-> inPos + header.size, out |-> outPos]
           /\ pc' = "uncompress"
           /\ UNCHANGED <<src, dstSize, out, outPos, lzma, checkType, index, ret, outSize>>
  <2>1. id \in Filters \cup {0}
    BY <1>2 DEF BlockHeaderRight, FilterRight
  <2>. HIDE DEF id, given, whole, props
  <2>2. /\ Decoder /\ Phase /\ Fields /\ Typed /\ Bounds /\ chunk.seq = "CONTROL"
        /\ xzRet \in {"RUNNING", "STREAM_END"}
        /\ Len(src) \in Nat /\ inPos \in Nat /\ inPos <= Len(src) /\ outPos \in Nat
        /\ Len(out) \in Nat /\ out \in Seq(Byte)
    BY <1>2, RestIs DEF Phase, Around, Decoder
  <2>3. header.size \in Nat /\ header.size <= Len(src) - inPos
    BY <1>2, <2>2 DEF Fields, BlockHeaderRight, InAvail
  <2>4. inPos' \in Nat /\ inPos' <= Len(src)
    BY <1>2, <2>2, <2>3
  <2>5. /\ chunk' \in Chunks /\ chunk'.seq = "CONTROL" /\ chunk'.needDictReset
        /\ RcTyped' /\ rc'.temp = 0 /\ DictTyped' /\ dict'.base = dict.base
        /\ LzmaTyped' /\ lzma'.len = 0
    <3>1. chunk \in Chunks /\ RcTyped /\ DictTyped /\ LzmaTyped
      BY <2>2 DEF Typed, BufferTyped
    <3>2. chunk' = [chunk EXCEPT !.seq = "CONTROL", !.needDictReset = TRUE]
      BY <1>2 DEF Lzma2Reset
    <3>3. chunk' \in Chunks /\ chunk'.seq = "CONTROL" /\ chunk'.needDictReset
      BY <3>1, <3>2 DEF Chunks
    <3>4. rc' = [rc EXCEPT !.temp = 0]
      BY <1>2 DEF Lzma2Reset
    <3>5. RcTyped' /\ rc'.temp = 0
      BY <3>1, <3>4 DEF RcTyped
    <3>6. dict' = [dict EXCEPT !.size = DictSize(props)]
      BY <1>2 DEF Lzma2Reset
    <3>. DEFINE size == DictSize(props)
    <3>7. dict' = [dict EXCEPT !.size = size]
      BY <3>6
    <3>. HIDE DEF size
    <3>8. dict' = [base |-> dict.base, limit |-> dict.limit, size |-> size]
      BY <3>1, <3>7 DEF DictTyped
    <3>9. DictTyped' /\ dict'.base = dict.base
      BY <3>1, <3>8 DEF DictTyped
    <3>10. LzmaTyped' /\ lzma'.len = 0
      BY <1>2, <2>2, <3>1 DEF LzmaTyped, Decoder, Room, Busy
    <3>. QED  BY <3>3, <3>5, <3>9, <3>10
  <2>6. Typed' /\ Bounds' /\ Room' /\ CopyKept' /\ Window'
    <3>1. outPos' = Len(out') /\ Len(out') <= dstSize /\ dict'.base <= outPos'
      BY <1>2, <2>2, <2>5 DEF Bounds, Busy
    <3>2. chunk'.seq \notin Busy
      BY <2>5 DEF Busy
    <3>3. out' \in Seq(Byte)
      BY <1>2, <2>2
    <3>. QED  BY <1>2, <2>2, <2>4, <2>5, <3>1, <3>2, <3>3, QuietStep
  <2>7. ChunkReady' /\ RepThere'
    BY <2>5 DEF ChunkReady, RepThere
  <2>8. Phase'
    BY <1>2, <2>2, <2>5 DEF Phase, Around
  <2>9. Fields'
    <3>1. header' = [size |-> header.size, compressed |-> given, uncompressed |-> whole]
      BY <1>2, <2>2 DEF Fields
    <3>2. block'.in \in Nat /\ block'.out \in Nat /\ block'.out <= Len(out')
      BY <1>2, <2>2, <2>3 DEF Bounds
    <3>. QED  BY <1>2, <2>1, <2>2, <3>1, <3>2 DEF Fields
  <2>. QED  BY <2>6, <2>7, <2>8, <2>9 DEF Inv, Stream, Decoder
<1>. QED  BY <1>1, <1>2 DEF BlockHeader

LEMMA UncompressStep == ASSUME Inv, Uncompress PROVE Inv' /\ Grown
<1>1. /\ Lzma2Run /\ pc = "uncompress"
      /\ UNCHANGED <<src, dstSize, pc, checkType, header, block, filter, index, ret, outSize>>
  BY DEF Uncompress, streamVars
<1>2. Decoder' /\ Grown /\ (xzRet' = "STREAM_END" => chunk'.seq = "CONTROL")
  BY <1>1, RestIs, DecoderStep
<1>3. Phase'
  BY <1>1, <1>2, RestIs DEF Phase, Around
<1>4. Fields'
  <2>1. filter # 0 => block.out <= Len(out')
    <3>1. Len(out) \in Nat /\ Fields /\ Len(out') \in Nat
      <4>1. Typed'
        BY <1>2 DEF Decoder
      <4>. QED  BY <4>1, RestIs, LenProperties DEF Typed, BufferTyped
    <3>. QED  BY <1>2, <3>1 DEF Fields, Grown
  <2>. QED  BY <1>1, <2>1, RestIs DEF Fields
<1>. QED  BY <1>2, <1>3, <1>4 DEF Inv, Stream

LEMMA FirstOf ==
  ASSUME NEW s \in Seq(Byte), NEW k \in Nat, k <= Len(s)
  PROVE  /\ SubSeq(s, 1, k) \in Seq(Byte) /\ Len(SubSeq(s, 1, k)) = k
         /\ \A i \in 1 .. k : SubSeq(s, 1, k)[i] = s[i]
<1>. DEFINE first == SubSeq(s, 1, k)
<1>1. \A i \in 1 .. k : s[i] \in Byte
  <2>1. \A i \in 1 .. k : i \in 1 .. Len(s)
    BY LenProperties
  <2>. QED  BY <2>1, ElementOfSeq, Zenon
<1>2. /\ first \in Seq(Byte)
      /\ Len(first) = IF 1 <= k THEN k - 1 + 1 ELSE 0
      /\ \A i \in 1 .. k - 1 + 1 : first[i] = s[1 + i - 1]
  BY <1>1, SubSeqProperties
<1>3. \A i \in 1 .. k : i \in 1 .. k - 1 + 1 /\ 1 + i - 1 = i
  OBVIOUS
<1>4. (IF 1 <= k THEN k - 1 + 1 ELSE 0) = k
  OBVIOUS
<1>. HIDE DEF first
<1>5. \A i \in 1 .. k : first[i] = s[i]
  BY <1>2, <1>3
<1>6. first \in Seq(Byte) /\ Len(first) = k
  BY <1>2, <1>4
<1>. QED  BY <1>5, <1>6 DEF first

(* The filter changes bytes of the block, and no others. *)
LEMMA WithFilterIs ==
  ASSUME Inv
  PROVE  /\ WithFilter \in Seq(Byte) /\ Len(WithFilter) = Len(out)
         /\ filter # 0 => /\ block.out <= Len(out)
                          /\ \A i \in 1 .. block.out : WithFilter[i] = out[i]
<1>1. out \in Seq(Byte) /\ Len(out) \in Nat /\ Fields
  BY RestIs
<1>2. CASE filter = 0
  BY <1>1, <1>2 DEF WithFilter
<1>3. CASE filter # 0
  <2>1. block.out \in Nat /\ block.out <= Len(out) /\ filter \in {BCJ_ARM, BCJ_ARMTHUMB, BCJ_ARM64}
    BY <1>1, <1>3, XzAssumption DEF Fields
  <2>. DEFINE k == block.out
              n == Len(out)
              first == SubSeq(out, 1, k)
              rest == SubSeq(out, k + 1, n)
              last == Filtered(filter, rest)
  <2>. HIDE DEF k, n
  <2>2. k \in Nat /\ n \in Nat /\ k <= n /\ n = Len(out)
    BY <1>1, <2>1 DEF k, n
  <2>3. \A i \in 1 .. n : out[i] \in Byte
    BY <1>1, <2>2, ElementOfSeq
  <2>4. /\ first \in Seq(Byte) /\ Len(first) = k /\ \A i \in 1 .. k : first[i] = out[i]
    BY <1>1, <2>2, FirstOf
  <2>5. rest \in Seq(Byte) /\ Len(rest) = n - k
    <3>1. \A i \in k + 1 .. n : out[i] \in Byte
      BY <2>2, <2>3
    <3>2. k + 1 \in Int /\ n \in Int /\ (IF k + 1 <= n THEN n - (k + 1) + 1 ELSE 0) = n - k
      BY <2>2
    <3>. QED  BY <3>1, <3>2, SubSeqProperties
  <2>6. last \in Seq(Byte) /\ Len(last) = n - k
    BY <2>1, <2>5, FilteredBytes
  <2>7. WithFilter = first \o last
    BY <1>3 DEF WithFilter, k, n
  <2>. HIDE DEF first, last
  <2>8. /\ first \o last \in Seq(Byte) /\ Len(first \o last) = k + (n - k)
        /\ \A i \in 1 .. k : (first \o last)[i] = first[i]
    BY <2>4, <2>6, Longer
  <2>9. k + (n - k) = n /\ k = block.out
    BY <2>2 DEF k
  <2>. QED  BY <2>2, <2>4, <2>7, <2>8, <2>9
<1>. QED  BY <1>2, <1>3

LEMMA BlockOverStep == ASSUME Inv, BlockOver PROVE Inv'
<1>1. CASE Return("NOSPACE") \/ Return("INVALID")
  <2>1. "NOSPACE" \in Errors /\ "INVALID" \in Errors
    BY DEF Errors
  <2>. QED  BY <1>1, <2>1, ReturnStep
<1>2. CASE /\ pc = "uncompress" /\ xzRet = "STREAM_END"
           /\ out' = WithFilter
           /\ filter' = 0
           /\ pc' = "padding"
           /\ UNCHANGED <<src, dstSize, inPos, outPos, chunk, dict, lzma, rc, xzRet,
                          checkType, header, block, index, ret, outSize>>
  <2>1. /\ Decoder /\ Phase /\ Fields /\ chunk.seq = "CONTROL" /\ Len(out) \in Nat
    BY <1>2, RestIs DEF Phase
  <2>2. out' \in Seq(Byte) /\ Len(out') = Len(out)
    BY <1>2, WithFilterIs
  <2>3. Decoder'
    <3>1. Typed'
      BY <1>2, <2>1, <2>2 DEF Decoder, Typed, BufferTyped, RcTyped, LzmaTyped, DictTyped
    <3>2. Bounds' /\ Room'
      BY <1>2, <2>1, <2>2 DEF Decoder, Bounds, Room, Busy
    <3>3. CopyKept' /\ Window'
      BY <1>2, <2>1 DEF Decoder, CopyKept, Window, Running
    <3>4. ChunkReady' /\ RepThere'
      BY <1>2, <2>1, <2>2 DEF Decoder, ChunkReady, RepThere, ToProperties, MatchByteThere,
                              DictFull, DictPos
    <3>. QED  BY <3>1, <3>2, <3>3, <3>4 DEF Decoder
  <2>4. Phase'
    BY <1>2, <2>1 DEF Phase, Around
  <2>5. Fields'
    BY <1>2, <2>1, <2>2 DEF Fields
  <2>. QED  BY <2>3, <2>4, <2>5 DEF Inv, Stream
<1>. QED  BY <1>1, <1>2 DEF BlockOver

LEMMA StreamFooterStep == ASSUME Inv, StreamFooter PROVE Inv'
<1>1. CASE Invalid("footer", FooterRight)
  <2>1. "INVALID" \in Errors
    BY DEF Errors
  <2>. QED  BY <1>1, <2>1, ReturnStep DEF Invalid
<1>2. CASE /\ pc = "footer" /\ FooterRight
           /\ outSize' = outPos /\ ret' = "OK" /\ pc' = "returned" /\ inPos' = inPos + 12
           /\ UNCHANGED <<src, dstSize, out, outPos, chunk, dict, lzma, rc, xzRet, streamVars>>
  <2>1. 12 <= InAvail /\ pc \in Around
    BY <1>2 DEF FooterRight, Around, InAvail
  <2>2. Decoder'
    BY <1>2, <2>1, ForwardStep
  <2>3. Phase'
    BY <1>2, RestIs DEF Phase, Around
  <2>4. Fields'
    BY <1>2, RestIs DEF Fields, streamVars
  <2>. QED  BY <2>2, <2>3, <2>4 DEF Inv, Stream
<1>. QED  BY <1>1, <1>2 DEF StreamFooter
-----------------------------------------------------------------------------
LEMMA InitInv == Init => Inv
<1>. SUFFICES ASSUME NEW s \in Inputs, NEW size \in DstSizes, InitWith(s, size) PROVE Inv
  BY DEF Init
<1>1. s \in Seq(Byte) /\ size \in Nat
  BY XzAssumption
<1>2. Len(s) \in Nat
  BY <1>1, LenProperties
<1>3. Typed
  <2>1. BufferTyped
    BY <1>1 DEF InitWith, BufferTyped, IdleChunk, Chunks
  <2>2. RcTyped
    BY DEF InitWith, RcTyped, IdleRc
  <2>3. LzmaTyped
    BY LzmaResets DEF InitWith, LzmaTyped, LzmaReset
  <2>4. DictTyped
    BY DEF InitWith, DictTyped
  <2>. QED  BY <2>1, <2>2, <2>3, <2>4 DEF Typed
<1>4. Bounds /\ Room
  BY <1>1, <1>2 DEF InitWith, Bounds, Room, Busy, IdleChunk, LzmaReset
<1>5. CopyKept /\ Window
  BY DEF InitWith, CopyKept, Window, IdleChunk, IdleRc
<1>6. ChunkReady /\ RepThere
  BY DEF InitWith, ChunkReady, RepThere, IdleChunk
<1>7. Stream
  BY DEF InitWith, Stream, Phase, Fields, Around, IdleChunk
<1>. QED  BY <1>3, <1>4, <1>5, <1>6, <1>7 DEF Inv, Decoder

LEMMA StepInv == ASSUME Inv, [Next]_vars PROVE Inv'
<1>1. CASE UNCHANGED vars
  <2>1. /\ UNCHANGED <<src, dstSize, inPos, out, outPos, chunk, dict, lzma, rc, xzRet>>
        /\ UNCHANGED <<pc, checkType, header, block, filter, index, ret, outSize>>
    BY <1>1 DEF vars, lzma2Vars, streamVars
  <2>2. Decoder'
    BY <2>1, RestIs, SameDecoder
  <2>3. Phase' /\ Fields'
    BY <2>1, RestIs DEF Phase, Fields
  <2>. QED  BY <2>2, <2>3 DEF Inv, Stream
<1>2. CASE Next
  <2>1. CASE Over
    BY <1>1, <2>1 DEF Over
  <2>. QED
    BY <1>2, <2>1, AroundStep, BlockHeaderStep, UncompressStep, BlockOverStep, StreamFooterStep
    DEF Next
<1>. QED  BY <1>1, <1>2

(* The decoder and the stream around it keep what makes the accesses below *)
(* right, whatever the payload holds.                                      *)
THEOREM Invariance == Spec => []Inv
BY InitInv, StepInv, PTL DEF Spec

LEMMA WindowIs ==
  ASSUME Decoder, Symbols PROVE WindowHolds
<1>1. Running /\ chunk.seq \in {"COPIED", "IN_PLACE"} /\ HasSpace /\ rc.pos <= rc.limit
  BY DEF Symbols, Decoding, Running
<1>2. /\ Typed /\ Window /\ CopyKept
      /\ rc.pos \in Nat /\ rc.temp \in Nat /\ rc.in \in Nat /\ chunk.compressed \in Nat
      /\ InRequired \in Nat /\ InRequired > 3 /\ Len(src) \in Nat /\ inPos \in Nat
      /\ inPos <= Len(src)
  BY Numbers DEF Decoder, Bounds
<1>3. CASE chunk.seq = "COPIED"
  <2>1. /\ AllLeft /\ rc.in = inPos - rc.temp /\ rc.limit = rc.temp
    BY <1>1, <1>2, <1>3 DEF CopyKept, Window
  <2>2. Held = chunk.compressed /\ Held < InRequired
    BY <1>2, <2>1, HeldIs DEF AllLeft
  <2>3. chunk.seq # "IN_PLACE" /\ rc.pos + InRequired - 1 < 3 * InRequired
    BY <1>1, <1>2, <1>3, <2>1 DEF AllLeft
  <2>. QED  BY <1>2, <2>2, <2>3 DEF WindowHolds, Readable, TooLittle
<1>4. CASE chunk.seq = "IN_PLACE"
  <2>1. rc.in = inPos /\ InAvail >= InRequired /\ rc.limit = LimitInPlace
    BY <1>1, <1>2, <1>4 DEF Window
  <2>2. InAvail = Len(src) - inPos
    BY DEF InAvail
  <2>3. rc.limit + InRequired <= InAvail
    BY <1>2, <2>1, <2>2 DEF LimitInPlace
  <2>4. rc.pos + InRequired - 1 < Len(src) - rc.in
    <3>1. rc.limit \in Nat
      BY Numbers, <1>2
    <3>. QED  BY <1>1, <1>2, <2>1, <2>2, <2>3, <3>1
  <2>. QED  BY <1>4, <2>4 DEF WindowHolds, Readable
<1>. QED  BY <1>1, <1>3, <1>4

(* The byte that is due at the end of lzma_main is there. *)
LEMMA TakenIs ==
  ASSUME Decoder PROVE TakenWasThere
<1>. SUFFICES ASSUME Running, chunk.seq \in {"COPIED", "IN_PLACE"}
              PROVE  Normalized.pos <= Readable
  BY DEF TakenWasThere, Running
<1>. DEFINE n == Normalized.pos
<1>1. /\ Window /\ CopyKept /\ n = rc.pos + rc.due /\ n \in Nat
      /\ rc.temp \in Nat /\ rc.limit \in Nat /\ chunk.compressed \in Nat
      /\ InRequired \in Nat /\ InRequired > 3 /\ Len(src) \in Nat /\ inPos \in Nat
  BY Numbers, CoderIs DEF Decoder
<1>. HIDE DEF n
<1>2. CASE chunk.seq = "COPIED"
  <2>1. AllLeft /\ rc.limit = rc.temp /\ n <= rc.limit + 4
    BY <1>1, <1>2 DEF CopyKept, Window
  <2>2. Held = chunk.compressed /\ chunk.seq # "IN_PLACE"
    BY <1>2, <2>1, HeldIs
  <2>3. n <= 3 * InRequired
    BY <1>1, <2>1 DEF AllLeft
  <2>. QED  BY <2>2, <2>3 DEF Readable, n
<1>3. CASE chunk.seq = "IN_PLACE"
  <2>1. rc.in = inPos /\ InAvail >= InRequired /\ rc.limit = LimitInPlace /\ n <= rc.limit + 4
    BY <1>1, <1>3 DEF Window
  <2>2. InAvail = Len(src) - inPos
    BY DEF InAvail
  <2>3. rc.limit + InRequired <= InAvail
    BY <1>1, <2>1, <2>2 DEF LimitInPlace
  <2>4. n <= Len(src) - rc.in
    BY <1>1, <2>1, <2>2, <2>3
  <2>. QED  BY <1>3, <2>4 DEF Readable, n
<1>. QED  BY <1>2, <1>3

(* Whatever the payload, nothing is read beyond it, also by the             *)
(* normalization at the end of lzma_main, written beyond the ceiling, or    *)
(* fetched from before the dictionary, and a match that is copied has a     *)
(* length: xz_dec_lzma2.c, for every InRequired above three.                *)
THEOREM StaysInside == Spec => []MemorySafe
<1>1. Inv => MemorySafe
  <2>. SUFFICES ASSUME Inv PROVE MemorySafe
    OBVIOUS
  <2>1. /\ Decoder /\ Phase /\ Fields /\ Typed /\ inPos <= Len(src)
        /\ outPos <= Len(out) /\ Len(out) <= dstSize
    BY RestIs
  <2>2. TypeOK
    <3>1. src \in Seq(Byte) /\ out \in Seq(Byte)
          /\ xzRet \in {"RUNNING", "OK", "STREAM_END", "DATA_ERROR"}
      BY <2>1 DEF Typed, BufferTyped
    <3>2. filter \in Nat
      BY <2>1, XzAssumption DEF Fields, BCJ_ARM, BCJ_ARMTHUMB, BCJ_ARM64
    <3>3. {dstSize, inPos, outPos, outSize, filter, checkType} \subseteq Nat
      BY <2>1, <3>2, Numbers DEF Fields
    <3>4. {chunk.uncompressed, chunk.compressed, rc.pos, rc.limit, rc.temp} \subseteq Nat
      BY <2>1, Numbers
    <3>5. /\ lzma.rep \in Seq(Nat) /\ Len(lzma.rep) = 4
          /\ lzma.state \in Nat /\ lzma.state <= 11 /\ lzma.len \in Nat /\ lzma.len <= 273
      BY <2>1 DEF Typed, LzmaTyped
    <3>6. lzma.state \in 0 .. 11 /\ lzma.len \in 0 .. 273
      <4>. DEFINE a == lzma.state
                  b == lzma.len
      <4>1. a \in Nat /\ a <= 11 /\ b \in Nat /\ b <= 273
        BY <3>5
      <4>. HIDE DEF a, b
      <4>2. a \in 0 .. 11 /\ b \in 0 .. 273
        BY <4>1
      <4>. QED  BY <4>2 DEF a, b
    <3>7. ret \in Errors \cup {"RUNNING", "OK"}
      BY <2>1 DEF Fields
    <3>. QED  BY <3>1, <3>3, <3>4, <3>5, <3>6, <3>7 DEF TypeOK
  <2>3. Symbols => WindowHolds /\ MatchByteThere /\ lzma.len = 0
    BY <2>1, WindowIs, SymbolIs
  <2>4. TakenWasThere
    BY <2>1, TakenIs
  <2>. QED  BY <2>1, <2>2, <2>3, <2>4 DEF MemorySafe
<1>. QED  BY <1>1, Invariance, PTL
-----------------------------------------------------------------------------
(* What the output has in the end is what it had, or more. *)
LEMMA SameFinal ==
  ASSUME Inv, Inv', filter # 0, UNCHANGED <<filter, block>>, Grown
  PROVE  Final' = Final
<1>. DEFINE k == block.out
<1>1. k \in Nat /\ k <= Len(out) /\ Len(out) \in Nat /\ out \in Seq(Byte)
  BY RestIs DEF Fields
<1>2. k <= Len(out') /\ out' \in Seq(Byte) /\ Len(out') \in Nat
  <2>1. out' \in Seq(Byte)
    BY DEF Inv, Decoder, Typed, BufferTyped
  <2>. QED  BY <1>1, <2>1, LenProperties DEF Grown
<1>3. Final = SubSeq(out, 1, k) /\ Final' = SubSeq(out', 1, k)
  BY DEF Final
<1>. HIDE DEF k
<1>. DEFINE before == SubSeq(out, 1, k)
            after == SubSeq(out', 1, k)
<1>4. before \in Seq(Byte) /\ Len(before) = k /\ \A i \in 1 .. k : before[i] = out[i]
  BY <1>1, FirstOf
<1>5. after \in Seq(Byte) /\ Len(after) = k /\ \A i \in 1 .. k : after[i] = out'[i]
  BY <1>1, <1>2, FirstOf
<1>. HIDE DEF before, after
<1>6. \A i \in 1 .. k : after[i] = before[i]
  <2>1. \A i \in 1 .. k : i \in 1 .. Len(out)
    BY <1>1
  <2>. QED  BY <1>4, <1>5, <2>1 DEF Grown
<1>7. after = before
  BY <1>4, <1>5, <1>6, SeqEqual
<1>. QED  BY <1>3, <1>7 DEF before, after

LEMMA FinalIs ==
  ASSUME Inv
  PROVE  /\ Final \in Seq(Byte) /\ Len(Final) \in Nat /\ Len(Final) <= Len(out)
         /\ filter = 0 => Final = out
         /\ filter # 0 => Len(Final) = block.out /\ \A i \in 1 .. block.out : Final[i] = out[i]
<1>1. out \in Seq(Byte) /\ Len(out) \in Nat /\ Fields
  BY RestIs
<1>2. CASE filter = 0
  BY <1>1, <1>2 DEF Final
<1>3. CASE filter # 0
  <2>1. block.out \in Nat /\ block.out <= Len(out)
    BY <1>1, <1>3 DEF Fields
  <2>2. Final = SubSeq(out, 1, block.out)
    BY <1>3 DEF Final
  <2>. QED  BY <1>1, <1>3, <2>1, <2>2, FirstOf
<1>. QED  BY <1>2, <1>3

(* More output. *)
LEMMA ProduceStep ==
  ASSUME Inv, Inv', ret = "RUNNING", UNCHANGED <<dstSize, ret, outSize>>,
         Len(Final') >= Len(Final), Len(Final') <= dstSize, Final' \in Seq(Byte),
         \A i \in 1 .. Len(Final) : Final'[i] = Final[i]
  PROVE  Promise!Next \/ UNCHANGED Promise!decoderVars
<1>1. Final \in Seq(Byte) /\ Len(Final) \in Nat /\ Len(Final') \in Nat
  BY FinalIs, LenProperties
<1>2. CASE Len(Final') > Len(Final)
  BY <1>2 DEF Promise!Next, Promise!Produce
<1>3. CASE Len(Final') = Len(Final)
  <2>1. \A i \in 1 .. Len(Final') : Final'[i] = Final[i]
    BY <1>3
  <2>2. Final' = Final
    BY <1>1, <1>3, <2>1, SeqEqual
  <2>. QED  BY <2>2 DEF Promise!decoderVars
<1>. QED  BY <1>1, <1>2, <1>3

LEMMA FailStep ==
  ASSUME Inv, pc # "returned", NEW error \in Errors, Return(error)
  PROVE  Promise!Next
<1>1. ret = "RUNNING"
  BY RestIs DEF Phase
<1>2. UNCHANGED <<dstSize, out, block, filter, outSize>> /\ ret' = error
  BY DEF Return, lzma2Vars, streamVars
<1>3. Final' = Final
  BY <1>2 DEF Final
<1>. QED  BY <1>1, <1>2, <1>3 DEF Promise!Next, Promise!Fail

(* The decoder keeps what kernel_payload_load() promises to its caller:      *)
(* kernel_decompress_xz(), whatever the payload holds and whichever filters  *)
(* its blocks go through.                                                    *)
THEOREM KeepsItsPromise == Spec => KeepsPromise
<1>1. Init => Promise!Init
  <2>. SUFFICES ASSUME NEW s \in Inputs, NEW size \in DstSizes, InitWith(s, size)
                PROVE  Promise!Init
    BY DEF Init
  <2>1. Final = <<>>
    BY DEF InitWith, Final
  <2>. QED  BY <2>1, XzAssumption DEF InitWith, Promise!Init
<1>2. Inv /\ Inv' /\ [Next]_vars => [Promise!Next]_(Promise!decoderVars)
  <2>. SUFFICES ASSUME Inv, Inv', [Next]_vars
                PROVE  Promise!Next \/ UNCHANGED Promise!decoderVars
    OBVIOUS
  <2>1. /\ Phase /\ Fields /\ out \in Seq(Byte) /\ Len(out) \in Nat /\ Len(out) <= dstSize
        /\ Final \in Seq(Byte) /\ Len(Final) \in Nat
        /\ "INVALID" \in Errors /\ "NOSPACE" \in Errors
    BY RestIs, FinalIs DEF Errors
  <2>2. ASSUME UNCHANGED <<dstSize, out, block, filter, ret, outSize>>
        PROVE  UNCHANGED Promise!decoderVars
    <3>1. Final' = Final
      BY <2>2 DEF Final
    <3>. QED  BY <2>2, <3>1 DEF Promise!decoderVars
  <2>4. CASE UNCHANGED vars
    BY <2>2, <2>4 DEF vars, lzma2Vars, streamVars
  <2>5. CASE Over
    BY <2>4, <2>5 DEF Over
  <2>6. CASE StreamHeader \/ BlockStart \/ BlockPadding \/ BlockCheck \/ IndexCount \/ IndexRecord
             \/ IndexPadding \/ IndexCrc
    <3>1. \/ pc # "returned" /\ Return("INVALID")
          \/ UNCHANGED <<dstSize, out, block, filter, ret, outSize>>
      BY <2>6 DEF StreamHeader, BlockStart, BlockPadding, BlockCheck, IndexCount, IndexRecord,
                  IndexPadding, IndexCrc, Invalid, Forward, streamVars
    <3>. QED  BY <2>1, <2>2, <3>1, FailStep
  <2>7. CASE BlockHeader
    <3>1. CASE Invalid("blockHeader", BlockHeaderRight)
      BY <2>1, <3>1, FailStep DEF Invalid
    <3>2. CASE /\ pc = "blockHeader"
               /\ block' = [in |-> inPos + header.size, out |-> outPos]
               /\ UNCHANGED <<dstSize, out, outPos, ret, outSize>>
      <4>1. filter = 0 /\ outPos = Len(out)
        <5>1. filter = 0 /\ chunk.seq = "CONTROL"
          BY <2>1, <3>2 DEF Phase, Around
        <5>. QED  BY <5>1 DEF Inv, Decoder, Bounds, Busy
      <4>2. Final = out
        BY <4>1, FinalIs
      <4>3. SubSeq(out, 1, Len(out)) = out
        <5>1. /\ SubSeq(out, 1, Len(out)) \in Seq(Byte) /\ Len(SubSeq(out, 1, Len(out))) = Len(out)
              /\ \A i \in 1 .. Len(out) : SubSeq(out, 1, Len(out))[i] = out[i]
          BY <2>1, FirstOf
        <5>. QED  BY <2>1, <5>1, SeqEqual
      <4>4. Final' = out
        BY <3>2, <4>1, <4>3 DEF Final
      <4>. QED  BY <3>2, <4>2, <4>4 DEF Promise!decoderVars
    <3>. QED  BY <2>7, <3>1, <3>2 DEF BlockHeader
  <2>8. CASE Uncompress
    <3>1. /\ Grown /\ pc # "returned"
          /\ UNCHANGED <<dstSize, block, filter, ret, outSize>>
      BY <2>8, UncompressStep DEF Uncompress, streamVars
    <3>2. CASE filter # 0
      BY <3>1, <3>2, SameFinal DEF Promise!decoderVars
    <3>3. CASE filter = 0
      <4>1. Final = out /\ Final' = out'
        BY <3>1, <3>3 DEF Final
      <4>2. out' \in Seq(Byte) /\ Len(out') <= dstSize
        BY <3>1 DEF Inv, Decoder, Typed, BufferTyped, Bounds
      <4>3. ret = "RUNNING"
        BY <2>1, <3>1 DEF Phase
      <4>. QED  BY <2>1, <3>1, <4>1, <4>2, <4>3, LenProperties, ProduceStep DEF Grown
    <3>. QED  BY <3>2, <3>3
  <2>9. CASE BlockOver
    <3>1. CASE pc = "uncompress" /\ (Return("NOSPACE") \/ Return("INVALID"))
      BY <2>1, <3>1, FailStep
    <3>2. CASE /\ pc = "uncompress" /\ out' = WithFilter /\ filter' = 0
               /\ UNCHANGED <<dstSize, ret, outSize>>
      <4>1. Final' = WithFilter
        BY <3>2 DEF Final
      <4>2. /\ WithFilter \in Seq(Byte) /\ Len(WithFilter) = Len(out)
            /\ Len(Final) <= Len(out)
            /\ \A i \in 1 .. Len(Final) : WithFilter[i] = Final[i]
        <5>1. CASE filter = 0
          BY <2>1, <5>1, WithFilterIs, FinalIs DEF WithFilter
        <5>2. CASE filter # 0
          BY <5>2, WithFilterIs, FinalIs
        <5>. QED  BY <5>1, <5>2
      <4>3. ret = "RUNNING"
        BY <2>1, <3>2 DEF Phase
      <4>4. /\ Len(Final') >= Len(Final) /\ Len(Final') <= dstSize /\ Final' \in Seq(Byte)
            /\ \A i \in 1 .. Len(Final) : Final'[i] = Final[i]
        BY <2>1, <4>1, <4>2
      <4>. QED  BY <3>2, <4>3, <4>4, ProduceStep
    <3>. QED  BY <2>9, <3>1, <3>2 DEF BlockOver
  <2>10. CASE StreamFooter
    <3>1. CASE Invalid("footer", FooterRight)
      BY <2>1, <3>1, FailStep DEF Invalid
    <3>2. CASE /\ pc = "footer" /\ outSize' = outPos /\ ret' = "OK"
               /\ UNCHANGED <<dstSize, out, block, filter>>
      <4>1. filter = 0 /\ outPos = Len(out) /\ ret = "RUNNING"
        <5>1. filter = 0 /\ chunk.seq = "CONTROL" /\ ret = "RUNNING"
          BY <2>1, <3>2 DEF Phase, Around
        <5>. QED  BY <5>1 DEF Inv, Decoder, Bounds, Busy
      <4>2. Final = out /\ Final' = Final
        BY <3>2, <4>1 DEF Final
      <4>. QED  BY <3>2, <4>1, <4>2 DEF Promise!Next, Promise!Succeed
    <3>. QED  BY <2>10, <3>1, <3>2 DEF StreamFooter, streamVars
  <2>. QED  BY <2>4, <2>5, <2>6, <2>7, <2>8, <2>9, <2>10 DEF Next
<1>. QED  BY <1>1, <1>2, Invariance, PTL DEF Spec, KeepsPromise, Promise!Spec

=============================================================================
