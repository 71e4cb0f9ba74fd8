--------------------------------- MODULE Bcj ---------------------------------
(***************************************************************************)
(* The branch filters of xz_dec_bcj.c.  A compressor that knows the        *)
(* machine writes the targets of branches as absolute addresses, which     *)
(* repeat; these operators make them relative to the instruction again.    *)
(* kernel_decompress_xz() filters a block when all of it has been decoded, *)
(* so each is a function of the block's bytes alone.                       *)
(***************************************************************************)
EXTENDS Integers, Sequences

BCJ_ARM == 7
BCJ_ARMTHUMB == 8
BCJ_ARM64 == 10

(* The value of the three bytes at offset i. *)
Le(b, i) == b[i + 1] + 256 * b[i + 2] + 65536 * b[i + 3]

(* The same the other way; a value that is negative wraps around. *)
ToLe(value, n) == [k \in 1 .. n |-> (value \div 256 ^ (k - 1)) % 256]

(* The instructions of four bytes, each at a multiple of four; what is left *)
(* over at the end is not one.                                              *)
WordsIn(b) == {4 * w : w \in 0 .. (Len(b) \div 4) - 1}

EachWord(b, converted) ==
  [j \in 1 .. Len(b) |->
     LET i == 4 * ((j - 1) \div 4)
     IN IF i \in DOMAIN converted THEN converted[i][j - i] ELSE b[j]]

Unchanged(b, i) == SubSeq(b, i + 1, i + 4)

(* bcj_arm: BL, with a target counted in words from two instructions on. *)
ArmWord(b, i) ==
  IF b[i + 4] = 235
  THEN ToLe((4 * Le(b, i) - (i + 8)) \div 4, 3) \o <<235>>
  ELSE Unchanged(b, i)

(* bcj_arm64: BL, whose target has 26 bits, and ADRP, whose target is a page *)
(* in 21 bits: the lowest two in the last byte, the others in the first      *)
(* three.  Only pages near enough were made absolute.                        *)
Arm64Bl(b, i) ==
  LET addr == (Le(b, i) + (b[i + 4] % 4) * 2 ^ 24 - (i \div 4)) % 2 ^ 26
  IN ToLe(addr, 3) \o <<148 + (addr \div 2 ^ 24)>>

AdrpPage(b, i) == ((b[i + 4] \div 32) % 4) + 4 * (Le(b, i) \div 32)

AdrpFar(b, i) == ((AdrpPage(b, i) + 131072) \div 262144) % 8 # 0

Arm64Adrp(b, i) ==
  LET page == (AdrpPage(b, i) - (i \div 4096)) % 262144
      high == (page \div 4) + IF page >= 131072 THEN 7 * 65536 ELSE 0
  IN ToLe((b[i + 1] % 32) + 32 * high, 3) \o <<144 + 32 * (page % 4)>>

Arm64Word(b, i) ==
  CASE b[i + 4] \div 4 = 37 -> Arm64Bl(b, i)
    [] b[i + 4] \div 4 # 37 /\ b[i + 4] % 32 = 16 /\ b[i + 4] >= 128
         /\ ~AdrpFar(b, i) -> Arm64Adrp(b, i)
    [] OTHER -> Unchanged(b, i)

(* bcj_armthumb: BL in two halves of eleven bits each, at any multiple of    *)
(* two; a pair that was converted is passed over as a whole.                 *)
IsPair(b, i) == b[i + 2] \div 8 = 30 /\ b[i + 4] \div 8 = 31

PairsAt(b) ==
  LET at[i \in -4 .. Len(b)] ==
        /\ i >= 0 /\ i + 4 <= Len(b) /\ i % 2 = 0
        /\ \/ i = 0
           \/ at[i - 2] /\ ~IsPair(b, i - 2)
           \/ at[i - 4] /\ IsPair(b, i - 4)
  IN {i \in 0 .. Len(b) - 4 : at[i] /\ IsPair(b, i)}

ThumbPair(b, i) ==
  LET target == (b[i + 2] % 8) * 2 ^ 19 + b[i + 1] * 2 ^ 11
                  + (b[i + 4] % 8) * 256 + b[i + 3]
      addr == (2 * target - (i + 4)) \div 2
  IN <<(addr \div 2 ^ 11) % 256, 240 + ((addr \div 2 ^ 19) % 8),
       addr % 256, 248 + ((addr \div 256) % 8)>>

ArmThumb(b) ==
  LET pairs == PairsAt(b)
  IN [j \in 1 .. Len(b) |->
        IF \E i \in pairs : j - i \in 1 .. 4
        THEN LET i == CHOOSE i \in pairs : j - i \in 1 .. 4
             IN ThumbPair(b, i)[j - i]
        ELSE b[j]]

(* bcj_apply *)
Filtered(id, b) ==
  CASE id = BCJ_ARM -> EachWord(b, [i \in WordsIn(b) |-> ArmWord(b, i)])
    [] id = BCJ_ARM64 -> EachWord(b, [i \in WordsIn(b) |-> Arm64Word(b, i)])
    [] id = BCJ_ARMTHUMB -> ArmThumb(b)
=============================================================================
