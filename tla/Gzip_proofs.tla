----------------------------- MODULE Gzip_proofs -----------------------------
(***************************************************************************)
(* Theorems about Gzip, for every payload, every size of the destination   *)
(* and every byte: kernel_decompress_gzip and the tinf beneath it touch no *)
(* byte outside the payload, the destination and their tables, and keep    *)
(* what kernel_payload_load relies on.                                     *)
(*                                                                         *)
(* A walk through a tree ends in its table because the tree's counts sum   *)
(* up: a tree is only built when the codes of all lengths fit (available   *)
(* never negative) and fill the space (or there is one code, and then a    *)
(* second of length 1 is put beside it), so what is left over after every  *)
(* length is exhausted at the last. The invariant carries this from where  *)
(* a tree is built to where it is walked.                                  *)
(*                                                                         *)
(* And about FdtRw, for every tree, buffer and list of properties: what    *)
(* libfdt moves and writes stays in fdt_buf, and a buffer larger than the  *)
(* tree by the properties and their names is never too small. Both parts   *)
(* are about loops that the models have as recursive functions, and rest   *)
(* on the same lemmas about them, which come first.                        *)
(***************************************************************************)
EXTENDS Gzip, FdtRw, TLAPS, SequenceTheorems, FiniteSetTheorems, WellFoundedInduction

(* A set of natural numbers that is not empty has a least one. *)
LEMMA LeastNumber ==
  ASSUME NEW S, S \subseteq Nat, S # {}
  PROVE  \E m \in S : \A y \in S : m <= y
<1>1. PICK m \in S : \A y \in S : ~ (<<y, m>> \in OpToRel(<, Nat))
  BY NatLessThanWellFounded, WFMin
<1>2. ASSUME NEW y \in S PROVE m <= y
  <2>1. m \in Nat /\ y \in Nat
    OBVIOUS
  <2>2. ~ (y < m)
    BY <1>1, <2>1 DEF OpToRel
  <2>. QED  BY <2>1, <2>2
<1>. QED  BY <1>2

(* Induction from 0 to n, over a set. *)
LEMMA UpTo ==
  ASSUME NEW n \in Nat, NEW S, 0 \in S, \A i \in 1 .. n : i - 1 \in S => i \in S
  PROVE  \A i \in 0 .. n : i \in S
<1>. SUFFICES ASSUME NEW j \in 0 .. n, j \notin S PROVE FALSE
  OBVIOUS
<1>. DEFINE Bad == {i \in 0 .. n : i \notin S}
<1>1. PICK m \in Bad : \A y \in Bad : m <= y
  <2>1. Bad \subseteq Nat /\ Bad # {}
    OBVIOUS
  <2>. HIDE DEF Bad
  <2>. QED  BY <2>1, LeastNumber
<1>2. m \in 1 .. n
  OBVIOUS
<1>3. m - 1 \in 0 .. n /\ m - 1 < m
  BY <1>2
<1>4. m - 1 \in S
  BY <1>1, <1>3
<1>. QED  BY <1>2, <1>4

(* A function may be defined from 0 to n, each value from the one before. *)
Unfolds(n, T, a, step) ==
  \E f \in [0 .. n -> T] :
    f[0] = a /\ \A i \in 1 .. n : f[i] = step[i][f[i - 1]]

LEMMA Recursion ==
  ASSUME NEW n \in Nat, NEW T, NEW a \in T, NEW step \in [1 .. n -> [T -> T]]
  PROVE  Unfolds(n, T, a, step)
<1>. DEFINE Good(k, f) == \A i \in 0 .. k : f[i] = IF i = 0 THEN a ELSE step[i][f[i - 1]]
            S == {k \in 0 .. n : \E f \in [0 .. k -> T] : Good(k, f)}
<1>1. 0 \in S
  <2>. DEFINE f == [i \in 0 .. 0 |-> a]
  <2>1. f \in [0 .. 0 -> T] /\ Good(0, f)
    OBVIOUS
  <2>2. 0 \in 0 .. n
    OBVIOUS
  <2>. HIDE DEF f, Good
  <2>. QED  BY <2>1, <2>2
<1>2. ASSUME NEW k \in 1 .. n, k - 1 \in S PROVE k \in S
  <2>1. PICK f \in [0 .. k - 1 -> T] : Good(k - 1, f)
    BY <1>2
  <2>. DEFINE g == [i \in 0 .. k |-> IF i = k THEN step[k][f[k - 1]] ELSE f[i]]
  <2>2. f[k - 1] \in T
    OBVIOUS
  <2>3. g \in [0 .. k -> T]
    BY <2>2
  <2>4. \A i \in 0 .. k : i # k => i \in 0 .. k - 1 /\ (i # 0 => i - 1 \in 0 .. k - 1)
    OBVIOUS
  <2>5. Good(k, g)
    BY <2>1, <2>4
  <2>6. k \in 0 .. n
    OBVIOUS
  <2>. HIDE DEF g, Good
  <2>. QED  BY <2>3, <2>5, <2>6
<1>3. n \in S
  <2>1. n \in 0 .. n
    OBVIOUS
  <2>. HIDE DEF S
  <2>. QED  BY <1>1, <1>2, <2>1, UpTo
<1>4. PICK f \in [0 .. n -> T] : Good(n, f)
  BY <1>3
<1>. QED  BY <1>4 DEF Unfolds

(* The powers of two. *)
LEMMA Powers ==
  /\ Pow2 \in [0 .. 32 -> Nat \ {0}] /\ Pow2[0] = 1
  /\ \A n \in 1 .. 32 : Pow2[n] = 2 * Pow2[n - 1]
<1>. DEFINE Eq(f) == f = [n \in 0 .. 32 |-> IF n = 0 THEN 1 ELSE 2 * f[n - 1]]
<1>1. \E f : Eq(f)
  <2>. DEFINE step == [i \in 1 .. 32 |-> [x \in Nat |-> 2 * x]]
  <2>1. step \in [1 .. 32 -> [Nat -> Nat]] /\ 1 \in Nat /\ 32 \in Nat
    OBVIOUS
  <2>2. PICK f \in [0 .. 32 -> Nat] :
          f[0] = 1 /\ \A i \in 1 .. 32 : f[i] = step[i][f[i - 1]]
    <3>. HIDE DEF step
    <3>. Unfolds(32, Nat, 1, step)
      BY <2>1, Recursion, Zenon
    <3>. QED  BY DEF Unfolds
  <2>3. \A i \in 0 .. 32 : i # 0 => i - 1 \in 0 .. 32 /\ i \in 1 .. 32
    OBVIOUS
  <2>4. Eq(f)
    BY <2>2, <2>3
  <2>. QED  BY <2>4
<1>2. Eq(Pow2)
  BY <1>1 DEF Pow2
<1>3. \A n \in 1 .. 32 : Pow2[n] = 2 * Pow2[n - 1]
  BY <1>2
<1>4. Pow2[0] = 1
  BY <1>2
<1>. DEFINE S == {m \in 0 .. 32 : Pow2[m] \in Nat \ {0}}
<1>5. \A n \in 0 .. 32 : n \in S
  <2>1. 0 \in S
    BY <1>4
  <2>2. ASSUME NEW i \in 1 .. 32, i - 1 \in S PROVE i \in S
    BY <2>2, <1>3
  <2>3. 32 \in Nat
    OBVIOUS
  <2>. HIDE DEF S
  <2>. QED  BY <2>1, <2>2, <2>3, UpTo
<1>. QED  BY <1>2, <1>3, <1>4, <1>5

LEMMA PowersAdd ==
  \A a, b \in 0 .. 32 : a + b <= 32 => Pow2[a + b] = Pow2[a] * Pow2[b]
<1>. SUFFICES ASSUME NEW a \in 0 .. 32
     PROVE  \A b \in 0 .. 32 : a + b <= 32 => Pow2[a + b] = Pow2[a] * Pow2[b]
  OBVIOUS
<1>. DEFINE S == {b \in 0 .. 32 : a + b <= 32 => Pow2[a + b] = Pow2[a] * Pow2[b]}
<1>1. 0 \in S
  BY Powers
<1>2. ASSUME NEW i \in 1 .. 32, i - 1 \in S PROVE i \in S
  <2>1. SUFFICES ASSUME a + i <= 32 PROVE Pow2[a + i] = Pow2[a] * Pow2[i]
    OBVIOUS
  <2>2. Pow2[a + (i - 1)] = Pow2[a] * Pow2[i - 1]
    BY <1>2, <2>1
  <2>3. Pow2[i] = 2 * Pow2[i - 1]
    BY Powers
  <2>4. a + i \in 1 .. 32 /\ (a + i) - 1 = a + (i - 1)
    BY <2>1
  <2>5. Pow2[a + i] = 2 * Pow2[a + (i - 1)]
    BY <2>4, Powers
  <2>6. Pow2[a] \in Nat /\ Pow2[i - 1] \in Nat
    BY Powers
  <2>7. \A x, y \in Nat : 2 * (x * y) = x * (2 * y)
    OBVIOUS
  <2>. QED  BY <2>2, <2>3, <2>5, <2>6, <2>7, Zenon
<1>3. 32 \in Nat
  OBVIOUS
<1>4. \A b \in 0 .. 32 : b \in S
  <2>. HIDE DEF S
  <2>. QED  BY <1>1, <1>2, <1>3, UpTo
<1>. QED  BY <1>4

LEMMA SmallPowers ==
  /\ Pow2[1] = 2 /\ Pow2[2] = 4 /\ Pow2[3] = 8 /\ Pow2[4] = 16 /\ Pow2[5] = 32
  /\ Pow2[6] = 64 /\ Pow2[7] = 128 /\ Pow2[8] = 256
<1>1. Pow2[1] = 2 /\ Pow2[2] = 4 /\ Pow2[3] = 8 /\ Pow2[4] = 16
  BY Powers
<1>2. Pow2[5] = 32 /\ Pow2[6] = 64 /\ Pow2[7] = 128 /\ Pow2[8] = 256
  BY Powers, <1>1
<1>. QED  BY <1>1, <1>2

LEMMA PowersGrow ==
  \A a, b \in 0 .. 32 : a <= b => Pow2[a] <= Pow2[b]
<1>. SUFFICES ASSUME NEW a \in 0 .. 32, NEW b \in 0 .. 32, a <= b
     PROVE  Pow2[a] <= Pow2[b]
  OBVIOUS
<1>1. b - a \in 0 .. 32 /\ a + (b - a) = b
  OBVIOUS
<1>2. Pow2[b] = Pow2[a] * Pow2[b - a]
  BY SMTT(30), <1>1, PowersAdd
<1>3. Pow2[a] \in Nat /\ Pow2[b - a] \in Nat \ {0}
  BY <1>1, Powers
<1>4. \A x \in Nat, y \in Nat \ {0} : x <= x * y
  OBVIOUS
<1>. QED  BY <1>2, <1>3, <1>4, Zenon
-----------------------------------------------------------------------------
(* The bit reader: it stands before the end, and what it holds are fewer    *)
(* than eight bits.                                                        *)
Reader ==
  {r \in [source : Nat, tag : Nat, bitcount : 0 .. 7, overflow : BOOLEAN] :
     r.source <= sourceEnd /\ r.tag < Pow2[r.bitcount]}

ByteLoaded ==
  /\ src \in Seq(Byte) /\ sourceEnd \in Nat /\ sourceEnd <= Len(src)

LEMMA ByteIsSmall == ASSUME NEW b \in Byte PROVE b \in Nat /\ b <= 255
BY DEF Byte

LEMMA AtIsByte ==
  ASSUME src \in Seq(Byte), NEW i \in Nat, i < Len(src)
  PROVE  At(i) \in Byte /\ At(i) \in Nat /\ At(i) <= 255
<1>1. src[i + 1] \in Byte
  OBVIOUS
<1>. QED  BY <1>1, ByteIsSmall DEF At

LEMMA OneByteMore ==
  \A a, p, t \in Nat : a <= 255 /\ t < p => t + a * p < 256 * p
<1>. SUFFICES ASSUME NEW a \in Nat, NEW p \in Nat, NEW t \in Nat, a <= 255, t < p
     PROVE  t + a * p < 256 * p
  OBVIOUS
<1>1. a * p <= 255 * p
  OBVIOUS
<1>2. a * p \in Nat
  OBVIOUS
<1>. QED  BY <1>1, <1>2

LEMMA BytesNeededRight ==
  ASSUME NEW r \in Reader, NEW num \in 0 .. 16
  PROVE  /\ BytesNeeded(r, num) \in 0 .. 2
         /\ r.bitcount + 8 * BytesNeeded(r, num) \in num .. num + 7
<1>1. r.bitcount \in 0 .. 7
  BY DEF Reader
<1>2. \A b \in 0 .. 7 : b < num => /\ (num - b + 7) \div 8 \in 0 .. 2
                                 /\ b + 8 * ((num - b + 7) \div 8) \in num .. num + 7
  OBVIOUS
<1>. QED  BY <1>1, <1>2 DEF BytesNeeded

(* What tinf_refill leaves: at least the bits asked for, and no more than *)
(* its counter says.                                                      *)
Refilled(f, num) ==
  /\ f.source \in Nat /\ f.source <= sourceEnd
  /\ f.tag \in Nat /\ f.bitcount \in num .. num + 7 /\ f.tag < Pow2[f.bitcount]
  /\ f.overflow \in BOOLEAN

LEMMA RefillRight ==
  ASSUME ByteLoaded, NEW r \in Reader, NEW num \in 0 .. 16
  PROVE  LET f == Refill(r, num)
         IN  /\ f = [source |-> f.source, tag |-> f.tag, bitcount |-> f.bitcount,
                      overflow |-> f.overflow]
             /\ Refilled(f, num)
<1>. DEFINE needed == BytesNeeded(r, num)
            loaded == IF needed > sourceEnd - r.source THEN sourceEnd - r.source
                                                       ELSE needed
            More(i) == At(r.source + i - 1) * Pow2[r.bitcount + 8 * (i - 1)]
            Eq(f) == f = [i \in 0 .. loaded |-> IF i = 0 THEN r.tag ELSE f[i - 1] + More(i)]
            tag == CHOOSE f : Eq(f)
<1>0. r.source \in Nat /\ r.tag \in Nat /\ r.bitcount \in 0 .. 7 /\ r.overflow \in BOOLEAN
      /\ r.source <= sourceEnd /\ r.tag < Pow2[r.bitcount]
      /\ sourceEnd \in Nat /\ sourceEnd <= Len(src) /\ src \in Seq(Byte)
  BY DEF Reader, ByteLoaded
<1>1. needed \in 0 .. 2 /\ r.bitcount + 8 * needed \in num .. num + 7
  BY BytesNeededRight
<1>2. loaded \in Nat /\ loaded <= needed /\ r.source + loaded <= sourceEnd
  <2>. HIDE DEF needed
  <2>. QED  BY SMTT(30), <1>0, <1>1
<1>. HIDE DEF needed, loaded
<1>3. \A i \in 1 .. loaded : /\ At(r.source + i - 1) \in Nat /\ At(r.source + i - 1) <= 255
                            /\ r.bitcount + 8 * (i - 1) \in 0 .. 24
                            /\ Pow2[r.bitcount + 8 * (i - 1)] \in Nat
                            /\ Pow2[r.bitcount + 8 * i] = 256 * Pow2[r.bitcount + 8 * (i - 1)]
  <2>. SUFFICES ASSUME NEW i \in 1 .. loaded
       PROVE  /\ At(r.source + i - 1) \in Nat /\ At(r.source + i - 1) <= 255
              /\ r.bitcount + 8 * (i - 1) \in 0 .. 24
              /\ Pow2[r.bitcount + 8 * (i - 1)] \in Nat
              /\ Pow2[r.bitcount + 8 * i] = 256 * Pow2[r.bitcount + 8 * (i - 1)]
    OBVIOUS
  <2>1. r.source + i - 1 \in Nat /\ r.source + i - 1 < Len(src)
    BY <1>0, <1>2
  <2>2. r.bitcount + 8 * (i - 1) \in 0 .. 24
        /\ r.bitcount + 8 * i = (r.bitcount + 8 * (i - 1)) + 8
    <3>1. i \in 1 .. 2
      BY <1>1, <1>2
    <3>2. \A b \in 0 .. 7, j \in 1 .. 2 : b + 8 * (j - 1) \in 0 .. 24
                                      /\ b + 8 * j = (b + 8 * (j - 1)) + 8
      OBVIOUS
    <3>. QED  BY <1>0, <3>1, <3>2, Zenon
  <2>3. \A a \in 0 .. 24 : Pow2[a] \in Nat /\ Pow2[a + 8] = 256 * Pow2[a]
    <3>1. \A a \in 0 .. 24 : a \in 0 .. 32 /\ 8 \in 0 .. 32 /\ a + 8 <= 32
      OBVIOUS
    <3>2. \A a \in 0 .. 24 : Pow2[a] \in Nat /\ Pow2[a + 8] = Pow2[a] * Pow2[8]
      BY <3>1, PowersAdd, Powers
    <3>. QED  BY <3>2, SmallPowers
  <2>. QED  BY ZenonT(30), <1>0, <2>1, <2>2, <2>3, AtIsByte
<1>4. \E f : Eq(f)
  <2>. DEFINE step == [i \in 1 .. loaded |-> [x \in Nat |-> x + More(i)]]
  <2>1. \A i \in 1 .. loaded : More(i) \in Nat
    BY <1>3
  <2>2. step \in [1 .. loaded -> [Nat -> Nat]]
    <3>. HIDE DEF More
    <3>. QED  BY <2>1
  <2>3. PICK f \in [0 .. loaded -> Nat] :
          f[0] = r.tag /\ \A i \in 1 .. loaded : f[i] = step[i][f[i - 1]]
    <3>. HIDE DEF step
    <3>. Unfolds(loaded, Nat, r.tag, step)
      BY <1>0, <1>2, <2>2, Recursion, Zenon
    <3>. QED  BY DEF Unfolds
  <2>. HIDE DEF More
  <2>4. \A i \in 1 .. loaded : i - 1 \in 0 .. loaded
    BY <1>2
  <2>5. \A i \in 1 .. loaded : f[i] = f[i - 1] + More(i)
    BY <2>3, <2>4
  <2>6. \A i \in 0 .. loaded : i # 0 => i \in 1 .. loaded
    BY <1>2
  <2>7. f = [i \in 0 .. loaded |-> IF i = 0 THEN r.tag ELSE f[i - 1] + More(i)]
    BY <2>3, <2>5, <2>6
  <2>. QED  BY <2>7
<1>5. Eq(tag)
  <2>. HIDE DEF Eq
  <2>. QED  BY <1>4
<1>. HIDE DEF tag
<1>. DEFINE S == {i \in 0 .. loaded : tag[i] \in Nat /\ tag[i] < Pow2[r.bitcount + 8 * i]}
<1>6. \A i \in 0 .. loaded : i \in S
  <2>1. 0 \in S
    <3>1. tag[0] = r.tag /\ r.bitcount + 8 * 0 = r.bitcount /\ 0 \in 0 .. loaded
      BY <1>0, <1>2, <1>5
    <3>. QED  BY <1>0, <3>1
  <2>2. ASSUME NEW i \in 1 .. loaded, i - 1 \in S PROVE i \in S
    <3>0. i \in 0 .. loaded /\ i # 0
      BY <1>2
    <3>1. tag[i] = tag[i - 1] + More(i)
      <4>. HIDE DEF More
      <4>. QED  BY <1>5, <3>0
    <3>2. tag[i - 1] \in Nat /\ tag[i - 1] < Pow2[r.bitcount + 8 * (i - 1)]
      BY <2>2
    <3>. DEFINE p == Pow2[r.bitcount + 8 * (i - 1)]
                t == tag[i - 1]
                b == At(r.source + i - 1)
    <3>3. b \in Nat /\ p \in Nat /\ t \in Nat /\ b <= 255 /\ t < p
          /\ tag[i] = t + b * p /\ Pow2[r.bitcount + 8 * i] = 256 * p
      BY <1>3, <3>1, <3>2
    <3>. HIDE DEF p, t, b
    <3>4. t + b * p \in Nat /\ t + b * p < 256 * p
      BY <3>3, OneByteMore
    <3>5. i \in 0 .. loaded
      BY <1>2
    <3>. QED  BY <3>3, <3>4, <3>5
  <2>. HIDE DEF S
  <2>. QED  BY <1>2, <2>1, <2>2, UpTo
<1>7. tag[loaded] \in Nat /\ tag[loaded] < Pow2[r.bitcount + 8 * loaded]
  BY <1>2, <1>6
<1>8. /\ r.bitcount + 8 * loaded \in 0 .. 32 /\ r.bitcount + 8 * needed \in 0 .. 32
      /\ r.bitcount + 8 * loaded <= r.bitcount + 8 * needed
  <2>1. \A b \in 0 .. 7, m, n \in 0 .. 2 :
          m <= n => b + 8 * m \in 0 .. 32 /\ b + 8 * n \in 0 .. 32 /\ b + 8 * m <= b + 8 * n
    OBVIOUS
  <2>2. loaded \in 0 .. 2
    BY <1>1, <1>2
  <2>. QED  BY <1>0, <1>1, <1>2, <2>1, <2>2, Zenon
<1>9. /\ Pow2[r.bitcount + 8 * loaded] \in Nat /\ Pow2[r.bitcount + 8 * needed] \in Nat
      /\ Pow2[r.bitcount + 8 * loaded] <= Pow2[r.bitcount + 8 * needed]
  BY <1>8, Powers, PowersGrow
<1>10. Refill(r, num) = [source |-> r.source + loaded, tag |-> tag[loaded],
                         bitcount |-> r.bitcount + 8 * needed,
                         overflow |-> r.overflow \/ loaded < needed]
  BY DEF Refill, loaded, needed, tag
<1>11. /\ r.source + loaded \in Nat /\ r.source + loaded <= sourceEnd
       /\ tag[loaded] \in Nat /\ tag[loaded] < Pow2[r.bitcount + 8 * needed]
       /\ r.bitcount + 8 * needed \in num .. num + 7
       /\ (r.overflow \/ loaded < needed) \in BOOLEAN
  <2>1. \A t, x, y \in Nat : t < x /\ x <= y => t < y
    OBVIOUS
  <2>2. tag[loaded] < Pow2[r.bitcount + 8 * needed]
    BY <1>7, <1>9, <2>1, Zenon
  <2>3. r.source + loaded \in Nat
    BY <1>0, <1>2
  <2>. QED  BY <1>1, <1>2, <1>7, <2>2, <2>3, Zenon
<1>. QED  BY <1>10, <1>11 DEF Refilled

(* tinf_getbits_base returns a number of num bits on top of base. *)
Bits(num, base) == {b \in Nat : base <= b /\ b < base + Pow2[num]}

LEMMA GetBitsRight ==
  ASSUME ByteLoaded, NEW r \in Reader, NEW num \in 0 .. 16, NEW base \in Nat
  PROVE  /\ GetBits(r, num, base) = [bits |-> GetBits(r, num, base).bits,
                                     d |-> GetBits(r, num, base).d]
         /\ GetBits(r, num, base).bits \in Bits(num, base)
         /\ GetBits(r, num, base).d \in Reader
<1>. DEFINE f == Refill(r, num)  p == Pow2[num]
<1>1. /\ f = [source |-> f.source, tag |-> f.tag, bitcount |-> f.bitcount,
              overflow |-> f.overflow]
      /\ Refilled(f, num)
  BY RefillRight
<1>2. p \in Nat \ {0}
  BY Powers
<1>3. GetBits(r, num, base) =
        [bits |-> base + (f.tag % p),
         d |-> [f EXCEPT !.tag = f.tag \div p, !.bitcount = f.bitcount - num]]
  BY DEF GetBits
<1>4. f.bitcount - num \in 0 .. 7 /\ f.bitcount - num \in 0 .. 32 /\ num \in 0 .. 32
      /\ num + (f.bitcount - num) = f.bitcount /\ f.bitcount <= 32
  <2>. HIDE DEF f
  <2>. QED  BY <1>1 DEF Refilled
<1>5. Pow2[f.bitcount] = p * Pow2[f.bitcount - num] /\ Pow2[f.bitcount - num] \in Nat
  <2>. HIDE DEF f
  <2>. QED  BY <1>4, PowersAdd, Powers
<1>. HIDE DEF f, p
<1>6. \A t, q \in Nat : t < p * q => t \div p \in Nat /\ t \div p < q
  <2>. SUFFICES ASSUME NEW t \in Nat, NEW q \in Nat, t < p * q
       PROVE  t \div p \in Nat /\ t \div p < q
    OBVIOUS
  <2>. DEFINE x == t \div p
  <2>1. x \in Nat /\ p * x <= t
    BY <1>2
  <2>. HIDE DEF x
  <2>2. p * x < p * q
    BY <1>2, <2>1
  <2>3. x >= q => p * x >= p * q
    BY <1>2, <2>1
  <2>4. x < q
    BY <1>2, <2>1, <2>2, <2>3
  <2>. QED  BY <2>1, <2>4 DEF x
<1>7. f.tag \div p \in Nat /\ f.tag \div p < Pow2[f.bitcount - num]
  BY <1>1, <1>5, <1>6 DEF Refilled
<1>8. f.tag % p \in Nat /\ f.tag % p < p
  BY <1>1, <1>2 DEF Refilled
<1>9. f \in [source : Nat, tag : Nat, bitcount : 0 .. 32, overflow : BOOLEAN]
  <2>1. f.source \in Nat /\ f.tag \in Nat /\ f.bitcount \in 0 .. 32 /\ f.overflow \in BOOLEAN
    BY <1>1 DEF Refilled
  <2>. QED  BY <1>1, <2>1
<1>10. [f EXCEPT !.tag = f.tag \div p, !.bitcount = f.bitcount - num] \in Reader
  <2>. DEFINE t == f.tag \div p  b == f.bitcount - num
  <2>1. t \in Nat /\ b \in 0 .. 7 /\ t < Pow2[b] /\ f.source <= sourceEnd
    BY <1>1, <1>4, <1>7 DEF Refilled
  <2>. HIDE DEF t, b
  <2>. DEFINE g == [f EXCEPT !.tag = t, !.bitcount = b]
  <2>2. g \in [source : Nat, tag : Nat, bitcount : 0 .. 7, overflow : BOOLEAN]
    BY <1>9, <2>1
  <2>3. g.source = f.source /\ g.tag = t /\ g.bitcount = b
    BY <1>9
  <2>. HIDE DEF g
  <2>4. g \in Reader
    BY <2>1, <2>2, <2>3 DEF Reader
  <2>. QED  BY <2>4 DEF g, t, b
<1>11. base + (f.tag % p) \in Bits(num, base)
  BY <1>2, <1>8 DEF Bits, p
<1>. QED  BY <1>3, <1>10, <1>11
-----------------------------------------------------------------------------
(* A tree no walk leaves: of the codes still free after each length, left, *)
(* none is free after the last; and of the symbols with shorter codes,     *)
(* before, all are in the table.                                           *)
GoodTree(t) ==
  /\ t.counts \in [0 .. 15 -> Nat] /\ t.counts[0] = 0
  /\ t.symbols \in Seq(0 .. 288)
  /\ \E left \in [0 .. 16 -> Int], before \in [0 .. 15 -> Nat] :
       /\ left[0] = 1 /\ left[16] = 0
       /\ \A i \in 1 .. 16 : left[i] = 2 * (left[i - 1] - t.counts[i - 1])
       /\ before[0] = 0 /\ before[15] <= Len(t.symbols)
       /\ \A i \in 1 .. 15 : before[i] = before[i - 1] + t.counts[i]

(* The walk after each bit, and one bit of it. *)
Walks ==
  [sym : {NotYet, Lost} \cup 0 .. 288, base : Nat, offs : Nat, d : Reader]

WalkOn(t, len, w) ==
  IF w.sym # NotYet THEN w
  ELSE IF len = 16 THEN [w EXCEPT !.sym = Lost]
  ELSE LET b == GetBits(w.d, 1, 0)
           o == 2 * w.offs + b.bits
           at == w.base + o
       IN IF o < t.counts[len]
          THEN [sym |-> IF at < Len(t.symbols) THEN t.symbols[at + 1]
                                               ELSE Lost,
                base |-> w.base, offs |-> o, d |-> b.d]
          ELSE [sym |-> NotYet, base |-> w.base + t.counts[len],
                offs |-> o - t.counts[len], d |-> b.d]

WalkBegins(r) == [sym |-> NotYet, base |-> 0, offs |-> 0, d |-> r]

IsWalk(f, r, t) ==
  f = [len \in 0 .. 16 |-> IF len = 0 THEN WalkBegins(r) ELSE WalkOn(t, len, f[len - 1])]

LEMMA OneBit ==
  ASSUME ByteLoaded, NEW r \in Reader
  PROVE  GetBits(r, 1, 0).bits \in {0, 1} /\ GetBits(r, 1, 0).d \in Reader
<1>1. /\ GetBits(r, 1, 0).bits \in Bits(1, 0)
      /\ GetBits(r, 1, 0).d \in Reader
  <2>. 1 \in 0 .. 16 /\ 0 \in Nat
    OBVIOUS
  <2>. QED  BY GetBitsRight
<1>. QED  BY <1>1, SmallPowers DEF Bits

LEMMA WalkTyped ==
  ASSUME ByteLoaded, NEW t, GoodTree(t), NEW len \in 1 .. 16, NEW w \in Walks
  PROVE  WalkOn(t, len, w) \in Walks
<1>1. CASE w.sym # NotYet
  BY <1>1 DEF WalkOn
<1>2. CASE w.sym = NotYet /\ len = 16
  BY <1>2 DEF WalkOn, Walks
<1>3. CASE w.sym = NotYet /\ len # 16
  <2>. DEFINE b == GetBits(w.d, 1, 0)
              o == 2 * w.offs + b.bits
              at == w.base + o
              sym == IF at < Len(t.symbols) THEN t.symbols[at + 1] ELSE Lost
  <2>1. w.d \in Reader /\ w.offs \in Nat /\ w.base \in Nat
    BY DEF Walks
  <2>2. b.bits \in {0, 1} /\ b.d \in Reader
    BY <2>1, OneBit
  <2>. HIDE DEF b
  <2>3. o \in Nat /\ at \in Nat
    BY <2>1, <2>2
  <2>0. t.counts \in [0 .. 15 -> Nat] /\ t.symbols \in Seq(0 .. 288)
    BY DEF GoodTree
  <2>4. t.counts[len] \in Nat
    <3>. len \in 0 .. 15
      BY <1>3
    <3>. QED  BY <2>0
  <2>5. sym \in {NotYet, Lost} \cup 0 .. 288
    <3>. HIDE DEF at
    <3>1. CASE at < Len(t.symbols)
      <4>1. at + 1 \in 1 .. Len(t.symbols)
        BY <2>0, <2>3, <3>1
      <4>2. t.symbols[at + 1] \in 0 .. 288
        BY <2>0, <4>1, ElementOfSeq, ZenonT(30)
      <4>. QED  BY <3>1, <4>2
    <3>2. CASE ~(at < Len(t.symbols))
      BY <3>2
    <3>. QED  BY <3>1, <3>2
  <2>6. WalkOn(t, len, w) =
          IF o < t.counts[len]
          THEN [sym |-> sym, base |-> w.base, offs |-> o, d |-> b.d]
          ELSE [sym |-> NotYet, base |-> w.base + t.counts[len],
                offs |-> o - t.counts[len], d |-> b.d]
    BY <1>3 DEF WalkOn, b
  <2>. HIDE DEF o, sym
  <2>7. o >= t.counts[len] => o - t.counts[len] \in Nat
    BY <2>3, <2>4
  <2>8. w.base + t.counts[len] \in Nat
    BY <2>1, <2>4
  <2>. QED  BY <2>1, <2>2, <2>3, <2>4, <2>5, <2>6, <2>7, <2>8 DEF Walks
<1>. QED  BY <1>1, <1>2, <1>3

LEMMA WalkThere ==
  ASSUME ByteLoaded, NEW t, GoodTree(t), NEW r \in Reader
  PROVE  \E f : IsWalk(f, r, t)
<1>. DEFINE step == [len \in 1 .. 16 |-> [w \in Walks |-> WalkOn(t, len, w)]]
<1>1. step \in [1 .. 16 -> [Walks -> Walks]]
  BY WalkTyped
<1>2. WalkBegins(r) \in Walks
  BY DEF WalkBegins, Walks
<1>3. PICK f \in [0 .. 16 -> Walks] :
        f[0] = WalkBegins(r) /\ \A i \in 1 .. 16 : f[i] = step[i][f[i - 1]]
  <2>. HIDE DEF step
  <2>. 16 \in Nat
    OBVIOUS
  <2>. Unfolds(16, Walks, WalkBegins(r), step)
    BY <1>1, <1>2, Recursion, Zenon
  <2>. QED  BY DEF Unfolds
<1>4. \A i \in 1 .. 16 : i - 1 \in 0 .. 16
  OBVIOUS
<1>5. \A i \in 1 .. 16 : f[i] = WalkOn(t, i, f[i - 1])
  BY <1>3, <1>4
<1>6. \A i \in 0 .. 16 : i # 0 => i \in 1 .. 16
  OBVIOUS
<1>7. IsWalk(f, r, t)
  BY <1>3, <1>5, <1>6 DEF IsWalk
<1>. QED  BY <1>7

(* tinf_decode_symbol finds a symbol in a good tree, whatever bits come. *)
LEMMA SymbolFound ==
  ASSUME ByteLoaded, NEW t, GoodTree(t), NEW r \in Reader
  PROVE  DecodeSymbol(r, t).sym \in 0 .. 288 /\ DecodeSymbol(r, t).d \in Reader
<1>. DEFINE walk == CHOOSE f : IsWalk(f, r, t)
<1>1. IsWalk(walk, r, t)
  BY WalkThere
<1>. HIDE DEF walk
<1>2. DecodeSymbol(r, t) = walk[16]
  BY DEF DecodeSymbol, walk, IsWalk, WalkOn, WalkBegins
<1>. DEFINE c == t.counts  y == t.symbols
<1>3. PICK left \in [0 .. 16 -> Int], before \in [0 .. 15 -> Nat] :
        /\ left[0] = 1 /\ left[16] = 0
        /\ \A i \in 1 .. 16 : left[i] = 2 * (left[i - 1] - c[i - 1])
        /\ before[0] = 0 /\ before[15] <= Len(y)
        /\ \A i \in 1 .. 15 : before[i] = before[i - 1] + c[i]
  BY DEF GoodTree
<1>4. c \in [0 .. 15 -> Nat] /\ y \in Seq(0 .. 288) /\ c[0] = 0
  BY DEF GoodTree
<1>. HIDE DEF c, y
<1>a. Len(y) \in Nat /\ \A i \in 0 .. 15 : c[i] \in Nat /\ before[i] \in Nat
  BY <1>4
<1>b. \A i \in 0 .. 16 : left[i] \in Int
  OBVIOUS
<1>5. \A i \in 0 .. 15 : before[i] <= Len(y)
  <2>. DEFINE S == {i \in 0 .. 15 : before[15 - i] <= before[15]}
  <2>1. 0 \in S
    BY <1>3
  <2>2. ASSUME NEW i \in 1 .. 15, i - 1 \in S PROVE i \in S
    <3>1. 15 - i \in 0 .. 15 /\ 15 - (i - 1) \in 1 .. 15
          /\ (15 - (i - 1)) - 1 = 15 - i
      OBVIOUS
    <3>2. before[15 - (i - 1)] = before[15 - i] + c[15 - (i - 1)]
      BY <1>3, <3>1
    <3>3. before[15 - i] \in Nat /\ c[15 - (i - 1)] \in Nat /\ before[15] \in Nat
      <4>1. 15 - (i - 1) \in 0 .. 15 /\ 15 \in 0 .. 15
        OBVIOUS
      <4>. QED  BY <1>a, <3>1, <4>1, Zenon
    <3>. HIDE DEF S
    <3>4. before[15 - i] <= before[15]
      <4>1. before[15 - (i - 1)] <= before[15]
        BY <2>2 DEF S
      <4>. QED  BY <4>1, <3>2, <3>3
    <3>. QED  BY <3>4 DEF S
  <2>3. 15 \in Nat
    OBVIOUS
  <2>4. \A i \in 0 .. 15 : i \in S
    <3>. HIDE DEF S
    <3>. QED  BY <2>1, <2>2, <2>3, UpTo
  <2>5. \A i \in 0 .. 15 : 15 - i \in 0 .. 15 /\ 15 - (15 - i) = i
    OBVIOUS
  <2>6. \A i \in 0 .. 15 : before[i] <= before[15]
    BY <2>4, <2>5
  <2>7. \A i \in 0 .. 15 : before[i] \in Nat
    OBVIOUS
  <2>8. 15 \in 0 .. 15
    OBVIOUS
  <2>9. \A p, q, m \in Nat : p <= q /\ q <= m => p <= m
    OBVIOUS
  <2>. QED  BY <1>3, <1>a, <2>6, <2>7, <2>8, <2>9, Zenon
<1>. DEFINE Onward(i, w) ==
       /\ w \in Walks /\ w.sym # Lost
       /\ w.sym = NotYet => /\ i <= 15 /\ w.base = before[i]
                            /\ w.offs + c[i] < left[i]
            S == {i \in 0 .. 16 : Onward(i, walk[i])}
<1>6. 0 \in S
  <2>1. walk[0] = WalkBegins(r)
    BY <1>1 DEF IsWalk
  <2>2. WalkBegins(r) \in Walks
    BY DEF WalkBegins, Walks
  <2>3. walk[0].sym = NotYet /\ walk[0].base = 0 /\ walk[0].offs = 0 /\ NotYet # Lost
    BY <2>1 DEF WalkBegins, NotYet, Lost
  <2>4. 0 + c[0] < left[0] /\ 0 <= 15 /\ 0 \in 0 .. 16
    BY <1>3, <1>4
  <2>. QED  BY <1>3, <2>1, <2>2, <2>3, <2>4
<1>7. ASSUME NEW i \in 1 .. 16, i - 1 \in S PROVE i \in S
  <2>. DEFINE w == walk[i - 1]
  <2>1. walk[i] = WalkOn(t, i, w)
    <3>. i \in 0 .. 16 /\ i # 0
      OBVIOUS
    <3>. QED  BY <1>1 DEF IsWalk
  <2>2. Onward(i - 1, w) /\ i - 1 \in 0 .. 15 /\ i \in 0 .. 16
    BY <1>7
  <2>. HIDE DEF w
  <2>3. WalkOn(t, i, w) \in Walks
    BY <2>2, WalkTyped
  <2>4. CASE w.sym # NotYet
    BY <2>1, <2>2, <2>4 DEF WalkOn
  <2>5. CASE w.sym = NotYet
    <3>1. /\ i - 1 <= 15 /\ w.base = before[i - 1]
          /\ w.offs + c[i - 1] < left[i - 1] /\ w \in Walks
      BY <2>2, <2>5
    <3>2. w.offs \in Nat /\ w.base \in Nat /\ w.d \in Reader
      BY <3>1 DEF Walks
    <3>3. /\ left[i] = 2 * (left[i - 1] - c[i - 1])
          /\ left[i] \in Int /\ left[i - 1] \in Int /\ c[i - 1] \in Nat
      <4>. i \in 0 .. 16 /\ i - 1 \in 0 .. 16
        OBVIOUS
      <4>. QED  BY <1>3, <1>a, <1>b, <2>2
    <3>4. 2 * w.offs + 1 < left[i]
      BY <3>1, <3>2, <3>3
    <3>5. i # 16
      <4>. SUFFICES ASSUME i = 16 PROVE FALSE
        OBVIOUS
      <4>1. left[i] = 0
        BY <1>3
      <4>. QED  BY <3>2, <3>4, <4>1
    <3>6. i \in 1 .. 15 /\ i \in 0 .. 15
      BY <3>5
    <3>. DEFINE b == GetBits(w.d, 1, 0)
                o == 2 * w.offs + b.bits
                at == w.base + o
    <3>7. b.bits \in {0, 1}
      BY <3>2, OneBit
    <3>. HIDE DEF b
    <3>8. o \in Nat /\ o < left[i] /\ at \in Nat
      BY <3>2, <3>3, <3>4, <3>7
    <3>9. c[i] \in Nat /\ before[i] = before[i - 1] + c[i]
          /\ before[i] <= Len(y) /\ Len(y) \in Nat
      BY <1>3, <1>a, <1>5, <3>6
    <3>10. WalkOn(t, i, w) =
             IF o < c[i]
             THEN [sym |-> IF at < Len(y) THEN y[at + 1] ELSE Lost,
                   base |-> w.base, offs |-> o, d |-> b.d]
             ELSE [sym |-> NotYet, base |-> w.base + c[i],
                   offs |-> o - c[i], d |-> b.d]
      BY <2>5, <3>5 DEF WalkOn, b, c, y
    <3>11. CASE o < c[i]
      <4>1. at < Len(y)
        <5>1. before[i - 1] \in Nat
          BY <1>a, <2>2
        <5>. HIDE DEF o
        <5>2. at = before[i - 1] + o
          BY <3>1
        <5>3. \A p, q, m, n \in Nat : q < m /\ p + m <= n => p + q < n
          OBVIOUS
        <5>4. before[i - 1] + c[i] <= Len(y) /\ Len(y) \in Nat /\ c[i] \in Nat
              /\ o \in Nat
          BY <3>8, <3>9
        <5>5. before[i - 1] + o < Len(y)
          BY <3>11, <5>1, <5>3, <5>4, Zenon
        <5>. HIDE DEF at
        <5>. QED  BY <5>2, <5>5, Zenon
      <4>2. y[at + 1] \in 0 .. 288
        <5>. HIDE DEF at
        <5>1. at + 1 \in 1 .. Len(y)
          BY <1>a, <3>8, <4>1
        <5>. QED  BY <1>4, <5>1, ElementOfSeq, SMTT(30), ZenonT(60)
      <4>3. WalkOn(t, i, w).sym = y[at + 1]
        <5>. HIDE DEF at, o
        <5>. QED  BY <3>10, <3>11, <4>1
      <4>4. y[at + 1] # Lost /\ y[at + 1] # NotYet
        <5>. HIDE DEF at
        <5>. QED  BY <4>2 DEF Lost, NotYet
      <4>. HIDE DEF at
      <4>. QED  BY <2>1, <2>2, <2>3, <4>3, <4>4
    <3>12. CASE ~(o < c[i])
      <4>1. /\ WalkOn(t, i, w).sym = NotYet
            /\ WalkOn(t, i, w).base = w.base + c[i]
            /\ WalkOn(t, i, w).offs = o - c[i]
        <5>. HIDE DEF at, o
        <5>. QED  BY <3>10, <3>12
      <4>2. (o - c[i]) + c[i] < left[i]
        <5>. HIDE DEF o
        <5>1. o \in Nat /\ o < left[i] /\ left[i] \in Int /\ c[i] \in Nat
          BY <3>3, <3>8, <3>9
        <5>2. \A p, q \in Int : (p - q) + q = p
          OBVIOUS
        <5>3. (o - c[i]) + c[i] = o
          BY <5>1, <5>2
        <5>. QED  BY <5>1, <5>3
      <4>. HIDE DEF at, o
      <4>3. WalkOn(t, i, w).base = before[i]
        BY <3>1, <3>9, <4>1
      <4>4. WalkOn(t, i, w).offs + c[i] < left[i]
        BY <4>1, <4>2
      <4>5. i <= 15 /\ NotYet # Lost
        BY <3>6 DEF NotYet, Lost
      <4>. QED  BY <2>1, <2>2, <2>3, <4>1, <4>3, <4>4, <4>5
    <3>. QED  BY <3>11, <3>12
  <2>. QED  BY <2>4, <2>5
<1>8. 16 \in S
  <2>. 16 \in Nat /\ 16 \in 0 .. 16
    OBVIOUS
  <2>. HIDE DEF S
  <2>. QED  BY <1>6, <1>7, UpTo
<1>9. walk[16] \in Walks /\ walk[16].sym \notin {NotYet, Lost}
  BY <1>8
<1>. QED  BY <1>2, <1>9 DEF Walks

-----------------------------------------------------------------------------
(* Places in a finite set of numbers.                                      *)

(* Every number of a finite set has its place, counted upwards. *)
LEMMA KthSmallest ==
  ASSUME NEW n \in Nat, NEW S \in SUBSET (0 .. n), NEW k \in 1 .. Cardinality(S)
  PROVE  \E s \in S : Cardinality({u \in S : u < s}) = k - 1
<1>. DEFINE Below(s) == {u \in S : u < s}
            Has2(i) == \E s \in S : Cardinality(Below(s)) = i
            m == Cardinality(S) - 1
            K == {i \in 0 .. m : Has2(i)}
<1>1. IsFiniteSet(S) /\ Cardinality(S) \in Nat
  <2>1. IsFiniteSet(0 .. n)
    BY FS_Interval
  <2>. QED  BY <2>1, FS_Subset, FS_CardinalityType
<1>2. \A T \in SUBSET S : IsFiniteSet(T) /\ Cardinality(T) \in Nat
  BY <1>1, FS_Subset, FS_CardinalityType
<1>3. m \in Nat /\ k - 1 \in 0 .. m
  BY <1>1
<1>4. 0 \in K
  <2>1. S # {} /\ S \subseteq Nat
    <3>1. Cardinality(S) # 0
      BY <1>1
    <3>. QED  BY <3>1, FS_EmptySet
  <2>2. PICK s \in S : \A y \in S : s <= y
    BY <2>1, LeastNumber
  <2>3. \A y \in S : ~(y < s)
    BY <2>1, <2>2
  <2>4. Below(s) = {}
    BY <2>3
  <2>5. Has2(0)
    <3>. HIDE DEF Below
    <3>. QED  BY <2>4, FS_EmptySet
  <2>. HIDE DEF Has2, m
  <2>. QED  BY <1>3, <2>5
<1>5. ASSUME NEW i \in 1 .. m, i - 1 \in K PROVE i \in K
  <2>1. PICK s \in S : Cardinality(Below(s)) = i - 1
    BY <1>5
  <2>. DEFINE T == Below(s) \cup {s}
              Above == {u \in S : u > s}
  <2>2. T \in SUBSET S /\ Below(s) \in SUBSET S /\ s \notin Below(s) /\ s \in 0 .. n
    OBVIOUS
  <2>3. Cardinality(T) = i
    <3>. DEFINE B == Below(s)
    <3>1. IsFiniteSet(B) /\ s \notin B /\ Cardinality(B) = i - 1
      BY <1>2, <2>1, <2>2
    <3>. HIDE DEF B
    <3>2. Cardinality(B \cup {s}) = Cardinality(B) + 1
      BY <3>1, FS_AddElement
    <3>3. T = B \cup {s}
      BY DEF B
    <3>. QED  BY <3>1, <3>2, <3>3
  <2>4. Above # {} /\ Above \subseteq Nat
    <3>1. Above \subseteq Nat
      <4>. \A u \in S : u \in Nat
        OBVIOUS
      <4>. QED  OBVIOUS
    <3>2. ASSUME Above = {} PROVE FALSE
      <4>1. \A u \in S : u < s \/ u = s
        <5>1. \A u \in S : u \in 0 .. n /\ ~(u > s)
          BY <3>2
        <5>. QED  BY <2>2, <5>1
      <4>2. S = T
        BY <2>2, <4>1
      <4>. HIDE DEF T
      <4>. QED  BY <1>1, <2>3, <4>2
    <3>. QED  BY <3>1, <3>2
  <2>5. PICK t \in Above : \A y \in Above : t <= y
    <3>. HIDE DEF Above
    <3>. QED  BY <2>4, LeastNumber
  <2>6. t \in S /\ t > s /\ t \in 0 .. n
    OBVIOUS
  <2>7. Below(t) = T
    <3>1. ASSUME NEW u \in S PROVE u < t <=> u < s \/ u = s
      <4>1. u \in 0 .. n
        OBVIOUS
      <4>2. u > s => t <= u
        BY <2>5, <3>1
      <4>. QED  BY <2>2, <2>6, <4>1, <4>2
    <3>. QED  BY <2>2, <3>1
  <2>8. Has2(i)
    <3>. HIDE DEF Below, T
    <3>. QED  BY <2>3, <2>6, <2>7
  <2>9. i \in 0 .. m
    <3>. HIDE DEF m
    <3>. QED  BY <1>3
  <2>. HIDE DEF Has2, m
  <2>. QED  BY <2>8, <2>9
<1>6. k - 1 \in K
  <2>. HIDE DEF K, m
  <2>. QED  BY <1>3, <1>4, <1>5, UpTo
<1>. QED  BY <1>6

LEMMA UpwardsRight ==
  ASSUME NEW n \in Nat, NEW S \in SUBSET (0 .. n)
  PROVE  /\ Upwards(S) \in Seq(0 .. n)
         /\ Len(Upwards(S)) = Cardinality(S)
<1>1. Cardinality(S) \in Nat
  <2>1. IsFiniteSet(0 .. n)
    BY FS_Interval
  <2>. QED  BY <2>1, FS_Subset, FS_CardinalityType
<1>. DEFINE Place(k) == CHOOSE s \in S : Cardinality({u \in S : u < s}) = k - 1
<1>2. \A k \in 1 .. Cardinality(S) : Place(k) \in 0 .. n
  BY KthSmallest
<1>3. Upwards(S) = [k \in 1 .. Cardinality(S) |-> Place(k)]
  BY DEF Upwards
<1>. HIDE DEF Place
<1>. QED  BY <1>1, <1>2, <1>3

LEMMA GreatestNumber ==
  ASSUME NEW n \in Nat, NEW S \in SUBSET (-1 .. n), S # {}
  PROVE  Max(S) \in S /\ \A y \in S : Max(S) >= y
<1>. DEFINE T == {i \in Nat : \E s \in S : i = n - s}
<1>1. T \subseteq Nat /\ T # {}
  <2>1. PICK s \in S : TRUE
    OBVIOUS
  <2>2. s \in -1 .. n
    OBVIOUS
  <2>3. n - s \in Nat
    BY <2>2
  <2>4. n - s \in T
    BY <2>3
  <2>. QED  BY <2>4
<1>2. PICK m \in T : \A y \in T : m <= y
  <2>. HIDE DEF T
  <2>. QED  BY <1>1, LeastNumber
<1>3. PICK s \in S : m = n - s
  OBVIOUS
<1>4. ASSUME NEW y \in S PROVE s >= y
  <2>1. y \in -1 .. n /\ s \in -1 .. n
    OBVIOUS
  <2>2. n - y \in T
    BY <2>1
  <2>3. m <= n - y
    BY <1>2, <2>2
  <2>. QED  BY <1>3, <2>1, <2>3
<1>. QED  BY <1>3, <1>4 DEF Max

-----------------------------------------------------------------------------
(* FlattenSeq, and what the reader of bits finds.                          *)

(* Sequences put one behind the other: after each, its length is added. *)
LEMMA Joined ==
  ASSUME NEW T, NEW n \in Nat, n # 0, NEW q \in Seq(Seq(T)), Len(q) = n
  PROVE  /\ FlattenSeq(q) \in Seq(T)
         /\ \E before \in [0 .. n -> Nat] :
              /\ before[0] = 0 /\ before[n] = Len(FlattenSeq(q))
              /\ \A i \in 1 .. n : before[i] = before[i - 1] + Len(q[i])
<1>. DEFINE Eq(f) == f = [i \in 1 .. Len(q) |-> IF i = 1 THEN q[i] ELSE f[i - 1] \o q[i]]
            flatten == CHOOSE f : Eq(f)
<1>1. \A i \in 1 .. n : q[i] \in Seq(T)
  BY ElementOfSeq
<1>2. PICK g \in [0 .. n -> Seq(T)] :
        g[0] = <<>> /\ \A i \in 1 .. n : g[i] = g[i - 1] \o q[i]
  <2>. DEFINE step == [i \in 1 .. n |-> [x \in Seq(T) |-> x \o q[i]]]
  <2>1. step \in [1 .. n -> [Seq(T) -> Seq(T)]] /\ <<>> \in Seq(T)
    BY <1>1, ConcatProperties, EmptySeq
  <2>2. PICK g \in [0 .. n -> Seq(T)] :
          g[0] = <<>> /\ \A i \in 1 .. n : g[i] = step[i][g[i - 1]]
    <3>. HIDE DEF step
    <3>. Unfolds(n, Seq(T), <<>>, step)
      BY <2>1, Recursion, Zenon
    <3>. QED  BY DEF Unfolds
  <2>3. \A i \in 1 .. n : i - 1 \in 0 .. n
    OBVIOUS
  <2>4. \A i \in 1 .. n : g[i] = g[i - 1] \o q[i]
    BY <2>2, <2>3
  <2>. QED  BY <2>2, <2>4
<1>3. \A i \in 1 .. n : g[i] \in Seq(T) /\ g[i - 1] \in Seq(T)
  <2>. \A i \in 1 .. n : i - 1 \in 0 .. n /\ i \in 0 .. n
    OBVIOUS
  <2>. QED  OBVIOUS
<1>4b. g[1] = q[1]
  <2>1. 1 \in 1 .. n
    OBVIOUS
  <2>2. g[1] = q[1]
    <3>1. \A i \in 1 .. n : i = 1 => g[i] = <<>> \o q[i]
      <4>. SUFFICES ASSUME NEW i \in 1 .. n, i = 1 PROVE g[i] = <<>> \o q[i]
        OBVIOUS
      <4>1. i - 1 = 0
        OBVIOUS
      <4>2. g[i] = g[i - 1] \o q[i]
        BY <1>2
      <4>. QED  BY <1>2, <4>1, <4>2, Zenon
    <3>2. g[1] = <<>> \o q[1]
      BY <2>1, <3>1
    <3>3. q[1] \in Seq(T)
      BY <1>1, <2>1
    <3>. QED  BY <3>2, <3>3, ConcatEmptySeq
  <2>. QED  BY <2>2
<1>4. Eq([i \in 1 .. n |-> g[i]])
  <2>3. \A i \in 1 .. n : i # 1 => i - 1 \in 1 .. n
    OBVIOUS
  <2>. QED  BY <1>2, <1>4b, <2>3
<1>5. Eq(flatten)
  <2>. HIDE DEF Eq
  <2>. QED  BY <1>4
<1>6. FlattenSeq(q) = flatten[n]
  BY DEF FlattenSeq
<1>. HIDE DEF flatten
<1>. DEFINE S == {i \in 0 .. n : i # 0 => flatten[i] = g[i]}
<1>7. n \in S
  <2>1. 0 \in S
    OBVIOUS
  <2>2. ASSUME NEW i \in 1 .. n, i - 1 \in S PROVE i \in S
    <3>1. CASE i = 1
      <4>1. flatten[1] = q[1]
        BY <1>5, <3>1
      <4>. QED  BY <1>4b, <3>1, <4>1
    <3>2. CASE i # 1
      <4>1. flatten[i] = flatten[i - 1] \o q[i]
        <5>. i \in 1 .. Len(q)
          OBVIOUS
        <5>. QED  BY <1>5, <3>2
      <4>2. flatten[i - 1] = g[i - 1]
        BY <2>2, <3>2
      <4>3. g[i] = g[i - 1] \o q[i]
        BY <1>2
      <4>4. flatten[i] = g[i] /\ i \in 0 .. n
        BY <4>1, <4>2, <4>3
      <4>. QED  BY <4>4
    <3>. QED  BY <3>1, <3>2
  <2>3. n \in 0 .. n
    OBVIOUS
  <2>. HIDE DEF S
  <2>. QED  BY <2>1, <2>2, <2>3, UpTo
<1>8. FlattenSeq(q) = g[n] /\ n \in 0 .. n
  BY <1>6, <1>7
<1>. DEFINE before == [i \in 0 .. n |-> Len(g[i])]
<1>9. before \in [0 .. n -> Nat]
  BY LenProperties
<1>10. \A i \in 1 .. n : before[i] = before[i - 1] + Len(q[i])
  <2>1. \A i \in 1 .. n : i - 1 \in 0 .. n /\ i \in 0 .. n
    OBVIOUS
  <2>2. ASSUME NEW i \in 1 .. n PROVE Len(g[i]) = Len(g[i - 1]) + Len(q[i])
    <3>1. g[i] = g[i - 1] \o q[i] /\ g[i - 1] \in Seq(T) /\ q[i] \in Seq(T)
      BY <1>1, <1>2, <1>3
    <3>. QED  BY <3>1, ConcatProperties
  <2>. QED  BY <2>1, <2>2
<1>11. before[0] = 0 /\ before[n] = Len(FlattenSeq(q))
  BY <1>2, <1>8, EmptySeq
<1>12. FlattenSeq(q) \in Seq(T)
  BY <1>8
<1>. HIDE DEF before
<1>. QED  BY <1>9, <1>10, <1>11, <1>12

(* The codes still free at each length. *)
LEMMA AvailableRight ==
  ASSUME NEW counts \in [0 .. 15 -> Nat]
  PROVE  \E left \in [0 .. 16 -> Int] :
           /\ left[0] = 1
           /\ \A i \in 1 .. 16 : left[i] = 2 * (left[i - 1] - counts[i - 1])
           /\ \A i \in 0 .. 16 : Available(counts, i) = left[i]
<1>. DEFINE Eq(f) == f = [i \in 0 .. 16 |-> IF i = 0 THEN 1 ELSE 2 * (f[i - 1] - counts[i - 1])]
            left == CHOOSE f : Eq(f)
<1>0. \A i \in 1 .. 16 : i - 1 \in 0 .. 16 /\ i \in 0 .. 16 /\ i # 0
                        /\ counts[i - 1] \in Nat
  <2>. \A i \in 1 .. 16 : i - 1 \in 0 .. 16 /\ i \in 0 .. 16 /\ i # 0 /\ i - 1 \in 0 .. 15
    OBVIOUS
  <2>. QED  OBVIOUS
<1>1. PICK g \in [0 .. 16 -> Int] :
        g[0] = 1 /\ \A i \in 1 .. 16 : g[i] = 2 * (g[i - 1] - counts[i - 1])
  <2>. DEFINE step == [i \in 1 .. 16 |-> [x \in Int |-> 2 * (x - counts[i - 1])]]
  <2>1. step \in [1 .. 16 -> [Int -> Int]] /\ 1 \in Int /\ 16 \in Nat
    BY <1>0
  <2>2. PICK g \in [0 .. 16 -> Int] :
          g[0] = 1 /\ \A i \in 1 .. 16 : g[i] = step[i][g[i - 1]]
    <3>. HIDE DEF step
    <3>. Unfolds(16, Int, 1, step)
      BY <2>1, Recursion, Zenon
    <3>. QED  BY DEF Unfolds
  <2>3. \A i \in 1 .. 16 : g[i] = 2 * (g[i - 1] - counts[i - 1])
    BY <1>0, <2>2
  <2>. QED  BY <2>2, <2>3
<1>2. Eq(g)
  <2>. \A i \in 0 .. 16 : i # 0 => i \in 1 .. 16
    OBVIOUS
  <2>. QED  BY <1>1
<1>3. Eq(left)
  <2>. HIDE DEF Eq
  <2>. QED  BY <1>2
<1>4. \A i \in 0 .. 16 : Available(counts, i) = left[i]
  BY DEF Available
<1>. HIDE DEF left
<1>5. left[0] = 1 /\ \A i \in 1 .. 16 : left[i] = 2 * (left[i - 1] - counts[i - 1])
  BY <1>0, <1>3
<1>. DEFINE S == {i \in 0 .. 16 : left[i] \in Int}
<1>6. \A i \in 0 .. 16 : i \in S
  <2>1. 0 \in S
    BY <1>5
  <2>2. ASSUME NEW i \in 1 .. 16, i - 1 \in S PROVE i \in S
    BY <1>0, <1>5, <2>2
  <2>3. 16 \in Nat
    OBVIOUS
  <2>. HIDE DEF S
  <2>. QED  BY <2>1, <2>2, <2>3, UpTo
<1>7. left \in [0 .. 16 -> Int]
  BY <1>3, <1>6
<1>. QED  BY <1>4, <1>5, <1>7

-----------------------------------------------------------------------------
(* Code lengths: how many codes of each length, and which symbols.         *)

Lengths == {lens \in Seq(0 .. 15) : Len(lens) <= 288}

CountsOf(lens) == [l \in 0 .. 15 |->
  IF l = 0 THEN 0 ELSE Cardinality(OfLength(lens, Coded(lens), l))]

LEMMA CodedFinite ==
  ASSUME NEW lens \in Lengths
  PROVE  /\ Len(lens) \in Nat /\ Len(lens) <= 288
         /\ Coded(lens) \in SUBSET (0 .. Len(lens) - 1)
         /\ \A s \in Coded(lens) : s \in 0 .. 287 /\ lens[s + 1] \in 1 .. 15
         /\ IsFiniteSet(Coded(lens))
         /\ Cardinality(Coded(lens)) \in 0 .. 288
         /\ \A T \in SUBSET Coded(lens) : IsFiniteSet(T) /\ Cardinality(T) \in Nat
<1>1. lens \in Seq(0 .. 15) /\ Len(lens) \in Nat /\ Len(lens) <= 288
  BY DEF Lengths
<1>2. \A i \in 1 .. Len(lens) : lens[i] \in 0 .. 15
  BY <1>1, ElementOfSeq
<1>3. Coded(lens) \in SUBSET (0 .. Len(lens) - 1)
  BY DEF Coded
<1>4. ASSUME NEW s \in Coded(lens) PROVE s \in 0 .. 287 /\ lens[s + 1] \in 1 .. 15
  <2>1. s \in 0 .. Len(lens) - 1 /\ lens[s + 1] # 0
    BY DEF Coded
  <2>2. s + 1 \in 1 .. Len(lens) /\ s \in 0 .. 287
    BY <1>1, <2>1
  <2>3. lens[s + 1] \in 0 .. 15
    BY <1>2, <2>2
  <2>. QED  BY <2>1, <2>2, <2>3
<1>5. /\ IsFiniteSet(0 .. Len(lens) - 1)
      /\ Cardinality(0 .. Len(lens) - 1) <= 288
  <2>. DEFINE m == Len(lens) - 1
  <2>1. m \in Int /\ 0 \in Int /\ m <= 287
    BY <1>1
  <2>. HIDE DEF m
  <2>2. IsFiniteSet(0 .. m) /\ Cardinality(0 .. m) = IF 0 > m THEN 0 ELSE m - 0 + 1
    BY <2>1, FS_Interval
  <2>3. Cardinality(0 .. m) <= 288
    BY <2>1, <2>2
  <2>. QED  BY <2>2, <2>3 DEF m
<1>6. IsFiniteSet(Coded(lens)) /\ Cardinality(Coded(lens)) \in 0 .. 288
  <2>1. /\ IsFiniteSet(Coded(lens))
        /\ Cardinality(Coded(lens)) <= Cardinality(0 .. Len(lens) - 1)
    BY <1>3, <1>5, FS_Subset
  <2>2. Cardinality(Coded(lens)) \in Nat
    BY <2>1, FS_CardinalityType
  <2>3. Cardinality(0 .. Len(lens) - 1) \in Nat
    BY <1>5, FS_CardinalityType
  <2>4. \A a, b \in Nat : a <= b /\ b <= 288 => a \in 0 .. 288
    OBVIOUS
  <2>. QED  BY <1>5, <2>1, <2>2, <2>3, <2>4, Zenon
<1>7. \A T \in SUBSET Coded(lens) : IsFiniteSet(T) /\ Cardinality(T) \in Nat
  BY <1>6, FS_Subset, FS_CardinalityType
<1>. QED  BY <1>1, <1>3, <1>4, <1>6, <1>7

(* Every symbol with a code is counted at the length of its code, once. *)
LEMMA CodesCounted ==
  ASSUME NEW lens \in Lengths, NEW before \in [0 .. 15 -> Nat], before[0] = 0,
         \A i \in 1 .. 15 : before[i] = before[i - 1] + CountsOf(lens)[i]
  PROVE  before[15] = Cardinality(Coded(lens))
<1>. DEFINE C == Coded(lens)
            Upto(i) == {s \in C : lens[s + 1] <= i}
            S == {i \in 0 .. 15 : before[i] = Cardinality(Upto(i))}
<1>1. /\ \A s \in C : s \in 0 .. 287 /\ lens[s + 1] \in 1 .. 15
      /\ \A T \in SUBSET C : IsFiniteSet(T) /\ Cardinality(T) \in Nat
  BY ZenonT(30), CodedFinite
<1>. HIDE DEF C
<1>2. 0 \in S
  <2>1. Upto(0) = {}
    BY <1>1
  <2>. HIDE DEF Upto
  <2>. QED  BY <2>1, FS_EmptySet
<1>3. ASSUME NEW i \in 1 .. 15, i - 1 \in S PROVE i \in S
  <2>. DEFINE L == OfLength(lens, C, i)
              U == Upto(i - 1)
  <2>1. L \in SUBSET C /\ U \in SUBSET C
    BY DEF OfLength
  <2>2. Upto(i) = U \cup L /\ U \cap L = {}
    <3>1. \A s \in C : (lens[s + 1] <= i <=> lens[s + 1] <= i - 1 \/ lens[s + 1] = i)
                      /\ ~(lens[s + 1] <= i - 1 /\ lens[s + 1] = i)
      BY <1>1
    <3>. QED  BY <3>1 DEF OfLength
  <2>3. before[i - 1] = Cardinality(U) /\ i \in 0 .. 15
    BY SMTT(30), <1>3
  <2>4. CountsOf(lens)[i] = Cardinality(L)
    BY DEF CountsOf, C
  <2>. HIDE DEF Upto, U, L
  <2>5. IsFiniteSet(U) /\ IsFiniteSet(L) /\ Cardinality(U) \in Nat /\ Cardinality(L) \in Nat
    BY <1>1, <2>1
  <2>6. Cardinality(U \cup L) = Cardinality(U) + Cardinality(L)
    BY SMTT(30), ZenonT(30), <2>2, <2>5, FS_Union, FS_EmptySet
  <2>7. before[i] = Cardinality(U) + Cardinality(L)
    BY <2>3, <2>4
  <2>. QED  BY <2>2, <2>3, <2>6, <2>7
<1>4. 15 \in S
  <2>. 15 \in Nat /\ 15 \in 0 .. 15
    OBVIOUS
  <2>. HIDE DEF S
  <2>. QED  BY <1>2, <1>3, UpTo
<1>5. Upto(15) = C
  BY <1>1
<1>. QED  BY <1>4, <1>5 DEF C

(* The symbols of a tree with no code or more than one, in code order. *)
LEMMA SymbolsRight ==
  ASSUME NEW lens \in Lengths
  PROVE  LET symbols == FlattenSeq([l \in 1 .. 15 |->
                                      Upwards(OfLength(lens, Coded(lens), l))])
         IN  /\ symbols \in Seq(0 .. 288)
             /\ Len(symbols) = Cardinality(Coded(lens))
             /\ \E before \in [0 .. 15 -> Nat] :
                  /\ before[0] = 0 /\ before[15] = Len(symbols)
                  /\ \A i \in 1 .. 15 : before[i] = before[i - 1] + CountsOf(lens)[i]
<1>. DEFINE C == Coded(lens)
            q == [l \in 1 .. 15 |-> Upwards(OfLength(lens, C, l))]
<1>1. /\ \A s \in C : s \in 0 .. 287
      /\ \A T \in SUBSET C : Cardinality(T) \in Nat
  BY ZenonT(30), CodedFinite
<1>2. ASSUME NEW l \in 1 .. 15
      PROVE  /\ q[l] \in Seq(0 .. 288)
             /\ Len(q[l]) = CountsOf(lens)[l]
  <2>1. OfLength(lens, C, l) \in SUBSET (0 .. 288)
    <3>. HIDE DEF C
    <3>. QED  BY <1>1 DEF OfLength
  <2>2. 288 \in Nat
    OBVIOUS
  <2>3. /\ Upwards(OfLength(lens, C, l)) \in Seq(0 .. 288)
        /\ Len(Upwards(OfLength(lens, C, l))) = Cardinality(OfLength(lens, C, l))
    BY <2>1, <2>2, UpwardsRight
  <2>4. CountsOf(lens)[l] = Cardinality(OfLength(lens, C, l))
    BY DEF CountsOf
  <2>. QED  BY <2>3, <2>4
<1>3. q \in Seq(Seq(0 .. 288)) /\ Len(q) = 15
  <2>1. 15 \in Nat /\ q = [l \in 1 .. 15 |-> q[l]]
    OBVIOUS
  <2>. HIDE DEF q
  <2>. QED  BY <1>2, <2>1
<1>. DEFINE symbols == FlattenSeq(q)
<1>4. /\ symbols \in Seq(0 .. 288)
      /\ \E before \in [0 .. 15 -> Nat] :
           /\ before[0] = 0 /\ before[15] = Len(symbols)
           /\ \A i \in 1 .. 15 : before[i] = before[i - 1] + Len(q[i])
  <2>. DEFINE T == 0 .. 288
              n == 15
  <2>1. n \in Nat /\ n # 0 /\ q \in Seq(Seq(T)) /\ Len(q) = n
    BY <1>3
  <2>2. symbols = FlattenSeq(q)
    OBVIOUS
  <2>. HIDE DEF q, symbols, T, n
  <2>3. /\ symbols \in Seq(T)
        /\ \E before \in [0 .. n -> Nat] :
             /\ before[0] = 0 /\ before[n] = Len(symbols)
             /\ \A i \in 1 .. n : before[i] = before[i - 1] + Len(q[i])
    BY ONLY <2>1, <2>2, Joined
  <2>. QED  BY <2>3 DEF T, n
<1>. HIDE DEF symbols, q
<1>5. PICK before \in [0 .. 15 -> Nat] :
        /\ before[0] = 0 /\ before[15] = Len(symbols)
        /\ \A i \in 1 .. 15 : before[i] = before[i - 1] + CountsOf(lens)[i]
  BY ZenonT(30), <1>2, <1>4
<1>6. Len(symbols) = Cardinality(C)
  BY <1>5, CodesCounted
<1>. QED  BY <1>4, <1>5, <1>6 DEF symbols, q

LEMMA GoodNeeds ==
  ASSUME NEW t, t.counts \in [0 .. 15 -> Nat], t.counts[0] = 0,
         t.symbols \in Seq(0 .. 288),
         NEW left \in [0 .. 16 -> Int], NEW before \in [0 .. 15 -> Nat],
         left[0] = 1 /\ left[16] = 0,
         \A i \in 1 .. 16 : left[i] = 2 * (left[i - 1] - t.counts[i - 1]),
         before[0] = 0, before[15] <= Len(t.symbols),
         \A i \in 1 .. 15 : before[i] = before[i - 1] + t.counts[i]
  PROVE  GoodTree(t)
BY DEF GoodTree

(* A tree of one code, and the sibling it is given. *)
LEMMA OneCode ==
  ASSUME NEW t, NEW s \in 0 .. 287, t.symbols = <<s, s + 1>>,
         t.counts = [l \in 0 .. 15 |-> IF l = 1 THEN 2 ELSE 0]
  PROVE  GoodTree(t)
<1>. DEFINE left == [i \in 0 .. 16 |-> IF i = 0 THEN 1 ELSE IF i = 1 THEN 2 ELSE 0]
            before == [i \in 0 .. 15 |-> IF i = 0 THEN 0 ELSE 2]
<1>1. t.counts \in [0 .. 15 -> Nat] /\ t.counts[0] = 0
  OBVIOUS
<1>2. t.symbols \in Seq(0 .. 288) /\ Len(t.symbols) = 2
  <2>. s \in 0 .. 288 /\ s + 1 \in 0 .. 288
    OBVIOUS
  <2>. QED  OBVIOUS
<1>3. left \in [0 .. 16 -> Int] /\ before \in [0 .. 15 -> Nat]
  OBVIOUS
<1>4. left[0] = 1 /\ left[16] = 0 /\ before[0] = 0 /\ before[15] <= Len(t.symbols)
  BY <1>2
<1>5. \A i \in 1 .. 16 : left[i] = 2 * (left[i - 1] - t.counts[i - 1])
  OBVIOUS
<1>6. \A i \in 1 .. 15 : before[i] = before[i - 1] + t.counts[i]
  OBVIOUS
<1>. HIDE DEF left, before
<1>. QED  BY <1>1, <1>2, <1>3, <1>4, <1>5, <1>6, GoodNeeds

-----------------------------------------------------------------------------
(* tinf_build_tree and tinf_build_fixed_trees leave trees no walk leaves.  *)

(* What tinf_build_tree leaves, whatever the code lengths: a tree that no   *)
(* walk leaves, unless there is no code at all, which max_sym tells.        *)
TreeFor(t, lens) ==
  /\ t.maxSym \in -1 .. Len(lens) - 1
  /\ t.symbols \in Seq(0 .. 288) /\ Len(t.symbols) <= 288
  /\ t.maxSym # -1 => GoodTree(t)
  /\ t.ok /\ Coded(lens) # {} => t.maxSym # -1

LEMMA LargestCoded ==
  ASSUME NEW lens \in Lengths
  PROVE  LET m == Max({-1} \cup Coded(lens))
         IN  /\ m \in -1 .. Len(lens) - 1
             /\ m # -1 => m \in Coded(lens)
             /\ Coded(lens) # {} => m # -1
<1>. DEFINE C == Coded(lens)  M == {-1} \cup C
<1>1. /\ Len(lens) \in Nat /\ Len(lens) <= 288
      /\ C \in SUBSET (0 .. Len(lens) - 1)
      /\ \A s \in C : s \in 0 .. 287
  BY CodedFinite
<1>. HIDE DEF C
<1>2. M \in SUBSET (-1 .. 287) /\ M # {} /\ 287 \in Nat
  <2>. \A s \in C : s \in -1 .. 287
    BY <1>1
  <2>. QED  OBVIOUS
<1>3. Max(M) \in M /\ \A y \in M : Max(M) >= y
  <2>. HIDE DEF M
  <2>. QED  BY <1>2, GreatestNumber
<1>4. \A s \in C : s >= 0 /\ Max(M) >= s
  <2>1. \A s \in C : s \in M
    OBVIOUS
  <2>. HIDE DEF M
  <2>. QED  BY <1>1, <1>3, <2>1
<1>5. C # {} => Max(M) # -1
  <2>. DEFINE m == Max(M)
  <2>1. \A s \in C : s \in Nat /\ m >= s
    <3>. HIDE DEF M
    <3>1. \A s \in C : m >= s
      BY <1>4
    <3>2. \A s \in C : s \in Nat
      BY <1>1
    <3>. QED  BY <3>1, <3>2, Zenon
  <2>. HIDE DEF m
  <2>2. \A s \in C : m # -1
    BY <2>1
  <2>. QED  BY <2>2 DEF m
<1>6. Max(M) \in -1 .. Len(lens) - 1
  <2>. DEFINE m == Max(M)
  <2>1. m = -1 \/ m \in C
    BY <1>3
  <2>. HIDE DEF m
  <2>2. m \in -1 .. Len(lens) - 1
    <3>1. \A s \in 0 .. Len(lens) - 1 : s \in -1 .. Len(lens) - 1
      BY <1>1
    <3>2. -1 \in -1 .. Len(lens) - 1
      BY <1>1
    <3>. QED  BY <1>1, <2>1, <3>1, <3>2
  <2>. QED  BY <2>2 DEF m
<1>7. Max(M) # -1 => Max(M) \in C
  BY <1>3
<1>. QED  BY <1>5, <1>6, <1>7 DEF C

LEMMA NoTreeIsNone == ASSUME NEW lens \in Lengths PROVE TreeFor(NoTree, lens)
<1>1. Len(lens) \in Nat
  BY CodedFinite
<1>2. NoTree.maxSym = -1 /\ NoTree.symbols = <<>> /\ NoTree.ok = FALSE
  BY DEF NoTree
<1>3. -1 \in -1 .. Len(lens) - 1
  BY <1>1
<1>4. <<>> \in Seq(0 .. 288) /\ Len(<<>>) <= 288
  OBVIOUS
<1>. QED  BY <1>2, <1>3, <1>4 DEF TreeFor

LEMMA TreeBuilt ==
  ASSUME NEW lens \in Lengths
  PROVE  /\ TreeFor(BuildTree(lens), lens)
         /\ BuildTree(lens).ok \in BOOLEAN
<1>. DEFINE C == Coded(lens)
            codes == Cardinality(C)
            c == CountsOf(lens)
            m == Max({-1} \cup C)
            y == FlattenSeq([l \in 1 .. 15 |-> Upwards(OfLength(lens, C, l))])
<1>1. /\ \A s \in C : s \in 0 .. 287 /\ lens[s + 1] \in 1 .. 15
      /\ codes \in 0 .. 288 /\ IsFiniteSet(C)
      /\ \A T \in SUBSET C : IsFiniteSet(T) /\ Cardinality(T) \in Nat
  BY CodedFinite
<1>2. /\ m \in -1 .. Len(lens) - 1
      /\ m # -1 => m \in C
      /\ C # {} => m # -1
  BY LargestCoded
<1>3. /\ y \in Seq(0 .. 288)
      /\ Len(y) = codes
      /\ \E before \in [0 .. 15 -> Nat] :
           /\ before[0] = 0 /\ before[15] = Len(y)
           /\ \A i \in 1 .. 15 : before[i] = before[i - 1] + c[i]
  BY SymbolsRight
<1>4. c \in [0 .. 15 -> Nat] /\ c[0] = 0
  <2>1. \A l : OfLength(lens, C, l) \in SUBSET C
    BY DEF OfLength
  <2>. HIDE DEF C
  <2>2. \A l : Cardinality(OfLength(lens, C, l)) \in Nat
    BY <1>1, <2>1
  <2>. QED  BY <2>2 DEF CountsOf, C
<1>5. BuildTree(lens) =
        IF ~Complete(c, codes) THEN NoTree
        ELSE IF codes = 1
        THEN [ok |-> TRUE, counts |-> [c EXCEPT ![1] = 2],
              symbols |-> <<m, m + 1>>, maxSym |-> m]
        ELSE [ok |-> TRUE, counts |-> c, maxSym |-> m, symbols |-> y]
  BY DEF BuildTree, CountsOf
<1>. HIDE DEF C, codes, c, m, y
<1>6. CASE ~Complete(c, codes)
  <2>1. BuildTree(lens) = NoTree /\ NoTree.ok = FALSE
    BY <1>5, <1>6 DEF NoTree
  <2>. QED  BY <2>1, NoTreeIsNone
<1>7. CASE Complete(c, codes) /\ codes = 1
  <2>. DEFINE t == [ok |-> TRUE, counts |-> [c EXCEPT ![1] = 2],
                    symbols |-> <<m, m + 1>>, maxSym |-> m]
  <2>1. c[1] = 1
    BY <1>7 DEF Complete
  <2>2. C # {}
    BY <1>7, FS_EmptySet DEF codes
  <2>3. m \in C /\ m \in 0 .. 287
    BY <1>1, <1>2, <2>2
  <2>4. OfLength(lens, C, 1) = C
    <3>1. OfLength(lens, C, 1) \in SUBSET C
      BY DEF OfLength
    <3>2. c[1] = Cardinality(OfLength(lens, C, 1))
      BY DEF c, CountsOf, C
    <3>. QED  BY <1>1, <1>7, <2>1, <3>1, <3>2, FS_Subset DEF codes
  <2>5. \A l \in 2 .. 15 : c[l] = 0
    <3>1. \A l \in 2 .. 15 : OfLength(lens, C, l) = {}
      BY <2>4 DEF OfLength
    <3>2. \A l \in 2 .. 15 : c[l] = Cardinality(OfLength(lens, C, l))
      BY DEF c, CountsOf, C
    <3>. QED  BY <3>1, <3>2, FS_EmptySet
  <2>6. [c EXCEPT ![1] = 2] = [l \in 0 .. 15 |-> IF l = 1 THEN 2 ELSE 0]
    <3>1. \A l \in 0 .. 15 : l = 0 \/ l = 1 \/ l \in 2 .. 15
      OBVIOUS
    <3>. QED  BY <1>4, <2>5, <3>1
  <2>7. GoodTree(t)
    <3>1. t.symbols = <<m, m + 1>> /\ t.counts = [l \in 0 .. 15 |-> IF l = 1 THEN 2 ELSE 0]
      BY <2>6
    <3>. HIDE DEF t
    <3>. QED  BY <2>3, <3>1, OneCode
  <2>8. BuildTree(lens) = t
    BY <1>5, <1>7
  <2>9. t.maxSym = m /\ t.ok = TRUE /\ t.symbols = <<m, m + 1>>
    OBVIOUS
  <2>10. <<m, m + 1>> \in Seq(0 .. 288) /\ Len(<<m, m + 1>>) <= 288
    <3>1. m \in 0 .. 288 /\ m + 1 \in 0 .. 288
      BY <2>3
    <3>. QED  BY <3>1
  <2>11. m # -1
    BY <2>3
  <2>. HIDE DEF t
  <2>. QED  BY <1>2, <2>7, <2>8, <2>9, <2>10, <2>11 DEF TreeFor
<1>8. CASE Complete(c, codes) /\ codes # 1
  <2>. DEFINE t == [ok |-> TRUE, counts |-> c, maxSym |-> m, symbols |-> y]
  <2>1. BuildTree(lens) = t
    BY <1>5, <1>8
  <2>2. t.maxSym = m /\ t.ok = TRUE /\ t.symbols = y /\ t.counts = c
    OBVIOUS
  <2>. HIDE DEF t
  <2>3. m # -1 => GoodTree(t)
    <3>1. SUFFICES ASSUME m # -1 PROVE GoodTree(t)
      OBVIOUS
    <3>2. codes > 1
      <4>1. C # {}
        BY <1>2, <3>1
      <4>2. codes # 0
        BY <1>1, <4>1, FS_EmptySet DEF codes
      <4>. QED  BY <1>1, <1>8, <4>2
    <3>3. Available(c, 16) = 0
      BY <1>8, <3>2 DEF Complete
    <3>4. PICK left \in [0 .. 16 -> Int] :
            /\ left[0] = 1
            /\ \A i \in 1 .. 16 : left[i] = 2 * (left[i - 1] - c[i - 1])
            /\ \A i \in 0 .. 16 : Available(c, i) = left[i]
      BY <1>4, AvailableRight
    <3>5. left[16] = 0
      <4>. 16 \in 0 .. 16
        OBVIOUS
      <4>. QED  BY <3>3, <3>4
    <3>6. PICK before \in [0 .. 15 -> Nat] :
            /\ before[0] = 0 /\ before[15] = Len(y)
            /\ \A i \in 1 .. 15 : before[i] = before[i - 1] + c[i]
      BY <1>3
    <3>7. before[15] <= Len(y)
      BY <3>6
    <3>8. /\ t.counts \in [0 .. 15 -> Nat] /\ t.counts[0] = 0
          /\ t.symbols \in Seq(0 .. 288) /\ before[15] <= Len(t.symbols)
      BY <1>3, <1>4, <2>2, <3>7
    <3>9. /\ \A i \in 1 .. 16 : left[i] = 2 * (left[i - 1] - t.counts[i - 1])
          /\ \A i \in 1 .. 15 : before[i] = before[i - 1] + t.counts[i]
      BY <2>2, <3>4, <3>6
    <3>. QED  BY <3>4, <3>5, <3>6, <3>8, <3>9, GoodNeeds
  <2>4. Len(y) <= 288
    BY <1>1, <1>3
  <2>. QED  BY <1>2, <1>3, <2>1, <2>2, <2>3, <2>4 DEF TreeFor, C
<1>. QED  BY <1>6, <1>7, <1>8

LEMMA FourJoined ==
  ASSUME NEW T, NEW a \in Seq(T), NEW b \in Seq(T), NEW c \in Seq(T), NEW e \in Seq(T)
  PROVE  /\ a \o b \o c \o e \in Seq(T)
         /\ Len(a \o b \o c \o e) = Len(a) + Len(b) + Len(c) + Len(e)
<1>1. a \o b \in Seq(T) /\ Len(a \o b) = Len(a) + Len(b)
  BY ConcatProperties
<1>2. (a \o b) \o c \in Seq(T) /\ Len((a \o b) \o c) = Len(a \o b) + Len(c)
  BY <1>1, ConcatProperties
<1>3. ((a \o b) \o c) \o e \in Seq(T)
      /\ Len(((a \o b) \o c) \o e) = Len((a \o b) \o c) + Len(e)
  BY <1>2, ConcatProperties
<1>. QED  BY <1>1, <1>2, <1>3

(* The tables that are filled in by hand. *)
LEMMA FixedTreesGood ==
  /\ GoodTree(FixedLtree) /\ FixedLtree.maxSym = 285 /\ Len(FixedLtree.symbols) = 288
  /\ GoodTree(FixedDtree) /\ FixedDtree.maxSym = 29 /\ Len(FixedDtree.symbols) = 32
<1>1. GoodTree(FixedDtree) /\ Len(FixedDtree.symbols) = 32
  <2>. DEFINE left == [i \in 0 .. 16 |-> CASE i = 0 -> 1 [] i = 1 -> 2 [] i = 2 -> 4
                         [] i = 3 -> 8 [] i = 4 -> 16 [] i = 5 -> 32 [] OTHER -> 0]
              before == [i \in 0 .. 15 |-> IF i < 5 THEN 0 ELSE 32]
              c == FixedDtree.counts
              y == FixedDtree.symbols
  <2>1. c = [l \in 0 .. 15 |-> IF l = 5 THEN 32 ELSE 0]
    BY DEF FixedDtree
  <2>2. y = [i \in 1 .. 32 |-> i - 1]
    BY DEF FixedDtree
  <2>. HIDE DEF c, y
  <2>3. c \in [0 .. 15 -> Nat] /\ c[0] = 0
    BY <2>1
  <2>4. y \in Seq(0 .. 288) /\ Len(y) = 32
    <3>. \A i \in 1 .. 32 : i - 1 \in 0 .. 288
      OBVIOUS
    <3>. QED  BY <2>2
  <2>5. left \in [0 .. 16 -> Int] /\ before \in [0 .. 15 -> Nat]
    OBVIOUS
  <2>6. left[0] = 1 /\ left[16] = 0 /\ before[0] = 0 /\ before[15] <= Len(y)
    BY <2>4
  <2>7. \A i \in 1 .. 16 : left[i] = 2 * (left[i - 1] - c[i - 1])
    BY <2>1
  <2>8. \A i \in 1 .. 15 : before[i] = before[i - 1] + c[i]
    BY <2>1
  <2>. HIDE DEF left, before
  <2>. QED  BY <2>3, <2>4, <2>5, <2>6, <2>7, <2>8, GoodNeeds DEF c, y
<1>2. GoodTree(FixedLtree) /\ Len(FixedLtree.symbols) = 288
  <2>. DEFINE left == [i \in 0 .. 16 |-> CASE i = 0 -> 1 [] i = 1 -> 2 [] i = 2 -> 4
                         [] i = 3 -> 8 [] i = 4 -> 16 [] i = 5 -> 32 [] i = 6 -> 64
                         [] i = 7 -> 128 [] i = 8 -> 208 [] i = 9 -> 112 [] OTHER -> 0]
              before == [i \in 0 .. 15 |-> CASE i < 7 -> 0 [] i = 7 -> 24
                           [] i = 8 -> 176 [] OTHER -> 288]
              c == FixedLtree.counts
              y == FixedLtree.symbols
              y1 == [i \in 1 .. 24 |-> 255 + i]
              y2 == [i \in 1 .. 144 |-> i - 1]
              y3 == [i \in 1 .. 8 |-> 279 + i]
              y4 == [i \in 1 .. 112 |-> 143 + i]
  <2>1. c = [l \in 0 .. 15 |-> CASE l = 7 -> 24 [] l = 8 -> 152
                                 [] l = 9 -> 112 [] OTHER -> 0]
    BY DEF FixedLtree
  <2>2. y = y1 \o y2 \o y3 \o y4
    BY DEF FixedLtree
  <2>a. y1 \in Seq(0 .. 288) /\ Len(y1) = 24
    <3>. \A i \in 1 .. 24 : 255 + i \in 0 .. 288
      OBVIOUS
    <3>. QED  OBVIOUS
  <2>b. y2 \in Seq(0 .. 288) /\ Len(y2) = 144
    <3>. \A i \in 1 .. 144 : i - 1 \in 0 .. 288
      OBVIOUS
    <3>. QED  OBVIOUS
  <2>c. y3 \in Seq(0 .. 288) /\ Len(y3) = 8
    <3>. \A i \in 1 .. 8 : 279 + i \in 0 .. 288
      OBVIOUS
    <3>. QED  OBVIOUS
  <2>d. y4 \in Seq(0 .. 288) /\ Len(y4) = 112
    <3>. \A i \in 1 .. 112 : 143 + i \in 0 .. 288
      OBVIOUS
    <3>. QED  OBVIOUS
  <2>. HIDE DEF c, y, y1, y2, y3, y4
  <2>3. c \in [0 .. 15 -> Nat] /\ c[0] = 0
    BY <2>1
  <2>4. y \in Seq(0 .. 288) /\ Len(y) = 288
    <3>1. /\ y1 \o y2 \o y3 \o y4 \in Seq(0 .. 288)
          /\ Len(y1 \o y2 \o y3 \o y4) = Len(y1) + Len(y2) + Len(y3) + Len(y4)
      <4>. DEFINE T == 0 .. 288
      <4>1. y1 \in Seq(T) /\ y2 \in Seq(T) /\ y3 \in Seq(T) /\ y4 \in Seq(T)
        BY <2>a, <2>b, <2>c, <2>d
      <4>. HIDE DEF T
      <4>2. /\ y1 \o y2 \o y3 \o y4 \in Seq(T)
            /\ Len(y1 \o y2 \o y3 \o y4) = Len(y1) + Len(y2) + Len(y3) + Len(y4)
        BY <4>1, FourJoined
      <4>. QED  BY <4>2 DEF T
    <3>2. Len(y1) + Len(y2) + Len(y3) + Len(y4) = 288
      BY <2>a, <2>b, <2>c, <2>d
    <3>. QED  BY <2>2, <3>1, <3>2
  <2>5. left \in [0 .. 16 -> Int] /\ before \in [0 .. 15 -> Nat]
    OBVIOUS
  <2>6. left[0] = 1 /\ left[16] = 0 /\ before[0] = 0 /\ before[15] <= Len(y)
    BY <2>4
  <2>7. \A i \in 1 .. 16 : left[i] = 2 * (left[i - 1] - c[i - 1])
    BY <2>1
  <2>8. \A i \in 1 .. 15 : before[i] = before[i - 1] + c[i]
    BY <2>1
  <2>. HIDE DEF left, before
  <2>9. GoodTree(FixedLtree)
    <3>. DEFINE t == FixedLtree
    <3>1. c = t.counts /\ y = t.symbols
      BY DEF c, y
    <3>. HIDE DEF t
    <3>2. /\ t.counts \in [0 .. 15 -> Nat] /\ t.counts[0] = 0
          /\ t.symbols \in Seq(0 .. 288) /\ before[15] <= Len(t.symbols)
          /\ \A i \in 1 .. 16 : left[i] = 2 * (left[i - 1] - t.counts[i - 1])
          /\ \A i \in 1 .. 15 : before[i] = before[i - 1] + t.counts[i]
      BY <2>3, <2>4, <2>6, <2>7, <2>8, <3>1, Zenon
    <3>3. GoodTree(t)
      BY <2>5, <2>6, <3>2, GoodNeeds, Zenon
    <3>. QED  BY <3>3 DEF t
  <2>. QED  BY <2>4, <2>9 DEF y
<1>3. FixedLtree.maxSym = 285 /\ FixedDtree.maxSym = 29
  BY DEF FixedLtree, FixedDtree
<1>. QED  BY <1>1, <1>2, <1>3

-----------------------------------------------------------------------------
(* The inductive invariant, and what is common to all steps.               *)

(* What the phases rely on, one part for each group of variables. *)
DataInv ==
  /\ src \in Seq(Byte) /\ dstSize \in Nat
  /\ destLen \in Nat /\ destLen <= dstSize
  /\ start \in Nat /\ start <= Len(src)

ReaderInv ==
  /\ sourceEnd \in Nat /\ sourceEnd <= Len(src)
  /\ d \in Reader
  /\ bfinal \in BOOLEAN

OutInv == out \in Seq(Byte) /\ Len(out) <= destLen

TableFits(t) == t.maxSym \in -1 .. 287 /\ Len(t.symbols) <= 288

TreeInv ==
  /\ hlit \in 0 .. 286 /\ hdist \in 0 .. 30
  /\ lengths \in Seq(0 .. 15) /\ Len(lengths) <= hlit + hdist
  /\ TableFits(lt) /\ TableFits(dt)

MatchInv == length \in 0 .. MaxLength /\ offs \in 0 .. MaxDistance

ReturnInv ==
  /\ ret \in Errors \cup {"RUNNING", "OK"} /\ outSize \in Nat
  /\ pc # "returned" => ret = "RUNNING"

CallPhase == pc = "call" => out = <<>>

HeaderPhase == pc = "extra" => start = 10 /\ Len(src) >= 18

LengthsPhase ==
  pc = "lengths" => GoodTree(lt) /\ lt.maxSym <= 18 /\ hlit >= 257

SymbolPhase ==
  pc \in {"symbol", "distance", "copy"} =>
    GoodTree(lt) /\ (dt.maxSym # -1 => GoodTree(dt))

DistancePhase == pc = "distance" => dt.maxSym # -1

CopyPhase == pc = "copy" => offs \in 1 .. Len(out) /\ length <= Room

Inv ==
  /\ DataInv /\ ReaderInv /\ OutInv /\ TreeInv /\ MatchInv /\ ReturnInv
  /\ CallPhase /\ HeaderPhase /\ LengthsPhase /\ SymbolPhase /\ DistancePhase
  /\ CopyPhase

(* The invariant says all that MemorySafe says. *)
LEMMA Safe == Inv => MemorySafe
<1>. SUFFICES ASSUME Inv PROVE MemorySafe
  OBVIOUS
<1>. USE DEF Inv
<1>1. ByteLoaded
  BY DEF ReaderInv, DataInv, ByteLoaded
<1>2. d.source <= sourceEnd /\ d.bitcount \in 0 .. 32
      /\ d.tag \in 0 .. Pow2[d.bitcount] - 1 /\ d.overflow \in BOOLEAN
  <2>1. /\ d.source \in Nat /\ d.tag \in Nat /\ d.bitcount \in 0 .. 7
        /\ d.overflow \in BOOLEAN /\ d.source <= sourceEnd /\ d.tag < Pow2[d.bitcount]
    BY DEF ReaderInv, Reader
  <2>2. d.bitcount \in 0 .. 32
    BY <2>1
  <2>3. Pow2[d.bitcount] \in Nat
    BY <2>2, Powers
  <2>. QED  BY <2>1, <2>2, <2>3
<1>3. TypeOK
  <2>1. src \in Seq(Byte) /\ out \in Seq(Byte)
    BY DEF DataInv, OutInv
  <2>2. {dstSize, destLen, start, sourceEnd, outSize} \subseteq Nat
    BY DEF DataInv, ReaderInv, ReturnInv
  <2>3. /\ hlit \in 0 .. 286 /\ hdist \in 0 .. 30
        /\ lengths \in Seq(0 .. 15) /\ Len(lengths) <= hlit + hdist
    BY DEF TreeInv
  <2>4. \A t \in {lt, dt} : t.maxSym \in -1 .. 287 /\ Len(t.symbols) <= 288
    BY DEF TreeInv, TableFits
  <2>5. bfinal \in BOOLEAN /\ length \in 0 .. MaxLength /\ offs \in 0 .. MaxDistance
        /\ ret \in Errors \cup {"RUNNING", "OK"}
    <3>1. bfinal \in BOOLEAN
      BY DEF ReaderInv
    <3>2. length \in 0 .. MaxLength /\ offs \in 0 .. MaxDistance
      BY DEF MatchInv
    <3>3. ret \in Errors \cup {"RUNNING", "OK"}
      BY DEF ReturnInv
    <3>. HIDE DEF Inv
    <3>. QED  BY <3>1, <3>2, <3>3, Zenon
  <2>. HIDE DEF Inv
  <2>. QED  BY <1>2, <2>1, <2>2, <2>3, <2>4, <2>5, Zenon DEF TypeOK
<1>4. WalkStays
  <2>1. d \in Reader
    BY DEF ReaderInv
  <2>2. ASSUME NEW t, GoodTree(t) PROVE DecodeSymbol(d, t).sym # Lost
    <3>1. DecodeSymbol(d, t).sym \in 0 .. 288
      BY <1>1, <2>1, <2>2, SymbolFound
    <3>. HIDE DEF Inv
    <3>. QED  BY <3>1 DEF Lost
  <2>3. /\ pc = "lengths" => GoodTree(lt)
        /\ pc = "symbol" => GoodTree(lt)
        /\ pc = "distance" => GoodTree(dt)
    BY DEF LengthsPhase, SymbolPhase, DistancePhase
  <2>. HIDE DEF Inv
  <2>. QED  BY <2>2, <2>3 DEF WalkStays
<1>5. Len(out) <= destLen /\ Len(out) <= dstSize
  <2>1. Len(out) \in Nat /\ Len(out) <= destLen /\ destLen \in Nat /\ dstSize \in Nat
        /\ destLen <= dstSize
    BY DEF OutInv, DataInv
  <2>. HIDE DEF Inv
  <2>. QED  BY <2>1
<1>6. start <= Len(src) /\ sourceEnd <= Len(src)
      /\ (pc = "copy" => offs \in 1 .. Len(out) /\ length <= Room)
  BY DEF DataInv, ReaderInv, CopyPhase
<1>. HIDE DEF Inv
<1>. QED  BY <1>2, <1>3, <1>4, <1>5, <1>6 DEF MemorySafe

LEMMA NoTreeFits == TableFits(NoTree)
<1>1. NoTree.maxSym = -1 /\ NoTree.symbols = <<>>
  BY DEF NoTree
<1>. QED  BY <1>1 DEF TableFits

LEMMA Beginning == Init => Inv
<1>. SUFFICES ASSUME NEW s \in Inputs, NEW size \in DstSizes, InitWith(s, size) PROVE Inv
  BY DEF Init
<1>. USE DEF InitWith
<1>1. DataInv /\ OutInv
  <2>1. s \in Seq(Byte) /\ size \in Nat
    BY GzipAssumption
  <2>2. Len(s) \in Nat /\ <<>> \in Seq(Byte) /\ Len(<<>>) = 0
    BY <2>1, EmptySeq
  <2>. QED  BY <2>1, <2>2 DEF DataInv, OutInv
<1>2. ReaderInv
  <2>1. d.source = 0 /\ d.tag = 0 /\ d.bitcount = 0 /\ d.overflow = FALSE /\ Pow2[0] = 1
        /\ sourceEnd = 0
    BY Powers
  <2>2. d \in Reader
    <3>1. d \in [source : Nat, tag : Nat, bitcount : 0 .. 7, overflow : BOOLEAN]
      OBVIOUS
    <3>. QED  BY <2>1, <3>1 DEF Reader
  <2>. QED  BY <1>1, <2>1, <2>2 DEF ReaderInv, DataInv
<1>3. TreeInv
  <2>1. <<>> \in Seq(0 .. 15) /\ Len(<<>>) = 0
    OBVIOUS
  <2>. QED  BY <2>1, NoTreeFits DEF TreeInv
<1>5. MatchInv
  BY DEF MatchInv, MaxLength, MaxDistance
<1>4. ReturnInv /\ CallPhase /\ HeaderPhase /\ LengthsPhase /\ SymbolPhase
      /\ DistancePhase /\ CopyPhase
  BY DEF ReturnInv, CallPhase, HeaderPhase, LengthsPhase, SymbolPhase,
         DistancePhase, CopyPhase
<1>. QED  BY <1>1, <1>2, <1>3, <1>4, <1>5 DEF Inv

(* What an action that leaves a part alone need not show. *)
LEMMA SameReader == ASSUME UNCHANGED sourceEnd PROVE Reader' = Reader
BY DEF Reader

LEMMA ReaderFrame ==
  ASSUME ReaderInv, UNCHANGED <<src, sourceEnd, d, bfinal>> PROVE ReaderInv'
BY SameReader DEF ReaderInv

LEMMA TreeFrame ==
  ASSUME TreeInv, UNCHANGED <<treeVars, lt, dt>> PROVE TreeInv'
BY DEF TreeInv, treeVars, TableFits

LEMMA DataFrame == ASSUME DataInv, UNCHANGED <<containerVars, start>> PROVE DataInv'
BY DEF DataInv, containerVars

LEMMA MatchFrame == ASSUME MatchInv, UNCHANGED matchVars PROVE MatchInv'
<1>1. length' = length /\ offs' = offs
  BY DEF matchVars
<1>. QED  BY <1>1 DEF MatchInv

LEMMA RunningFrame ==
  ASSUME ReturnInv, pc # "returned", UNCHANGED <<ret, outSize>> PROVE ReturnInv'
BY DEF ReturnInv

LEMMA OutFrame == ASSUME OutInv, UNCHANGED <<destLen, out>> PROVE OutInv'
BY DEF OutInv

(* The phases in which the container is at work, and what they ask for. *)
LEMMA ContainerPhase ==
  ASSUME pc' \in {"header", "name", "comment", "hcrc", "trailer", "block", "error",
                  "returned"}
  PROVE  /\ CallPhase' /\ HeaderPhase' /\ LengthsPhase' /\ SymbolPhase'
         /\ DistancePhase' /\ CopyPhase'
BY DEF CallPhase, HeaderPhase, LengthsPhase, SymbolPhase, DistancePhase, CopyPhase

LEMMA ReturnKeeps ==
  ASSUME Inv, NEW e \in Errors \cup {"OK"}, pc' = "returned", ret' = e,
         outSize' \in Nat, UNCHANGED <<containerVars, start, blockVars, out>>
  PROVE  Inv'
<1>1. DataInv' /\ ReaderInv' /\ OutInv' /\ TreeInv'
  BY DataFrame, ReaderFrame, OutFrame, TreeFrame DEF Inv, containerVars, blockVars
<1>2. MatchInv'
  BY MatchFrame DEF Inv, blockVars
<1>3. ReturnInv'
  BY DEF ReturnInv
<1>. QED  BY <1>1, <1>2, <1>3, ContainerPhase DEF Inv

LEMMA AdvanceKeeps ==
  ASSUME Inv, NEW to \in Nat, to <= Len(src), NEW next, Advance(to, next),
         next \in {"name", "comment", "hcrc", "trailer"} \/
         (next = "extra" /\ to = 10 /\ Len(src) >= 18),
         pc # "returned"
  PROVE  Inv'
<1>. USE DEF Advance
<1>1. DataInv'
  BY DEF Inv, DataInv, containerVars
<1>2. ReaderInv' /\ OutInv' /\ TreeInv'
  BY ReaderFrame, OutFrame, TreeFrame DEF Inv, containerVars, blockVars
<1>3. MatchInv' /\ ReturnInv'
  <2>1. MatchInv'
    BY MatchFrame DEF Inv, blockVars
  <2>. QED  BY <2>1, RunningFrame DEF Inv
<1>4. CASE next \in {"name", "comment", "hcrc", "trailer"}
  <2>. pc' \in {"header", "name", "comment", "hcrc", "trailer", "block", "error",
                "returned"}
    BY <1>4
  <2>. QED  BY <1>1, <1>2, <1>3, ContainerPhase DEF Inv
<1>5. CASE next = "extra" /\ to = 10 /\ Len(src) >= 18
  <2>1. pc' = "extra" /\ start' = 10 /\ src' = src
    BY <1>5 DEF containerVars
  <2>2. /\ CallPhase' /\ HeaderPhase' /\ LengthsPhase' /\ SymbolPhase'
        /\ DistancePhase' /\ CopyPhase'
    BY <1>5, <2>1 DEF CallPhase, HeaderPhase, LengthsPhase, SymbolPhase, DistancePhase,
                      CopyPhase
  <2>. QED  BY <1>1, <1>2, <1>3, <2>2 DEF Inv
<1>. QED  BY <1>4, <1>5

-----------------------------------------------------------------------------
(* The steps of the container, tinf_gzip_uncompress.                       *)

LEMMA Le16Right ==
  ASSUME src \in Seq(Byte), NEW i \in Nat, i + 1 < Len(src)
  PROVE  Le16(i) \in Nat
<1>1. Len(src) \in Nat
  OBVIOUS
<1>2. i < Len(src) /\ i + 1 \in Nat
  BY <1>1
<1>3. At(i) \in Nat /\ At(i + 1) \in Nat
  BY <1>2, AtIsByte
<1>4. \A a, b \in Nat : a + 256 * b \in Nat
  OBVIOUS
<1>. QED  BY <1>3, <1>4 DEF Le16

LEMMA CallKeeps == ASSUME Inv, Call PROVE Inv'
<1>0. /\ pc = "call" /\ out = <<>> /\ UintMax \in Nat
      /\ Len(src) \in Nat
  BY GzipAssumption DEF Inv, CallPhase, Call, DataInv
<1>1. CASE Return("INVALID")
  <2>1. outSize' \in Nat /\ "INVALID" \in Errors \cup {"OK"}
    BY <1>1 DEF Return, Inv, ReturnInv, Errors
  <2>. QED  BY <1>1, <2>1, ReturnKeeps DEF Return
<1>2. CASE /\ destLen' = IF dstSize > UintMax THEN UintMax ELSE dstSize
           /\ pc' = "header"
           /\ UNCHANGED <<src, dstSize, start, blockVars, out, ret, outSize>>
  <2>1. DataInv'
    BY <1>0, <1>2 DEF Inv, DataInv
  <2>2. ReaderInv' /\ TreeInv' /\ MatchInv' /\ ReturnInv'
    BY <1>0, <1>2, ReaderFrame, TreeFrame, MatchFrame, RunningFrame DEF Inv, blockVars
  <2>3. OutInv'
    <3>1. out' = <<>> /\ destLen' \in Nat
      BY <1>0, <1>2, <2>1 DEF DataInv
    <3>2. <<>> \in Seq(Byte) /\ Len(<<>>) = 0
      BY EmptySeq
    <3>. QED  BY <3>1, <3>2 DEF OutInv
  <2>4. pc' \in {"header", "name", "comment", "hcrc", "trailer", "block", "error",
                 "returned"}
    BY <1>2
  <2>. QED  BY <2>1, <2>2, <2>3, <2>4, ContainerPhase DEF Inv
<1>. QED  BY <1>1, <1>2 DEF Call

LEMMA RefusalKeeps == ASSUME Inv, NEW e \in Errors, Return(e) PROVE Inv'
<1>1. outSize' \in Nat
  BY DEF Return, Inv, ReturnInv
<1>. QED  BY <1>1, ReturnKeeps DEF Return

LEMMA Invalid == "INVALID" \in Errors /\ "NOSPACE" \in Errors
BY DEF Errors

LEMMA CheckHeaderKeeps == ASSUME Inv, CheckHeader PROVE Inv'
<1>1. CASE Return("INVALID")
  BY <1>1, Invalid, RefusalKeeps
<1>2. CASE HeaderValid /\ Advance(10, "extra")
  <2>1. Len(src) >= 18 /\ 10 \in Nat /\ Len(src) \in Nat /\ pc = "header"
    BY <1>2 DEF HeaderValid, Inv, DataInv, CheckHeader
  <2>2. 10 <= Len(src)
    BY <2>1
  <2>. QED  BY <1>2, <2>1, <2>2, AdvanceKeeps
<1>. QED  BY <1>1, <1>2 DEF CheckHeader

LEMMA SkipExtraKeeps == ASSUME Inv, SkipExtra PROVE Inv'
<1>0. /\ pc = "extra" /\ start = 10 /\ Len(src) >= 18 /\ Len(src) \in Nat
      /\ start \in Nat /\ start <= Len(src) /\ src \in Seq(Byte)
  BY DEF SkipExtra, Inv, HeaderPhase, DataInv
<1>1. CASE Return("INVALID")
  BY <1>1, Invalid, RefusalKeeps
<1>2. CASE Advance(start, "name")
  BY <1>0, <1>2, AdvanceKeeps
<1>3. CASE ExtraFits /\ Advance(start + Le16(start) + 2, "name")
  <2>1. Le16(start) \in Nat
    BY <1>0, Le16Right
  <2>2. Le16(start) <= Len(src) - 12
    BY <1>3 DEF ExtraFits
  <2>. DEFINE to == start + Le16(start) + 2
  <2>3. to \in Nat /\ to <= Len(src)
    BY <1>0, <2>1, <2>2
  <2>4. Advance(to, "name")
    BY <1>3
  <2>. HIDE DEF to
  <2>. QED  BY <1>0, <2>3, <2>4, AdvanceKeeps
<1>. QED  BY <1>1, <1>2, <1>3 DEF SkipExtra

LEMMA SkipStringKeeps ==
  ASSUME Inv, NEW phase, NEW flag, NEW next \in {"comment", "hcrc"},
         SkipString(phase, flag, next), phase # "returned"
  PROVE  Inv'
<1>0. /\ pc # "returned" /\ Len(src) \in Nat /\ start \in Nat /\ start <= Len(src)
  BY DEF SkipString, Inv, DataInv
<1>1. CASE Return("INVALID")
  BY <1>1, Invalid, RefusalKeeps
<1>2. CASE Advance(start, next)
  BY <1>0, <1>2, AdvanceKeeps
<1>3. CASE StringEnds # {} /\ Advance(Min(StringEnds) + 1, next)
  <2>1. StringEnds \subseteq Nat
    BY <1>0 DEF StringEnds
  <2>2. Min(StringEnds) \in StringEnds
    BY <1>3, <2>1, LeastNumber DEF Min
  <2>. DEFINE to == Min(StringEnds) + 1
  <2>3. to \in Nat /\ to <= Len(src)
    <3>1. Min(StringEnds) \in start .. Len(src) - 1
      BY <2>2 DEF StringEnds
    <3>. QED  BY <1>0, <3>1
  <2>4. Advance(to, next)
    BY <1>3
  <2>. HIDE DEF to
  <2>. QED  BY <1>0, <2>3, <2>4, AdvanceKeeps
<1>. QED  BY <1>1, <1>2, <1>3 DEF SkipString

LEMMA CheckHeaderCrcKeeps == ASSUME Inv, CheckHeaderCrc PROVE Inv'
<1>0. /\ pc = "hcrc" /\ Len(src) \in Nat /\ start \in Nat /\ start <= Len(src)
  BY DEF CheckHeaderCrc, Inv, DataInv
<1>1. CASE Return("INVALID")
  BY <1>1, Invalid, RefusalKeeps
<1>2. CASE Advance(start, "trailer")
  BY <1>0, <1>2, AdvanceKeeps
<1>3. CASE HeaderCrcRight /\ Advance(start + 2, "trailer")
  <2>1. start + 2 \in Nat /\ start + 2 <= Len(src)
    BY <1>0, <1>3 DEF HeaderCrcRight
  <2>. QED  BY <1>0, <1>3, <2>1, AdvanceKeeps
<1>. QED  BY <1>1, <1>2, <1>3 DEF CheckHeaderCrc

LEMMA ReadTrailerKeeps == ASSUME Inv, ReadTrailer PROVE Inv'
<1>0. /\ pc = "trailer" /\ Len(src) \in Nat /\ start \in Nat /\ start <= Len(src)
  BY DEF ReadTrailer, Inv, DataInv
<1>1. CASE \E e \in Errors : Return(e)
  BY <1>1, RefusalKeeps
<1>2. CASE /\ start <= Trailer
           /\ Start(start, Trailer)
           /\ UNCHANGED <<containerVars, start, bfinal, treeVars, lt, dt,
                          matchVars, out, ret, outSize>>
  <2>1. DataInv' /\ OutInv' /\ TreeInv' /\ MatchInv' /\ ReturnInv'
    BY <1>0, <1>2, DataFrame, OutFrame, TreeFrame, MatchFrame, RunningFrame
    DEF Inv, containerVars
  <2>2. /\ sourceEnd' = Len(src) - 8 /\ start <= Len(src) - 8 /\ src' = src
        /\ d' = [source |-> start, tag |-> 0, bitcount |-> 0, overflow |-> FALSE]
        /\ bfinal' = bfinal /\ pc' = "block"
    BY <1>2 DEF Trailer, Start, containerVars
  <2>3. sourceEnd' \in Nat /\ sourceEnd' <= Len(src') /\ start <= sourceEnd'
    BY <1>0, <2>2
  <2>4. d' \in Reader'
    <3>1. d' \in [source : Nat, tag : Nat, bitcount : 0 .. 7, overflow : BOOLEAN]
      BY <1>0, <2>2
    <3>2. d'.source <= sourceEnd' /\ d'.tag < Pow2[d'.bitcount]
      BY <2>2, <2>3, Powers
    <3>. QED  BY <3>1, <3>2 DEF Reader
  <2>5. ReaderInv'
    <3>1. bfinal' \in BOOLEAN
      BY <2>2 DEF Inv, ReaderInv
    <3>. QED  BY <2>3, <2>4, <3>1 DEF ReaderInv
  <2>6. pc' \in {"header", "name", "comment", "hcrc", "trailer", "block", "error",
                 "returned"}
    BY <2>2
  <2>. QED  BY <2>1, <2>5, <2>6, ContainerPhase DEF Inv
<1>. QED  BY <1>1, <1>2, Invalid DEF ReadTrailer

LEMMA InflateFailedKeeps == ASSUME Inv, InflateFailed PROVE Inv'
BY Invalid, RefusalKeeps DEF InflateFailed

LEMMA FinishKeeps == ASSUME Inv, Finish PROVE Inv'
<1>1. CASE Return("INVALID")
  BY <1>1, Invalid, RefusalKeeps
<1>2. CASE /\ outSize' = Len(out) /\ ret' = "OK" /\ pc' = "returned"
           /\ UNCHANGED <<containerVars, start, blockVars, out>>
  <2>1. outSize' \in Nat /\ "OK" \in Errors \cup {"OK"}
    BY <1>2 DEF Inv, OutInv
  <2>. QED  BY <1>2, <2>1, ReturnKeeps
<1>. QED  BY <1>1, <1>2 DEF Finish

LEMMA ContainerKeeps == ASSUME Inv, Container PROVE Inv'
<1>1. CASE SkipName
  BY <1>1, SkipStringKeeps DEF SkipName
<1>2. CASE SkipComment
  BY <1>2, SkipStringKeeps DEF SkipComment
<1>. QED
  BY <1>1, <1>2, CallKeeps, CheckHeaderKeeps, SkipExtraKeeps, CheckHeaderCrcKeeps,
     ReadTrailerKeeps, InflateFailedKeeps, FinishKeeps DEF Container

-----------------------------------------------------------------------------
(* The steps of a block up to its trees.                                   *)

LEMMA PartOfSeq ==
  ASSUME NEW S, NEW s \in Seq(S), NEW m \in Nat, NEW n \in Nat,
         m >= 1, n <= Len(s), n >= m - 1
  PROVE  /\ SubSeq(s, m, n) \in Seq(S)
         /\ Len(SubSeq(s, m, n)) = n - m + 1
         /\ \A i \in 1 .. n - m + 1 : SubSeq(s, m, n)[i] = s[m + i - 1]
<1>1. \A i \in m .. n : s[i] \in S
  <2>. SUFFICES ASSUME NEW i \in m .. n PROVE s[i] \in S
    OBVIOUS
  <2>1. Len(s) \in Nat
    OBVIOUS
  <2>2. i \in 1 .. Len(s)
    BY <2>1
  <2>. QED  BY <2>2, ElementOfSeq
<1>2. m \in Int /\ n \in Int
  OBVIOUS
<1>3. /\ SubSeq(s, m, n) \in Seq(S)
      /\ Len(SubSeq(s, m, n)) = IF m <= n THEN n - m + 1 ELSE 0
      /\ \A i \in 1 .. n - m + 1 : SubSeq(s, m, n)[i] = s[m + i - 1]
  BY <1>1, <1>2, SubSeqProperties
<1>4. (IF m <= n THEN n - m + 1 ELSE 0) = n - m + 1
  OBVIOUS
<1>. QED  BY <1>3, <1>4

LEMMA QuietPhase ==
  ASSUME pc' \notin {"call", "extra", "lengths", "symbol", "distance", "copy"}
  PROVE  /\ CallPhase' /\ HeaderPhase' /\ LengthsPhase' /\ SymbolPhase'
         /\ DistancePhase' /\ CopyPhase'
BY DEF CallPhase, HeaderPhase, LengthsPhase, SymbolPhase, DistancePhase, CopyPhase

(* What every step of the inflater leaves to the container. *)
Outside == UNCHANGED <<containerVars, start, ret, outSize>>

LEMMA OutsideKept ==
  ASSUME Inv, Outside, pc # "returned"
  PROVE  /\ DataInv' /\ ReturnInv'
         /\ src' = src /\ destLen' = destLen /\ ByteLoaded
BY DataFrame, RunningFrame
   DEF Inv, Outside, containerVars, DataInv, ReaderInv, ByteLoaded

LEMMA RefuseKeeps == ASSUME Inv, Outside, pc # "returned", Refuse PROVE Inv'
<1>1. DataInv' /\ ReturnInv' /\ src' = src /\ destLen' = destLen
  BY OutsideKept
<1>2. ReaderInv' /\ TreeInv' /\ MatchInv' /\ OutInv'
  BY <1>1, ReaderFrame, TreeFrame, MatchFrame, OutFrame DEF Inv, Refuse, blockVars
<1>3. pc' \notin {"call", "extra", "lengths", "symbol", "distance", "copy"}
  BY DEF Refuse
<1>. QED  BY <1>1, <1>2, <1>3, QuietPhase DEF Inv

LEMMA BlockStartKeeps == ASSUME Inv, Outside, BlockStart PROVE Inv'
<1>. DEFINE final == GetBits(d, 1, 0)
            type == GetBits(final.d, 2, 0)
<1>1. /\ bfinal' = (final.bits = 1) /\ d' = type.d
      /\ pc' = CASE type.bits = 0 -> "stored" [] type.bits = 1 -> "fixed"
                 [] type.bits = 2 -> "sizes" [] OTHER -> "error"
      /\ UNCHANGED <<sourceEnd, treeVars, lt, dt, matchVars, out>>
      /\ pc = "block"
  BY DEF BlockStart
<1>2. DataInv' /\ ReturnInv' /\ src' = src /\ destLen' = destLen /\ ByteLoaded
  BY <1>1, OutsideKept
<1>3. type.d \in Reader
  <2>1. d \in Reader
    BY DEF Inv, ReaderInv
  <2>2. 1 \in 0 .. 16 /\ 2 \in 0 .. 16 /\ 0 \in Nat
    OBVIOUS
  <2>3. final.d \in Reader
    BY <1>2, <2>1, <2>2, GetBitsRight
  <2>. HIDE DEF final
  <2>. QED  BY <1>2, <2>2, <2>3, GetBitsRight
<1>. HIDE DEF final, type
<1>4. ReaderInv'
  <2>1. Reader' = Reader /\ sourceEnd' = sourceEnd
    BY <1>1, SameReader
  <2>2. d' \in Reader' /\ bfinal' \in BOOLEAN
    BY <1>1, <1>3, <2>1
  <2>. QED  BY <1>2, <2>1, <2>2 DEF Inv, ReaderInv
<1>5. TreeInv' /\ MatchInv' /\ OutInv'
  BY <1>1, <1>2, TreeFrame, MatchFrame, OutFrame DEF Inv
<1>6. pc' \notin {"call", "extra", "lengths", "symbol", "distance", "copy"}
  BY <1>1
<1>. QED  BY <1>2, <1>4, <1>5, <1>6, QuietPhase DEF Inv

LEMMA BlockEndKeeps == ASSUME Inv, Outside, BlockEnd PROVE Inv'
<1>1. pc = "end" /\ UNCHANGED <<blockVars, out>>
      /\ pc' \notin {"call", "extra", "lengths", "symbol", "distance", "copy"}
  BY DEF BlockEnd
<1>2. DataInv' /\ ReturnInv' /\ src' = src /\ destLen' = destLen
  BY <1>1, OutsideKept
<1>3. ReaderInv' /\ TreeInv' /\ MatchInv' /\ OutInv'
  BY <1>1, <1>2, ReaderFrame, TreeFrame, MatchFrame, OutFrame DEF Inv, blockVars
<1>. QED  BY <1>1, <1>2, <1>3, QuietPhase DEF Inv

(* The bytes of a stored block are bytes of the payload. *)
LEMMA StoredBytes ==
  ASSUME Inv, StoredFits
  PROVE  /\ StoredLength \in Nat
         /\ SubSeq(src, d.source + 5, d.source + 4 + StoredLength) \in Seq(Byte)
         /\ Len(SubSeq(src, d.source + 5, d.source + 4 + StoredLength)) = StoredLength
<1>. DEFINE a == d.source  n == StoredLength
<1>1. /\ a \in Nat /\ sourceEnd \in Nat /\ sourceEnd <= Len(src) /\ src \in Seq(Byte)
      /\ Len(src) \in Nat
  BY DEF Inv, ReaderInv, DataInv, Reader
<1>2. sourceEnd - a >= 4 /\ sourceEnd - a - 4 >= n
  BY DEF StoredFits
<1>3. n \in Nat
  <2>. HIDE DEF a
  <2>1. a + 1 < Len(src)
    BY <1>1, <1>2
  <2>2. Le16(a) \in Nat
    BY <1>1, <2>1, Le16Right
  <2>. QED  BY <2>2 DEF StoredLength, a
<1>. DEFINE x == SubSeq(src, a + 5, a + 4 + n)  p == a + 5  q == a + 4 + n
<1>4. x = SubSeq(src, p, q)
  OBVIOUS
<1>. HIDE DEF x, a, n
<1>5. /\ p \in Nat /\ q \in Nat /\ p >= 1 /\ q <= Len(src) /\ q >= p - 1 /\ q - p + 1 = n
  BY <1>1, <1>2, <1>3
<1>. HIDE DEF p, q
<1>6. x \in Seq(Byte) /\ Len(x) = n
  BY <1>1, <1>4, <1>5, PartOfSeq
<1>. QED  BY <1>3, <1>6 DEF x, a, n

LEMMA StoredKeeps == ASSUME Inv, Outside, Stored PROVE Inv'
<1>1. pc = "stored"
  BY DEF Stored
<1>2. DataInv' /\ ReturnInv' /\ src' = src /\ destLen' = destLen /\ ByteLoaded
  BY <1>1, OutsideKept
<1>3. CASE Refuse
  BY <1>1, <1>3, RefuseKeeps
<1>4. CASE /\ StoredFits
           /\ out' = out \o SubSeq(src, d.source + 5, d.source + 4 + StoredLength)
           /\ d' = [d EXCEPT !.source = @ + 4 + StoredLength, !.tag = 0, !.bitcount = 0]
           /\ pc' = "end"
           /\ UNCHANGED <<sourceEnd, bfinal, treeVars, lt, dt, matchVars>>
  <2>. DEFINE a == d.source  n == StoredLength
  <2>1. /\ d \in [source : Nat, tag : Nat, bitcount : 0 .. 7, overflow : BOOLEAN]
        /\ a \in Nat /\ sourceEnd \in Nat /\ sourceEnd <= Len(src) /\ src \in Seq(Byte)
        /\ Len(src) \in Nat
        /\ destLen \in Nat /\ Len(out) <= destLen /\ out \in Seq(Byte)
    BY DEF Inv, ReaderInv, DataInv, OutInv, Reader
  <2>2. sourceEnd - a >= 4 /\ sourceEnd - a - 4 >= n /\ destLen - Len(out) >= n
    BY <1>4 DEF StoredFits, Room
  <2>3. n \in Nat
    BY <1>4, StoredBytes
  <2>4. d' = [d EXCEPT !.source = a + 4 + n, !.tag = 0, !.bitcount = 0]
        /\ out' = out \o SubSeq(src, a + 5, a + 4 + n)
    BY <1>4
  <2>. HIDE DEF a, n
  <2>5. d' \in Reader
    <3>1. a + 4 + n \in Nat /\ a + 4 + n <= sourceEnd
      BY <2>1, <2>2, <2>3
    <3>. DEFINE x == a + 4 + n
    <3>a. x \in Nat /\ x <= sourceEnd
      BY <3>1
    <3>. HIDE DEF x
    <3>. DEFINE f == [d EXCEPT !.source = x]
                e == [f EXCEPT !.tag = 0]
                g == [e EXCEPT !.bitcount = 0]
    <3>b. f \in [source : Nat, tag : Nat, bitcount : 0 .. 7, overflow : BOOLEAN]
          /\ f.source = x
      BY <2>1, <3>a
    <3>. HIDE DEF f
    <3>c. e \in [source : Nat, tag : Nat, bitcount : 0 .. 7, overflow : BOOLEAN]
          /\ e.source = x /\ e.tag = 0
      BY <3>b
    <3>. HIDE DEF e
    <3>2. g \in [source : Nat, tag : Nat, bitcount : 0 .. 7, overflow : BOOLEAN]
      BY <3>c
    <3>3. g.source = x /\ g.tag = 0 /\ g.bitcount = 0
      BY <3>c
    <3>4. d' = g
      BY <2>1, <2>4 DEF x, f, e
    <3>. HIDE DEF g
    <3>5. g \in Reader
      BY <3>a, <3>2, <3>3, Powers DEF Reader
    <3>. QED  BY <3>4, <3>5
  <2>6. ReaderInv'
    <3>1. Reader' = Reader /\ sourceEnd' = sourceEnd /\ bfinal' = bfinal
      BY <1>4, SameReader
    <3>. QED  BY <1>2, <2>5, <3>1 DEF Inv, ReaderInv
  <2>7. OutInv'
    <3>. DEFINE x == SubSeq(src, a + 5, a + 4 + n)
    <3>3. x \in Seq(Byte) /\ Len(x) = n
      BY <1>4, StoredBytes DEF a, n
    <3>. HIDE DEF x
    <3>5. out \o x \in Seq(Byte) /\ Len(out \o x) = Len(out) + n
      BY <2>1, <3>3, ConcatProperties
    <3>6. Len(out) + n <= destLen
      <4>. Len(out) \in Nat
        BY <2>1
      <4>. QED  BY <2>1, <2>2, <2>3
    <3>7. out' = out \o x
      BY <2>4 DEF x
    <3>. QED  BY <1>2, <3>5, <3>6, <3>7 DEF OutInv
  <2>8. TreeInv' /\ MatchInv'
    BY <1>4, TreeFrame, MatchFrame DEF Inv
  <2>9. pc' \notin {"call", "extra", "lengths", "symbol", "distance", "copy"}
    BY <1>4
  <2>. QED  BY <1>2, <2>6, <2>7, <2>8, <2>9, QuietPhase DEF Inv
<1>. QED  BY <1>3, <1>4 DEF Stored

LEMMA FixedKeeps == ASSUME Inv, Outside, Fixed PROVE Inv'
<1>1. /\ pc = "fixed" /\ lt' = FixedLtree /\ dt' = FixedDtree /\ pc' = "symbol"
      /\ UNCHANGED <<sourceEnd, d, bfinal, treeVars, matchVars, out>>
  BY DEF Fixed
<1>2. DataInv' /\ ReturnInv' /\ src' = src /\ destLen' = destLen
  BY <1>1, OutsideKept
<1>3. ReaderInv' /\ MatchInv' /\ OutInv'
  BY <1>1, <1>2, ReaderFrame, MatchFrame, OutFrame DEF Inv
<1>4. TreeInv'
  <2>1. TableFits(FixedLtree) /\ TableFits(FixedDtree)
    BY FixedTreesGood DEF TableFits
  <2>2. hlit' = hlit /\ hdist' = hdist /\ lengths' = lengths
    BY <1>1 DEF treeVars
  <2>3. TableFits(lt)' /\ TableFits(dt)'
    BY <1>1, <2>1 DEF TableFits
  <2>. QED  BY <2>2, <2>3 DEF Inv, TreeInv
<1>5. SymbolPhase'
  <2>1. GoodTree(lt') /\ GoodTree(dt')
    BY <1>1, FixedTreesGood
  <2>. QED  BY <2>1 DEF SymbolPhase
<1>6. CallPhase' /\ HeaderPhase' /\ LengthsPhase' /\ DistancePhase' /\ CopyPhase'
  BY <1>1 DEF CallPhase, HeaderPhase, LengthsPhase, DistancePhase, CopyPhase
<1>. QED  BY <1>2, <1>3, <1>4, <1>5, <1>6 DEF Inv

LEMMA BuildTreesKeeps == ASSUME Inv, Outside, BuildTrees PROVE Inv'
<1>. DEFINE ll == SubSeq(lengths, 1, hlit)
            dl == SubSeq(lengths, hlit + 1, hlit + hdist)
            l == BuildTree(ll)
            t == BuildTree(dl)
<1>0. pc = "lengths" /\ Len(lengths) = hlit + hdist
  BY DEF BuildTrees
<1>1. CASE Refuse
  BY <1>0, <1>1, RefuseKeeps
<1>2. CASE /\ lengths[257] # 0 /\ l.ok /\ t.ok
           /\ lt' = l /\ dt' = t /\ pc' = "symbol"
           /\ UNCHANGED <<sourceEnd, d, bfinal, treeVars, matchVars, out>>
  <2>1. DataInv' /\ ReturnInv' /\ src' = src /\ destLen' = destLen
    BY <1>0, OutsideKept
  <2>2. ReaderInv' /\ MatchInv' /\ OutInv'
    BY <1>2, <2>1, ReaderFrame, MatchFrame, OutFrame DEF Inv
  <2>3. /\ hlit \in 257 .. 286 /\ hdist \in 0 .. 30 /\ lengths \in Seq(0 .. 15)
    BY <1>0 DEF Inv, TreeInv, LengthsPhase
  <2>4. \A i \in 1 .. hlit + hdist : lengths[i] \in 0 .. 15
    BY <1>0, <2>3, ElementOfSeq
  <2>5. ll \in Lengths /\ Len(ll) = hlit /\ ll[257] = lengths[257]
    <3>1. \A i \in 1 .. hlit : lengths[i] \in 0 .. 15
      BY <2>3, <2>4
    <3>2. 1 \in Int /\ hlit \in Int
      BY <2>3
    <3>3. /\ ll \in Seq(0 .. 15)
          /\ Len(ll) = IF 1 <= hlit THEN hlit - 1 + 1 ELSE 0
          /\ \A i \in 1 .. hlit - 1 + 1 : ll[i] = lengths[1 + i - 1]
      BY <3>1, <3>2, SubSeqProperties
    <3>. HIDE DEF ll
    <3>4. Len(ll) = hlit /\ Len(ll) <= 288
      BY <2>3, <3>3
    <3>5. ll[257] = lengths[257]
      <4>1. 257 \in 1 .. hlit - 1 + 1 /\ 1 + 257 - 1 = 257
        BY <2>3
      <4>2. ll[257] = lengths[1 + 257 - 1]
        BY <3>3, <4>1
      <4>. QED  BY <4>1, <4>2
    <3>. QED  BY <3>3, <3>4, <3>5 DEF Lengths
  <2>6. dl \in Lengths /\ Len(dl) <= 30
    <3>. DEFINE p == hlit + 1  q == hlit + hdist
    <3>a. dl = SubSeq(lengths, p, q)
      OBVIOUS
    <3>. HIDE DEF dl
    <3>2. /\ p \in Nat /\ q \in Nat /\ p >= 1 /\ q <= Len(lengths) /\ q >= p - 1
          /\ q - p + 1 = hdist
      BY <1>0, <2>3
    <3>. HIDE DEF p, q
    <3>3. dl \in Seq(0 .. 15) /\ Len(dl) = hdist
      BY SMTT(30), <2>3, <3>a, <3>2, PartOfSeq
    <3>. HIDE DEF dl
    <3>4. hdist <= 30 /\ hdist <= 288
      BY <2>3
    <3>. QED  BY <3>3, <3>4 DEF Lengths
  <2>. HIDE DEF ll, dl
  <2>7. TreeFor(l, ll) /\ TreeFor(t, dl)
    BY <2>5, <2>6, TreeBuilt
  <2>. HIDE DEF l, t
  <2>8. TableFits(l) /\ TableFits(t)
    <3>1. Len(ll) \in 0 .. 288 /\ Len(dl) \in 0 .. 288
      <4>1. Len(ll) \in Nat /\ Len(ll) <= 288 /\ Len(dl) \in Nat /\ Len(dl) <= 288
        BY <2>5, <2>6, CodedFinite
      <4>2. \A n \in Nat : n <= 288 => n \in 0 .. 288
        OBVIOUS
      <4>. QED  BY <4>1, <4>2, Zenon
    <3>2. l.maxSym \in -1 .. Len(ll) - 1 /\ t.maxSym \in -1 .. Len(dl) - 1
          /\ Len(l.symbols) <= 288 /\ Len(t.symbols) <= 288
      BY <2>7 DEF TreeFor
    <3>3. \A n \in 0 .. 288 : -1 .. n - 1 \subseteq -1 .. 287
      OBVIOUS
    <3>. QED  BY <3>1, <3>2, <3>3, ZenonT(30) DEF TableFits
  <2>9. TreeInv'
    <3>1. hlit' = hlit /\ hdist' = hdist /\ lengths' = lengths
      BY <1>2 DEF treeVars
    <3>2. TableFits(lt)' /\ TableFits(dt)'
      BY <1>2, <2>8 DEF TableFits
    <3>. QED  BY <3>1, <3>2 DEF Inv, TreeInv
  <2>10. GoodTree(l) /\ (t.maxSym # -1 => GoodTree(t))
    <3>1. 256 \in Coded(ll)
      <4>1. 256 \in 0 .. Len(ll) - 1 /\ 256 + 1 = 257
        <5>1. Len(ll) \in 257 .. 286
          BY <2>3, <2>5
        <5>2. \A n \in 257 .. 286 : 256 \in 0 .. n - 1 /\ 256 + 1 = 257
          OBVIOUS
        <5>. QED  BY <5>1, <5>2, Zenon
      <4>. QED  BY <1>2, <2>5, <4>1 DEF Coded
    <3>. QED  BY <1>2, <2>7, <3>1 DEF TreeFor
  <2>11. SymbolPhase'
    <3>1. GoodTree(lt') /\ (dt'.maxSym # -1 => GoodTree(dt'))
      BY <1>2, <2>10
    <3>. QED  BY <3>1 DEF SymbolPhase
  <2>12. CallPhase' /\ HeaderPhase' /\ LengthsPhase' /\ DistancePhase' /\ CopyPhase'
    BY <1>2 DEF CallPhase, HeaderPhase, LengthsPhase, DistancePhase, CopyPhase
  <2>. QED  BY <2>1, <2>2, <2>9, <2>11, <2>12 DEF Inv
<1>. QED  BY <1>1, <1>2 DEF BuildTrees

-----------------------------------------------------------------------------
(* The code lengths of a dynamic block.                                    *)

(* The repetitions the code of the lengths knows. *)
LEMMA RunRight ==
  ASSUME ByteLoaded, lengths \in Seq(0 .. 15), NEW r \in Reader, NEW sym \in 0 .. 18
  PROVE  Run(sym, r).lens \in Seq(0 .. 15) /\ Run(sym, r).d \in Reader
<1>0. 2 \in 0 .. 16 /\ 3 \in 0 .. 16 /\ 7 \in 0 .. 16 /\ 3 \in Nat /\ 11 \in Nat
  OBVIOUS
<1>1. \A num \in {2, 3, 7}, base \in {3, 11} :
        GetBits(r, num, base).bits \in Nat /\ GetBits(r, num, base).d \in Reader
  BY <1>0, GetBitsRight DEF Bits
<1>2. (IF lengths = <<>> THEN 0 ELSE Last(lengths)) \in 0 .. 15
  <2>1. CASE lengths = <<>>
    BY <2>1
  <2>2. CASE lengths # <<>>
    <3>1. Len(lengths) \in 1 .. Len(lengths)
      BY <2>2, EmptySeq
    <3>2. lengths[Len(lengths)] \in 0 .. 15
      BY <3>1, ElementOfSeq
    <3>. QED  BY <2>2, <3>2 DEF Last
  <2>. QED  BY <2>1, <2>2
<1>3. CASE sym = 16
  <2>. DEFINE b == GetBits(r, 2, 3)
              v == IF lengths = <<>> THEN 0 ELSE Last(lengths)
  <2>1. Run(sym, r) = [d |-> b.d, lens |-> [i \in 1 .. b.bits |-> v]]
    BY <1>3 DEF Run
  <2>2. b.bits \in Nat /\ b.d \in Reader /\ v \in 0 .. 15
    BY <1>1, <1>2
  <2>. HIDE DEF b, v
  <2>3. [i \in 1 .. b.bits |-> v] \in Seq(0 .. 15)
    BY SMTT(30), <2>2
  <2>. QED  BY <2>1, <2>2, <2>3
<1>4. CASE sym = 17
  <2>. DEFINE b == GetBits(r, 3, 3)
  <2>1. Run(sym, r) = [d |-> b.d, lens |-> [i \in 1 .. b.bits |-> 0]]
    BY <1>4 DEF Run
  <2>2. b.bits \in Nat /\ b.d \in Reader
    BY <1>1
  <2>. HIDE DEF b
  <2>3. [i \in 1 .. b.bits |-> 0] \in Seq(0 .. 15)
    BY <2>2
  <2>. QED  BY <2>1, <2>2, <2>3
<1>6. CASE sym = 18
  <2>. DEFINE b == GetBits(r, 7, 11)
  <2>1. Run(sym, r) = [d |-> b.d, lens |-> [i \in 1 .. b.bits |-> 0]]
    BY <1>6 DEF Run
  <2>2. b.bits \in Nat /\ b.d \in Reader
    BY <1>1
  <2>. HIDE DEF b
  <2>3. [i \in 1 .. b.bits |-> 0] \in Seq(0 .. 15)
    BY <2>2
  <2>. QED  BY <2>1, <2>2, <2>3
<1>5. CASE sym \notin {16, 17, 18}
  <2>1. Run(sym, r) = [d |-> r, lens |-> <<sym>>]
    BY <1>5 DEF Run
  <2>2. sym \in 0 .. 15
    BY <1>5
  <2>3. <<sym>> \in Seq(0 .. 15)
    BY <2>2
  <2>. QED  BY <2>1, <2>3
<1>. QED  BY <1>3, <1>4, <1>5, <1>6

LEMMA LengthRunKeeps == ASSUME Inv, Outside, LengthRun PROVE Inv'
<1>. DEFINE s == DecodeSymbol(d, lt)
            run == Run(s.sym, s.d)
            bad == \/ s.sym > lt.maxSym
                   \/ RepeatsNothing(s.sym)
                   \/ Len(run.lens) > hlit + hdist - Len(lengths)
<1>1. pc = "lengths"
  BY DEF LengthRun
<1>2. DataInv' /\ ReturnInv' /\ src' = src /\ destLen' = destLen /\ ByteLoaded
  BY <1>1, OutsideKept
<1>3. CASE Refuse
  BY <1>1, <1>3, RefuseKeeps
<1>4. CASE /\ ~bad
           /\ lengths' = lengths \o run.lens /\ d' = run.d
           /\ UNCHANGED <<pc, sourceEnd, bfinal, hlit, hdist, lt, dt, matchVars, out>>
  <2>1. /\ GoodTree(lt) /\ lt.maxSym <= 18 /\ lt.maxSym \in -1 .. 287 /\ d \in Reader
        /\ lengths \in Seq(0 .. 15) /\ hlit \in 0 .. 286 /\ hdist \in 0 .. 30
    BY <1>1 DEF Inv, LengthsPhase, TreeInv, TableFits, ReaderInv
  <2>2. s.sym \in 0 .. 288 /\ s.d \in Reader
    BY <1>2, <2>1, SymbolFound
  <2>3. ~(s.sym > lt.maxSym) /\ Len(run.lens) <= hlit + hdist - Len(lengths)
    <3>1. ~(Len(run.lens) > hlit + hdist - Len(lengths)) /\ ~(s.sym > lt.maxSym)
      BY <1>4
    <3>2. s.sym \in 0 .. 18
      <4>. DEFINE x == s.sym  m == lt.maxSym
      <4>1. x \in 0 .. 288 /\ ~(x > m) /\ m \in -1 .. 287 /\ m <= 18
        BY <2>1, <2>2, <3>1
      <4>. HIDE DEF x, m
      <4>2. x \in 0 .. 18
        BY <4>1
      <4>. QED  BY <4>2 DEF x
    <3>3. run.lens \in Seq(0 .. 15)
      BY <1>2, <2>1, <2>2, <3>2, RunRight
    <3>. DEFINE m == Len(run.lens)  n == Len(lengths)
    <3>4. m \in Nat /\ n \in Nat /\ ~(m > hlit + hdist - n)
      BY <2>1, <3>1, <3>3, LenProperties
    <3>. HIDE DEF m, n
    <3>5. m <= hlit + hdist - n
      BY <2>1, <3>4
    <3>. QED  BY <3>1, <3>5 DEF m, n
  <2>4. s.sym \in 0 .. 18
    <3>. DEFINE x == s.sym  m == lt.maxSym
    <3>1. x \in 0 .. 288 /\ ~(x > m) /\ m \in -1 .. 287 /\ m <= 18
      BY <2>1, <2>2, <2>3
    <3>. HIDE DEF x, m
    <3>2. x \in 0 .. 18
      BY <3>1
    <3>. QED  BY <3>2 DEF x
  <2>5. run.lens \in Seq(0 .. 15) /\ run.d \in Reader
    BY <1>2, <2>1, <2>2, <2>4, RunRight
  <2>. HIDE DEF run, s
  <2>6. lengths \o run.lens \in Seq(0 .. 15)
        /\ Len(lengths \o run.lens) = Len(lengths) + Len(run.lens)
    BY <2>1, <2>5, ConcatProperties
  <2>7. Len(lengths \o run.lens) <= hlit + hdist
    <3>1. Len(lengths) \in Nat /\ Len(run.lens) \in Nat
      BY <2>1, <2>5, LenProperties
    <3>. QED  BY <2>1, <2>3, <2>6, <3>1
  <2>8. TreeInv'
    <3>1. /\ hlit' \in 0 .. 286 /\ hdist' \in 0 .. 30
          /\ lengths' \in Seq(0 .. 15) /\ Len(lengths') <= hlit' + hdist'
      BY <1>4, <2>1, <2>6, <2>7
    <3>2. TableFits(lt)' /\ TableFits(dt)'
      BY <1>4 DEF Inv, TreeInv, TableFits
    <3>. QED  BY <3>1, <3>2 DEF TreeInv
  <2>9. ReaderInv'
    <3>1. Reader' = Reader
      BY <1>4, SameReader
    <3>. QED  BY <1>2, <1>4, <2>5, <3>1 DEF Inv, ReaderInv
  <2>10. MatchInv' /\ OutInv'
    BY <1>2, <1>4, MatchFrame, OutFrame DEF Inv
  <2>11. LengthsPhase'
    <3>1. GoodTree(lt') /\ lt'.maxSym <= 18 /\ hlit' >= 257
      BY <1>1, <1>4 DEF Inv, LengthsPhase
    <3>. QED  BY <3>1 DEF LengthsPhase
  <2>12. CallPhase' /\ HeaderPhase' /\ SymbolPhase' /\ DistancePhase' /\ CopyPhase'
    <3>. pc' = "lengths"
      BY <1>1, <1>4
    <3>. QED  BY DEF CallPhase, HeaderPhase, SymbolPhase, DistancePhase, CopyPhase
  <2>. QED  BY <1>2, <2>8, <2>9, <2>10, <2>11, <2>12 DEF Inv
<1>. QED  BY <1>3, <1>4 DEF LengthRun

(* The extra bits of a length and of a distance, and what they start from. *)
LEMMA LengthCoded ==
  ASSUME ByteLoaded, NEW r \in Reader, NEW i \in 1 .. 29
  PROVE  LET b == GetBits(r, LengthBits[i], LengthBase[i])
         IN  b.bits \in 0 .. MaxLength /\ b.d \in Reader
<1>. DEFINE n == LengthBits[i]  base == LengthBase[i]
            b == GetBits(r, n, base)
<1>1. /\ n \in 0 .. 5 /\ base \in 0 .. 258
      /\ n = 0 \/ (n = 1 /\ base <= 17) \/ (n = 2 /\ base <= 31) \/ (n = 3 /\ base <= 59)
         \/ (n = 4 /\ base <= 115) \/ (n = 5 /\ base <= 227)
  BY DEF LengthBits, LengthBase
<1>2. n \in 0 .. 16 /\ base \in Nat
  <2>. HIDE DEF n, base
  <2>. QED  BY <1>1
<1>. HIDE DEF n, base
<1>3. b.bits \in Bits(n, base) /\ b.d \in Reader
  BY <1>2, GetBitsRight
<1>. HIDE DEF b
<1>4. b.bits \in Nat /\ b.bits < base + Pow2[n]
  BY <1>3 DEF Bits
<1>5. base + Pow2[n] <= 259
  BY <1>1, SmallPowers, Powers
<1>6. Pow2[n] \in Nat
  <2>. n \in 0 .. 32
    BY <1>2
  <2>. QED  BY Powers
<1>7. b.bits \in 0 .. 258
  BY <1>2, <1>4, <1>5, <1>6
<1>. QED  BY <1>3, <1>7 DEF b, n, base, MaxLength

-----------------------------------------------------------------------------
(* Literals and matches.                                                   *)

LEMMA DistanceCoded ==
  ASSUME ByteLoaded, NEW r \in Reader, NEW i \in 1 .. 30
  PROVE  LET b == GetBits(r, DistBits[i], DistBase[i])
         IN  b.bits \in 1 .. MaxDistance /\ b.d \in Reader
<1>. DEFINE n == DistBits[i]  base == DistBase[i]
            b == GetBits(r, n, base)
<1>1. n \in 0 .. 13
  <2>1. DistBits[i] = IF i <= 2 THEN 0 ELSE (i - 3) \div 2
    BY DEF DistBits
  <2>2. \A k \in 3 .. 30 : (k - 3) \div 2 \in 0 .. 13
    OBVIOUS
  <2>. QED  BY <2>1, <2>2
<1>2. base \in Nat /\ base >= 1 /\ base <= 24577
  BY DEF DistBase
<1>3. n \in 0 .. 16 /\ n \in 0 .. 32 /\ n <= 13 /\ 13 \in 0 .. 32
  <2>. HIDE DEF n
  <2>. QED  BY <1>1
<1>. HIDE DEF n, base
<1>4. b.bits \in Bits(n, base) /\ b.d \in Reader
  <2>1. n \in 0 .. 16 /\ base \in Nat
    BY <1>2, <1>3
  <2>. QED  BY <2>1, GetBitsRight
<1>. HIDE DEF b
<1>5. b.bits \in Nat /\ base <= b.bits /\ b.bits < base + Pow2[n]
  BY <1>4 DEF Bits
<1>6. Pow2[n] \in Nat /\ Pow2[n] <= 8192
  <2>1. Pow2[9] = 512 /\ Pow2[10] = 1024 /\ Pow2[11] = 2048 /\ Pow2[12] = 4096
    BY Powers, SmallPowers
  <2>2. Pow2[13] = 8192
    <3>1. Pow2[13] = 2 * Pow2[12]
      BY Powers
    <3>. QED  BY <2>1, <3>1
  <2>3. Pow2[n] <= Pow2[13] /\ Pow2[n] \in Nat
    BY <1>3, Powers, PowersGrow
  <2>. QED  BY <2>2, <2>3
<1>7. b.bits >= 1 /\ b.bits <= 32768
  BY <1>2, <1>5, <1>6
<1>8. b.bits \in 1 .. MaxDistance
  <2>1. MaxDistance = 32768
    BY DEF MaxDistance
  <2>2. MaxDistance \in Nat
    BY <2>1
  <2>. DEFINE x == b.bits
  <2>3. x \in Nat /\ x >= 1 /\ x <= MaxDistance
    BY <1>5, <1>7, <2>1
  <2>. HIDE DEF x
  <2>4. x \in 1 .. MaxDistance
    BY <2>2, <2>3
  <2>. QED  BY <2>4 DEF x
<1>. QED  BY <1>4, <1>8 DEF b, n, base

(* A step that stays among the symbols, and leaves the trees. *)
LEMMA SymbolsGoOn ==
  ASSUME Inv, pc \in {"symbol", "distance", "copy"}, UNCHANGED <<lt, dt>>
  PROVE  SymbolPhase'
<1>1. GoodTree(lt) /\ (dt.maxSym # -1 => GoodTree(dt))
  BY DEF Inv, SymbolPhase
<1>2. GoodTree(lt') /\ (dt'.maxSym # -1 => GoodTree(dt'))
  BY <1>1
<1>. QED  BY <1>2 DEF SymbolPhase

LEMMA ReaderMoves ==
  ASSUME Inv, src' = src, d' \in Reader, UNCHANGED <<sourceEnd, bfinal>>
  PROVE  ReaderInv'
<1>1. Reader' = Reader
  BY SameReader
<1>. QED  BY <1>1 DEF Inv, ReaderInv

LEMMA SymbolKeeps == ASSUME Inv, Outside, Symbol PROVE Inv'
<1>. DEFINE s == DecodeSymbol(d, lt)
            noMatch == s.sym > lt.maxSym \/ s.sym - 257 > 28 \/ dt.maxSym = -1
            len == GetBits(s.d, LengthBits[s.sym - 256], LengthBase[s.sym - 256])
<1>1. pc = "symbol"
  BY DEF Symbol
<1>2. DataInv' /\ ReturnInv' /\ src' = src /\ destLen' = destLen /\ ByteLoaded
  BY <1>1, OutsideKept
<1>3. GoodTree(lt) /\ d \in Reader
  BY <1>1 DEF Inv, SymbolPhase, ReaderInv
<1>4. s.sym \in 0 .. 288 /\ s.d \in Reader
  BY <1>2, <1>3, SymbolFound
<1>5. CASE Refuse
  BY <1>1, <1>5, RefuseKeeps
<1>6. CASE /\ s.sym \in 0 .. 255 /\ Room > 0
           /\ out' = Append(out, s.sym) /\ d' = s.d
           /\ UNCHANGED <<pc, sourceEnd, bfinal, treeVars, lt, dt, matchVars>>
  <2>1. s.sym \in Byte
    BY <1>6 DEF Byte
  <2>. HIDE DEF s
  <2>2. out \in Seq(Byte) /\ Len(out) \in Nat /\ destLen \in Nat /\ destLen - Len(out) > 0
    BY <1>6 DEF Inv, OutInv, DataInv, Room
  <2>3. out' \in Seq(Byte) /\ Len(out') = Len(out) + 1
    BY <1>6, <2>1, <2>2, AppendProperties
  <2>4. OutInv'
    <3>1. Len(out') <= destLen
      BY <2>2, <2>3
    <3>. QED  BY <1>2, <2>3, <3>1 DEF OutInv
  <2>5. ReaderInv' /\ TreeInv' /\ MatchInv'
    BY <1>2, <1>4, <1>6, ReaderMoves, TreeFrame, MatchFrame DEF Inv
  <2>6. SymbolPhase'
    BY <1>1, <1>6, SymbolsGoOn
  <2>7. CallPhase' /\ HeaderPhase' /\ LengthsPhase' /\ DistancePhase' /\ CopyPhase'
    <3>. pc' = "symbol"
      BY <1>1, <1>6
    <3>. QED  BY DEF CallPhase, HeaderPhase, LengthsPhase, DistancePhase, CopyPhase
  <2>. QED  BY <1>2, <2>4, <2>5, <2>6, <2>7 DEF Inv
<1>7. CASE /\ d' = s.d /\ pc' = "end"
           /\ UNCHANGED <<sourceEnd, bfinal, treeVars, lt, dt, matchVars, out>>
  <2>. HIDE DEF s
  <2>1. ReaderInv' /\ TreeInv' /\ MatchInv' /\ OutInv'
    BY <1>2, <1>4, <1>7, ReaderMoves, TreeFrame, MatchFrame, OutFrame DEF Inv
  <2>2. pc' \notin {"call", "extra", "lengths", "symbol", "distance", "copy"}
    BY <1>7
  <2>. QED  BY <1>2, <2>1, <2>2, QuietPhase DEF Inv
<1>8. CASE /\ s.sym > 256 /\ ~noMatch
           /\ length' = len.bits /\ d' = len.d /\ pc' = "distance"
           /\ UNCHANGED <<sourceEnd, bfinal, treeVars, lt, dt, offs, out>>
  <2>1. s.sym - 256 \in 1 .. 29 /\ dt.maxSym # -1
    <3>. DEFINE x == s.sym
    <3>1. x \in 0 .. 288 /\ x > 256 /\ ~(x - 257 > 28)
      BY <1>4, <1>8
    <3>. HIDE DEF x
    <3>2. x - 256 \in 1 .. 29
      BY <3>1
    <3>. QED  BY <1>8, <3>2 DEF x
  <2>. HIDE DEF noMatch
  <2>2. len.bits \in 0 .. MaxLength /\ len.d \in Reader
    <3>1. ByteLoaded /\ s.d \in Reader
      BY <1>2, <1>4
    <3>. HIDE DEF s
    <3>. QED  BY ONLY <2>1, <3>1, LengthCoded DEF len
  <2>. HIDE DEF s, len
  <2>3. MatchInv'
    <3>1. length' \in 0 .. MaxLength /\ offs' = offs
      BY <1>8, <2>2
    <3>. QED  BY <3>1 DEF Inv, MatchInv
  <2>4. ReaderInv' /\ TreeInv' /\ OutInv'
    BY <1>2, <1>8, <2>2, ReaderMoves, TreeFrame, OutFrame DEF Inv
  <2>5. SymbolPhase'
    BY <1>1, <1>8, SymbolsGoOn
  <2>6. DistancePhase'
    <3>. dt'.maxSym # -1
      BY <1>8, <2>1
    <3>. QED  BY DEF DistancePhase
  <2>7. CallPhase' /\ HeaderPhase' /\ LengthsPhase' /\ CopyPhase'
    BY <1>8 DEF CallPhase, HeaderPhase, LengthsPhase, CopyPhase
  <2>. QED  BY <1>2, <2>3, <2>4, <2>5, <2>6, <2>7 DEF Inv
<1>. QED  BY <1>5, <1>6, <1>7, <1>8 DEF Symbol

LEMMA DistanceKeeps == ASSUME Inv, Outside, Distance PROVE Inv'
<1>. DEFINE s == DecodeSymbol(d, dt)
            o == GetBits(s.d, DistBits[s.sym + 1], DistBase[s.sym + 1])
            coded == s.sym <= dt.maxSym /\ s.sym <= 29
<1>1. pc = "distance"
  BY DEF Distance
<1>2. DataInv' /\ ReturnInv' /\ src' = src /\ destLen' = destLen /\ ByteLoaded
  BY <1>1, OutsideKept
<1>3. GoodTree(dt) /\ d \in Reader
  BY <1>1 DEF Inv, SymbolPhase, DistancePhase, ReaderInv
<1>4. s.sym \in 0 .. 288 /\ s.d \in Reader
  BY <1>2, <1>3, SymbolFound
<1>5. CASE Refuse
  BY <1>1, <1>5, RefuseKeeps
<1>6. CASE /\ coded /\ MatchFits(o.bits)
           /\ offs' = o.bits /\ d' = o.d /\ pc' = "copy"
           /\ UNCHANGED <<sourceEnd, bfinal, treeVars, lt, dt, length, out>>
  <2>1. s.sym + 1 \in 1 .. 30
    <3>. DEFINE x == s.sym
    <3>1. x \in 0 .. 288 /\ x <= 29
      BY <1>4, <1>6
    <3>. HIDE DEF x
    <3>2. x + 1 \in 1 .. 30
      BY <3>1
    <3>. QED  BY <3>2 DEF x
  <2>. HIDE DEF coded
  <2>2. o.bits \in 1 .. MaxDistance /\ o.d \in Reader
    <3>. HIDE DEF s
    <3>. QED  BY <1>2, <1>4, <2>1, DistanceCoded
  <2>. HIDE DEF s, o
  <2>3. /\ offs' \in 1 .. MaxDistance /\ offs' \in Nat /\ offs' >= 1
        /\ offs' <= Len(out) /\ length <= Room
    <3>1. offs' \in 1 .. MaxDistance
      BY <1>6, <2>2
    <3>2. offs' \in Nat /\ offs' >= 1
      BY <3>1
    <3>. QED  BY <1>6, <3>1, <3>2 DEF MatchFits
  <2>4. MatchInv'
    <3>1. offs' \in 0 .. MaxDistance
      BY <2>3
    <3>. QED  BY <1>6, <3>1 DEF Inv, MatchInv
  <2>5. ReaderInv' /\ TreeInv' /\ OutInv'
    BY <1>2, <1>6, <2>2, ReaderMoves, TreeFrame, OutFrame DEF Inv
  <2>6. SymbolPhase'
    BY <1>1, <1>6, SymbolsGoOn
  <2>7. CopyPhase'
    <3>1. Len(out) \in Nat
      BY DEF Inv, OutInv
    <3>2. offs' \in 1 .. Len(out)
      BY <2>3, <3>1
    <3>3. Room' = Room /\ length' = length /\ out' = out
      BY <1>2, <1>6 DEF Room
    <3>. QED  BY <2>3, <3>2, <3>3 DEF CopyPhase
  <2>8. CallPhase' /\ HeaderPhase' /\ LengthsPhase' /\ DistancePhase'
    BY <1>6 DEF CallPhase, HeaderPhase, LengthsPhase, DistancePhase
  <2>. QED  BY <1>2, <2>4, <2>5, <2>6, <2>7, <2>8 DEF Inv
<1>. QED  BY <1>5, <1>6 DEF Distance

(* The bytes of a match are bytes of the text. *)
LEMMA MatchBytes ==
  ASSUME Inv, pc = "copy"
  PROVE  LET x == [i \in 1 .. length |-> out[Len(out) - offs + 1 + ((i - 1) % offs)]]
         IN  x \in Seq(Byte) /\ Len(x) = length /\ length \in Nat /\ length <= destLen - Len(out)
<1>. DEFINE x == [i \in 1 .. length |-> out[Len(out) - offs + 1 + ((i - 1) % offs)]]
<1>3. /\ offs \in 1 .. Len(out) /\ length <= destLen - Len(out) /\ length \in Nat
      /\ out \in Seq(Byte) /\ Len(out) \in Nat /\ destLen \in Nat
  <2>1. length \in Nat
    BY DEF Inv, MatchInv
  <2>. QED  BY <2>1 DEF Inv, CopyPhase, Room, OutInv, DataInv
<1>4. \A i \in 1 .. length : out[Len(out) - offs + 1 + ((i - 1) % offs)] \in Byte
  <2>. SUFFICES ASSUME NEW i \in 1 .. length
       PROVE  out[Len(out) - offs + 1 + ((i - 1) % offs)] \in Byte
    OBVIOUS
  <2>1. i - 1 \in Nat /\ offs \in Nat \ {0}
    BY <1>3
  <2>2. (i - 1) % offs \in 0 .. offs - 1
    BY <2>1
  <2>. DEFINE m == (i - 1) % offs
  <2>3. Len(out) - offs + 1 + m \in 1 .. Len(out)
    <3>. HIDE DEF m
    <3>. QED  BY <1>3, <2>2 DEF m
  <2>. HIDE DEF m
  <2>. QED  BY <1>3, <2>3, ElementOfSeq DEF m
<1>5. x \in Seq(Byte) /\ Len(x) = length
  BY <1>3, <1>4
<1>. QED  BY <1>3, <1>5

LEMMA CopyMatchKeeps == ASSUME Inv, Outside, CopyMatch PROVE Inv'
<1>. DEFINE x == [i \in 1 .. length |-> out[Len(out) - offs + 1 + ((i - 1) % offs)]]
<1>1. /\ pc = "copy" /\ out' = out \o x /\ pc' = "symbol" /\ UNCHANGED blockVars
  BY DEF CopyMatch
<1>2. DataInv' /\ ReturnInv' /\ src' = src /\ destLen' = destLen
  BY <1>1, OutsideKept
<1>3. out \in Seq(Byte) /\ Len(out) \in Nat /\ destLen \in Nat
  BY DEF Inv, OutInv, DataInv
<1>5. x \in Seq(Byte) /\ Len(x) = length /\ length \in Nat /\ length <= destLen - Len(out)
  BY <1>1, MatchBytes
<1>. HIDE DEF x
<1>6. OutInv'
  <2>1. out' \in Seq(Byte) /\ Len(out') = Len(out) + length
    BY <1>1, <1>3, <1>5, ConcatProperties
  <2>2. Len(out') <= destLen
    BY <1>3, <1>5, <2>1
  <2>. QED  BY <1>2, <2>1, <2>2 DEF OutInv
<1>7. ReaderInv' /\ TreeInv' /\ MatchInv'
  BY <1>1, <1>2, ReaderFrame, TreeFrame, MatchFrame DEF Inv, blockVars
<1>8. SymbolPhase'
  BY <1>1, SymbolsGoOn DEF blockVars
<1>9. CallPhase' /\ HeaderPhase' /\ LengthsPhase' /\ DistancePhase' /\ CopyPhase'
  BY <1>1 DEF CallPhase, HeaderPhase, LengthsPhase, DistancePhase, CopyPhase
<1>. QED  BY <1>2, <1>6, <1>7, <1>8, <1>9 DEF Inv

-----------------------------------------------------------------------------
(* The header of a dynamic block, and the theorem.                         *)

(* The lengths of the code of the lengths, as they are read one by one. *)
Readings == [d : Reader, lens : [1 .. 19 -> 0 .. 7]]

ReadOn(i, r) ==
  LET b == GetBits(r.d, 3, 0)
  IN [d |-> b.d, lens |-> [r.lens EXCEPT ![Clcidx[i] + 1] = b.bits]]

ReadBegins(r) == [d |-> r, lens |-> [s \in 1 .. 19 |-> 0]]

IsReading(f, r) ==
  f = [i \in 0 .. 19 |-> IF i = 0 THEN ReadBegins(r) ELSE ReadOn(i, f[i - 1])]

LEMMA ReadOnTyped ==
  ASSUME ByteLoaded, NEW i \in 1 .. 19, NEW r \in Readings
  PROVE  ReadOn(i, r) \in Readings
<1>. DEFINE b == GetBits(r.d, 3, 0)
<1>1. r.d \in Reader /\ r.lens \in [1 .. 19 -> 0 .. 7]
  BY DEF Readings
<1>2. b.bits \in 0 .. 7 /\ b.d \in Reader
  <2>1. 3 \in 0 .. 16 /\ 0 \in Nat
    OBVIOUS
  <2>2. b.bits \in Bits(3, 0) /\ b.d \in Reader
    BY <1>1, <2>1, GetBitsRight
  <2>. HIDE DEF b
  <2>. QED  BY <2>2, SmallPowers DEF Bits
<1>3. Clcidx[i] + 1 \in 1 .. 19
  BY DEF Clcidx
<1>. HIDE DEF b
<1>4. [r.lens EXCEPT ![Clcidx[i] + 1] = b.bits] \in [1 .. 19 -> 0 .. 7]
  BY <1>1, <1>2, <1>3
<1>. QED  BY <1>2, <1>4 DEF ReadOn, Readings, b

LEMMA ReadingRight ==
  ASSUME ByteLoaded, NEW r \in Reader
  PROVE  \A i \in 0 .. 19 : CodeLengths(r, i) \in Readings
<1>. DEFINE read == CHOOSE f : IsReading(f, r)
            step == [i \in 1 .. 19 |-> [x \in Readings |-> ReadOn(i, x)]]
<1>1. step \in [1 .. 19 -> [Readings -> Readings]]
  BY ReadOnTyped
<1>2. ReadBegins(r) \in Readings
  BY DEF ReadBegins, Readings
<1>3. PICK g \in [0 .. 19 -> Readings] :
        g[0] = ReadBegins(r) /\ \A i \in 1 .. 19 : g[i] = step[i][g[i - 1]]
  <2>. HIDE DEF step
  <2>. 19 \in Nat
    OBVIOUS
  <2>. Unfolds(19, Readings, ReadBegins(r), step)
    BY <1>1, <1>2, Recursion, Zenon
  <2>. QED  BY DEF Unfolds
<1>4. \A i \in 1 .. 19 : i - 1 \in 0 .. 19
  OBVIOUS
<1>5. \A i \in 1 .. 19 : g[i] = ReadOn(i, g[i - 1])
  BY <1>3, <1>4
<1>6. \A i \in 0 .. 19 : i # 0 => i \in 1 .. 19
  OBVIOUS
<1>7. IsReading(g, r)
  BY <1>3, <1>5, <1>6 DEF IsReading
<1>8. IsReading(read, r)
  BY <1>7
<1>0. \A i : CodeLengths(r, i) = read[i]
  BY DEF CodeLengths, IsReading, ReadOn, ReadBegins
<1>. HIDE DEF read, step
<1>. DEFINE S == {i \in 0 .. 19 : read[i] \in Readings}
<1>9. \A i \in 0 .. 19 : i \in S
  <2>1. 0 \in S
    <3>1. read[0] = ReadBegins(r) /\ 0 \in 0 .. 19
      BY <1>8 DEF IsReading
    <3>. QED  BY <1>2, <3>1
  <2>2. ASSUME NEW i \in 1 .. 19, i - 1 \in S PROVE i \in S
    <3>1. i \in 0 .. 19 /\ i # 0
      OBVIOUS
    <3>2. read[i] = ReadOn(i, read[i - 1])
      BY <1>8, <3>1 DEF IsReading
    <3>. QED  BY <2>2, <3>1, <3>2, ReadOnTyped
  <2>3. 19 \in Nat
    OBVIOUS
  <2>. HIDE DEF S
  <2>. QED  BY <2>1, <2>2, <2>3, UpTo
<1>. QED  BY <1>0, <1>9

(* The sizes and code lengths that begin a dynamic block are as wide as their bits. *)
LEMMA SizesRight ==
  ASSUME ByteLoaded, NEW r \in Reader
  PROVE  /\ Sizes(r).hlit \in Nat /\ 257 <= Sizes(r).hlit /\ Sizes(r).hdist \in Nat
         /\ Sizes(r).d \in Reader /\ Sizes(r).lens \in [1 .. 19 -> 0 .. 7]
<1>. DEFINE l == GetBits(r, 5, 257)
            t == GetBits(l.d, 5, 1)
            c == GetBits(t.d, 4, 4)
            read == CodeLengths(c.d, c.bits)
<1>1. Sizes(r) = [hlit |-> l.bits, hdist |-> t.bits, lens |-> read.lens, d |-> read.d]
  BY DEF Sizes
<1>2. 5 \in 0 .. 16 /\ 4 \in 0 .. 16 /\ 257 \in Nat /\ 1 \in Nat /\ 4 \in Nat
  OBVIOUS
<1>3. l.bits \in Bits(5, 257) /\ l.d \in Reader
  BY <1>2, GetBitsRight
<1>4. t.bits \in Bits(5, 1) /\ t.d \in Reader
  <2>. HIDE DEF l
  <2>. QED  BY <1>2, <1>3, GetBitsRight
<1>5. c.bits \in Bits(4, 4) /\ c.d \in Reader
  <2>. HIDE DEF t
  <2>. QED  BY <1>2, <1>4, GetBitsRight
<1>. HIDE DEF l, t, c
<1>6. l.bits \in Nat /\ 257 <= l.bits
  BY <1>3 DEF Bits
<1>7. t.bits \in Nat
  BY <1>4 DEF Bits
<1>8. c.bits \in 0 .. 19
  <2>1. c.bits \in Nat /\ c.bits < 4 + Pow2[4]
    BY <1>5 DEF Bits
  <2>. QED  BY <2>1, SmallPowers
<1>9. read \in Readings
  BY <1>5, <1>8, ReadingRight
<1>. HIDE DEF read
<1>10. read.d \in Reader /\ read.lens \in [1 .. 19 -> 0 .. 7]
  BY <1>9 DEF Readings
<1>. QED  BY <1>1, <1>6, <1>7, <1>10

LEMMA TreeSizesKeeps == ASSUME Inv, Outside, TreeSizes PROVE Inv'
<1>. DEFINE sizes == Sizes(d)
            lens == sizes.lens
            tree == BuildTree(lens)
<1>1. pc = "sizes"
  BY DEF TreeSizes
<1>2. DataInv' /\ ReturnInv' /\ src' = src /\ destLen' = destLen /\ ByteLoaded
  BY <1>1, OutsideKept
<1>3. Refuse \/
      /\ sizes.hlit <= 286 /\ sizes.hdist <= 30 /\ tree.ok /\ tree.maxSym # -1
      /\ hlit' = sizes.hlit /\ hdist' = sizes.hdist /\ d' = sizes.d
      /\ lt' = tree /\ lengths' = <<>> /\ pc' = "lengths"
      /\ UNCHANGED <<sourceEnd, bfinal, dt, matchVars, out>>
  BY DEF TreeSizes
<1>4. CASE Refuse
  BY <1>1, <1>4, RefuseKeeps
<1>5. CASE /\ sizes.hlit <= 286 /\ sizes.hdist <= 30 /\ tree.ok /\ tree.maxSym # -1
           /\ hlit' = sizes.hlit /\ hdist' = sizes.hdist /\ d' = sizes.d
           /\ lt' = tree /\ lengths' = <<>> /\ pc' = "lengths"
           /\ UNCHANGED <<sourceEnd, bfinal, dt, matchVars, out>>
  <2>8. /\ sizes.hlit \in Nat /\ 257 <= sizes.hlit /\ sizes.hdist \in Nat
        /\ sizes.d \in Reader /\ lens \in [1 .. 19 -> 0 .. 7]
    BY <1>2, SizesRight DEF Inv, ReaderInv
  <2>. HIDE DEF sizes
  <2>. HIDE DEF lens
  <2>9. lens \in Lengths /\ Len(lens) = 19
    <3>1. lens \in [1 .. 19 -> 0 .. 15]
      BY <2>8
    <3>2. lens \in Seq(0 .. 15) /\ Len(lens) = 19
      <4>1. lens = [i \in 1 .. 19 |-> lens[i]] /\ 19 \in Nat
        BY <3>1
      <4>2. \A i \in 1 .. 19 : lens[i] \in 0 .. 15
        BY <3>1
      <4>3. [i \in 1 .. 19 |-> lens[i]] \in Seq(0 .. 15)
            /\ Len([i \in 1 .. 19 |-> lens[i]]) = 19
        BY <4>1, <4>2
      <4>. QED  BY <4>1, <4>3, Zenon
    <3>3. 19 <= 288
      OBVIOUS
    <3>. QED  BY <3>2, <3>3, Zenon DEF Lengths
  <2>10. TreeFor(tree, lens)
    BY <2>9, TreeBuilt
  <2>. HIDE DEF tree
  <2>11. GoodTree(tree) /\ TableFits(tree) /\ tree.maxSym <= 18
    <3>1. GoodTree(tree) /\ tree.maxSym \in -1 .. 19 - 1 /\ Len(tree.symbols) <= 288
      BY <1>5, <2>9, <2>10 DEF TreeFor
    <3>2. \A m \in -1 .. 19 - 1 : m \in -1 .. 287 /\ m <= 18
      OBVIOUS
    <3>. QED  BY <3>1, <3>2, Zenon DEF TableFits
  <2>12. hlit' \in 257 .. 286 /\ hdist' \in 0 .. 30
    <3>. DEFINE x == sizes.hlit  y == sizes.hdist
    <3>1. x \in Nat /\ 257 <= x /\ x <= 286 /\ y \in Nat /\ y <= 30
      BY <1>5, <2>8
    <3>. HIDE DEF x, y
    <3>2. x \in 257 .. 286 /\ y \in 0 .. 30
      BY <3>1
    <3>. QED  BY <1>5, <3>2 DEF x, y
  <2>13. TreeInv'
    <3>1. hlit' \in 0 .. 286 /\ 0 <= hlit' + hdist'
      <4>. \A a \in 257 .. 286, b \in 0 .. 30 : a \in 0 .. 286 /\ 0 <= a + b
        OBVIOUS
      <4>. QED  BY <2>12, Zenon
    <3>2. lengths' \in Seq(0 .. 15) /\ Len(lengths') = 0
      BY <1>5
    <3>3. TableFits(lt)' /\ TableFits(dt)'
      BY <1>5, <2>11 DEF Inv, TreeInv, TableFits
    <3>. QED  BY <2>12, <3>1, <3>2, <3>3 DEF TreeInv
  <2>14. LengthsPhase'
    <3>1. GoodTree(lt') /\ lt'.maxSym <= 18
      BY <1>5, <2>11
    <3>2. hlit' >= 257
      BY <2>12
    <3>. QED  BY <3>1, <3>2 DEF LengthsPhase
  <2>15. ReaderInv' /\ MatchInv' /\ OutInv'
    BY <1>2, <1>5, <2>8, ReaderMoves, MatchFrame, OutFrame DEF Inv
  <2>16. CallPhase' /\ HeaderPhase' /\ SymbolPhase' /\ DistancePhase' /\ CopyPhase'
    BY <1>5 DEF CallPhase, HeaderPhase, SymbolPhase, DistancePhase, CopyPhase
  <2>. QED  BY <1>2, <2>13, <2>14, <2>15, <2>16 DEF Inv
<1>. QED  BY <1>3, <1>4, <1>5
-----------------------------------------------------------------------------
LEMMA InflatingKeeps == ASSUME Inv, Inflating PROVE Inv'
<1>1. Outside /\ Block
  BY DEF Inflating, Outside
<1>. QED
  BY <1>1, BlockStartKeeps, BlockEndKeeps, StoredKeeps, FixedKeeps, TreeSizesKeeps,
     LengthRunKeeps, BuildTreesKeeps, SymbolKeeps, DistanceKeeps, CopyMatchKeeps DEF Block

LEMMA IdleKeeps == ASSUME Inv, UNCHANGED vars PROVE Inv'
<1>1. UNCHANGED <<containerVars, pc, start, blockVars, out, ret, outSize>>
  BY DEF vars
<1>2. DataInv' /\ ReaderInv' /\ TreeInv' /\ MatchInv' /\ OutInv'
  BY <1>1, DataFrame, ReaderFrame, TreeFrame, MatchFrame, OutFrame
  DEF Inv, containerVars, blockVars
<1>3. /\ pc' = pc /\ ret' = ret /\ outSize' = outSize /\ out' = out /\ start' = start
      /\ src' = src /\ destLen' = destLen /\ lt' = lt /\ dt' = dt /\ hlit' = hlit
      /\ length' = length /\ offs' = offs
  BY <1>1 DEF containerVars, blockVars, treeVars, matchVars
<1>4. ReturnInv' /\ CallPhase' /\ HeaderPhase' /\ DistancePhase'
  BY <1>3 DEF Inv, ReturnInv, CallPhase, HeaderPhase, DistancePhase
<1>5. LengthsPhase'
  BY <1>3 DEF Inv, LengthsPhase
<1>6. SymbolPhase'
  BY <1>3 DEF Inv, SymbolPhase
<1>7. CopyPhase'
  BY <1>3 DEF Inv, CopyPhase, Room
<1>. QED  BY <1>2, <1>4, <1>5, <1>6, <1>7 DEF Inv

LEMMA Always == Spec => []Inv
<1>1. Inv /\ [Next]_vars => Inv'
  BY ContainerKeeps, InflatingKeeps, IdleKeeps DEF Next, Over
<1>. QED  BY Beginning, <1>1, PTL DEF Spec

THEOREM MemorySafety == Spec => []MemorySafe
BY Always, Safe, PTL

-----------------------------------------------------------------------------
(* What kernel_payload_load is promised.                                   *)

promised == <<dstSize, out, ret, outSize>>

LEMMA Promised ==
  Promise!Next <=>
    \/ /\ ret = "RUNNING" /\ Len(out') > Len(out) /\ Len(out') <= dstSize
       /\ \A i \in 1 .. Len(out) : out'[i] = out[i]
       /\ UNCHANGED <<dstSize, ret, outSize>>
    \/ /\ ret = "RUNNING" /\ ret' = "OK" /\ outSize' = Len(out)
       /\ UNCHANGED <<dstSize, out>>
    \/ ret = "RUNNING" /\ ret' \in Errors /\ UNCHANGED <<dstSize, out, outSize>>
BY DEF Promise!Next, Promise!Produce, Promise!Succeed, Promise!Fail

LEMMA ReturnPromised ==
  ASSUME Inv, pc # "returned", NEW e \in Errors, Return(e) PROVE Promise!Next
<1>1. ret = "RUNNING"
  BY DEF Inv, ReturnInv
<1>2. ret' \in Errors /\ UNCHANGED <<dstSize, out, outSize>>
  BY DEF Return, containerVars
<1>. QED  BY <1>1, <1>2, Promised

(* Bytes are only ever added behind those that are there. *)
LEMMA MorePromised ==
  ASSUME Inv, Inv', Outside, pc # "returned",
         NEW x \in Seq(Byte), out' = out \o x
  PROVE  Promise!Next \/ UNCHANGED promised
<1>1. /\ ret = "RUNNING" /\ ret' = ret /\ outSize' = outSize /\ dstSize' = dstSize
      /\ out \in Seq(Byte) /\ Len(out) \in Nat /\ Len(x) \in Nat
  BY DEF Inv, ReturnInv, Outside, containerVars, OutInv
<1>2. /\ Len(out') = Len(out) + Len(x)
      /\ \A i \in 1 .. Len(out) : out'[i] = out[i]
  BY <1>1, ConcatProperties
<1>3. CASE Len(x) = 0
  <2>1. x = <<>>
    BY <1>3, EmptySeq
  <2>2. out' = out
    BY <1>1, <2>1, ConcatEmptySeq
  <2>. QED  BY <1>1, <2>2 DEF promised
<1>4. CASE Len(x) # 0
  <2>1. Len(out') > Len(out)
    BY <1>1, <1>2, <1>4
  <2>2. Len(out') <= dstSize
    <3>1. Len(out') <= destLen' /\ destLen' \in Nat /\ destLen' <= dstSize' /\ dstSize' \in Nat
          /\ Len(out') \in Nat
      BY DEF Inv, OutInv, DataInv
    <3>. QED  BY <1>1, <3>1
  <2>. QED  BY <1>1, <1>2, <2>1, <2>2, Promised
<1>. QED  BY <1>3, <1>4

LEMMA ContainerPromised ==
  ASSUME Inv, Container PROVE Promise!Next \/ UNCHANGED promised
<1>1. pc # "returned"
  BY DEF Container, Call, CheckHeader, SkipExtra, SkipName, SkipComment, SkipString,
         CheckHeaderCrc, ReadTrailer, InflateFailed, Finish
<1>2. CASE \E e \in Errors : Return(e)
  BY <1>1, <1>2, ReturnPromised
<1>3. CASE \E to, next : Advance(to, next)
  BY <1>3 DEF Advance, containerVars, promised
<1>4. CASE Call
  BY <1>2, <1>4, Invalid DEF Call, promised
<1>5. CASE ReadTrailer
  BY <1>2, <1>5, Invalid DEF ReadTrailer, containerVars, promised
<1>6. CASE Finish
  <2>1. CASE Return("INVALID")
    BY <1>2, <2>1, Invalid
  <2>2. CASE /\ outSize' = Len(out) /\ ret' = "OK"
             /\ UNCHANGED <<containerVars, start, blockVars, out>>
    <3>1. ret = "RUNNING"
      BY <1>1 DEF Inv, ReturnInv
    <3>. QED  BY <2>2, <3>1, Promised DEF containerVars
  <2>. QED  BY <1>6, <2>1, <2>2 DEF Finish
<1>7. CASE CheckHeader \/ SkipExtra \/ SkipName \/ SkipComment \/ CheckHeaderCrc
           \/ InflateFailed
  BY <1>2, <1>3, <1>7, Invalid
  DEF CheckHeader, SkipExtra, SkipName, SkipComment, SkipString, CheckHeaderCrc,
      InflateFailed
<1>. QED  BY <1>4, <1>5, <1>6, <1>7 DEF Container

LEMMA InflatingPromised ==
  ASSUME Inv, Inflating PROVE Promise!Next \/ UNCHANGED promised
<1>1. Outside /\ Block
  BY DEF Inflating, Outside
<1>2. Inv' /\ pc # "returned"
  BY ZenonT(30), InflatingKeeps DEF Inflating, Block, BlockStart, BlockEnd, Stored, Fixed, TreeSizes,
     LengthRun, BuildTrees, Symbol, Distance, CopyMatch
<1>3. CASE UNCHANGED out
  BY <1>1, <1>3 DEF Outside, containerVars, promised
<1>4. CASE \E x \in Seq(Byte) : out' = out \o x
  BY <1>1, <1>2, <1>4, MorePromised
<1>5. CASE Refuse
  BY <1>3, <1>5 DEF Refuse
<1>6. CASE Stored
  <2>1. CASE StoredFits
             /\ out' = out \o SubSeq(src, d.source + 5, d.source + 4 + StoredLength)
    BY <1>4, <2>1, StoredBytes
  <2>. QED  BY <1>5, <1>6, <2>1 DEF Stored
<1>7. CASE Symbol
  <2>. DEFINE s == DecodeSymbol(d, lt)
  <2>1. CASE s.sym \in 0 .. 255 /\ out' = Append(out, s.sym)
    <3>1. s.sym \in Byte /\ out \in Seq(Byte)
      BY <2>1 DEF Byte, Inv, OutInv
    <3>. HIDE DEF s
    <3>2. out' = out \o <<s.sym>> /\ <<s.sym>> \in Seq(Byte)
      BY <2>1, <3>1, AppendIsConcat
    <3>. QED  BY <1>4, <3>2
  <2>. QED  BY <1>3, <1>5, <1>7, <2>1 DEF Symbol
<1>8. CASE CopyMatch
  BY <1>4, <1>8, MatchBytes DEF CopyMatch
<1>9. CASE BlockStart \/ BlockEnd \/ Fixed \/ TreeSizes \/ LengthRun \/ BuildTrees \/ Distance
  BY <1>3, <1>5, <1>9 DEF BlockStart, BlockEnd, Fixed, TreeSizes, LengthRun, BuildTrees, Distance
<1>. QED  BY <1>1, <1>6, <1>7, <1>8, <1>9 DEF Block

(* The decoder keeps the promise of kernel_payload_load. *)
THEOREM PromiseKept == Spec => KeepsPromise
<1>1. Init => Promise!Init
  <2>. SUFFICES ASSUME NEW s \in Inputs, NEW size \in DstSizes, InitWith(s, size)
       PROVE  Promise!Init
    BY DEF Init
  <2>1. dstSize \in Nat
    BY GzipAssumption DEF InitWith
  <2>. QED  BY <2>1 DEF InitWith, Promise!Init
<1>2. Inv /\ [Next]_vars => [Promise!Next]_(Promise!decoderVars)
  <2>1. UNCHANGED vars => UNCHANGED promised
    BY DEF vars, containerVars, promised
  <2>2. promised = Promise!decoderVars
    BY DEF promised, Promise!decoderVars
  <2>. QED  BY <2>1, <2>2, ContainerPromised, InflatingPromised DEF Next, Over, promised, Promise!decoderVars
<1>. QED  BY <1>1, <1>2, Always, PTL DEF Spec, KeepsPromise, Promise!Spec

-----------------------------------------------------------------------------
(***************************************************************************)
(* From here on FdtRw. The invariant says that a buffer holds the blocks   *)
(* in order and ends before the cells that are not its own, that its       *)
(* structure block is tags from end to end, and that it is no longer than  *)
(* the tree it was made from with what the properties so far may take.     *)
(***************************************************************************)

(* __optimized_memmove leaves what was there, wherever it moves it. *)

IsMoving(moved, cells, dst, origin, n) ==
  moved = [k \in 0 .. n |->
    IF k = 0 THEN cells
    ELSE [moved[k - 1] EXCEPT
            ![dst + (IF MoveUpwards(dst, origin) THEN k - 1 ELSE n - k)]
              = moved[k - 1][origin + (IF MoveUpwards(dst, origin) THEN k - 1 ELSE n - k)]]]

LEMMA MoveLoop ==
  ASSUME NEW size \in Nat, NEW cells, DOMAIN cells = 0 .. size - 1,
         cells = [a \in DOMAIN cells |-> cells[a]],
         NEW dst \in Nat, NEW origin \in Nat, NEW n \in Nat,
         dst + n <= size, origin + n <= size
  PROVE  \E moved : IsMoving(moved, cells, dst, origin, n)
<1>. DEFINE V == {cells[a] : a \in 0 .. size - 1}
            T == [0 .. size - 1 -> V]
            j(k) == IF MoveUpwards(dst, origin) THEN k - 1 ELSE n - k
            step == [k \in 1 .. n |-> [c \in T |-> [c EXCEPT ![dst + j(k)] = c[origin + j(k)]]]]
<1>1. \A k \in 1 .. n : j(k) \in 0 .. n - 1
  OBVIOUS
<1>2. cells \in T
  OBVIOUS
<1>3. ASSUME NEW k \in 1 .. n, NEW c \in T
      PROVE  [c EXCEPT ![dst + j(k)] = c[origin + j(k)]] \in T
  <2>. HIDE DEF V
  <2>1. origin + j(k) \in 0 .. size - 1
    <3>1. j(k) \in 0 .. n - 1
      BY <1>1
    <3>. HIDE DEF j
    <3>. QED  BY <3>1
  <2>2. c[origin + j(k)] \in V
    BY <2>1
  <2>. QED  BY <2>2
<1>4. step \in [1 .. n -> [T -> T]]
  <2>. HIDE DEF T, j
  <2>. QED  BY <1>3
<1>5. Unfolds(n, T, cells, step)
  <2>. HIDE DEF T, step
  <2>. QED  BY <1>2, <1>4, Recursion
<1>6. PICK f \in [0 .. n -> T] :
        f[0] = cells /\ \A i \in 1 .. n : f[i] = step[i][f[i - 1]]
  <2>. HIDE DEF T, step
  <2>. QED  BY <1>5 DEF Unfolds
<1>7. \A i \in 1 .. n : f[i] = [f[i - 1] EXCEPT ![dst + j(i)] = f[i - 1][origin + j(i)]]
  <2>. SUFFICES ASSUME NEW i \in 1 .. n
       PROVE  f[i] = [f[i - 1] EXCEPT ![dst + j(i)] = f[i - 1][origin + j(i)]]
    OBVIOUS
  <2>. HIDE DEF T, j
  <2>1. f[i - 1] \in T
    OBVIOUS
  <2>. QED  BY <1>6, <2>1
<1>8. \A i \in 0 .. n : i # 0 => i \in 1 .. n
  OBVIOUS
<1>9. f = [k \in 0 .. n |->
             IF k = 0 THEN cells ELSE [f[k - 1] EXCEPT ![dst + j(k)] = f[k - 1][origin + j(k)]]]
  <2>1. \A k \in 0 .. n :
          f[k] = IF k = 0 THEN cells
                 ELSE [f[k - 1] EXCEPT ![dst + j(k)] = f[k - 1][origin + j(k)]]
    <3>. HIDE DEF T, step, j
    <3>. QED  BY <1>6, <1>7, <1>8
  <2>. HIDE DEF T, step, j
  <2>. QED  BY <2>1
<1>. QED  BY <1>9 DEF IsMoving

(* Both places lie in the cells there are. *)
MoveFits(cells, size, dst, origin, n) ==
  /\ size \in Nat /\ dst \in Nat /\ origin \in Nat /\ n \in Nat
  /\ DOMAIN cells = 0 .. size - 1 /\ cells = [a \in DOMAIN cells |-> cells[a]]
  /\ dst + n <= size /\ origin + n <= size

LEMMA MoveRight ==
  ASSUME NEW size, NEW cells, NEW dst, NEW origin, NEW n,
         MoveFits(cells, size, dst, origin, n)
  PROVE  MemMove(cells, dst, origin, n) =
           [a \in 0 .. size - 1 |->
              IF a \in dst .. dst + n - 1 THEN cells[origin + (a - dst)] ELSE cells[a]]
<1>. DEFINE moved == CHOOSE f : IsMoving(f, cells, dst, origin, n)
            j(k) == IF MoveUpwards(dst, origin) THEN k - 1 ELSE n - k
            Done(k) == IF MoveUpwards(dst, origin) THEN dst .. dst + k - 1
                       ELSE dst + (n - k) .. dst + n - 1
            After(k) == [a \in 0 .. size - 1 |->
                           IF a \in Done(k) THEN cells[origin + (a - dst)] ELSE cells[a]]
            S == {k \in 0 .. n : moved[k] = After(k)}
<1>0. /\ size \in Nat /\ dst \in Nat /\ origin \in Nat /\ n \in Nat
      /\ DOMAIN cells = 0 .. size - 1 /\ cells = [a \in DOMAIN cells |-> cells[a]]
      /\ dst + n <= size /\ origin + n <= size
  BY DEF MoveFits
<1>1. IsMoving(moved, cells, dst, origin, n)
  BY <1>0, MoveLoop
<1>. USE <1>0
<1>2. MemMove(cells, dst, origin, n) = moved[n]
  BY DEF MemMove, IsMoving
<1>3. moved[0] = cells
  <2>1. 0 \in 0 .. n
    OBVIOUS
  <2>. HIDE DEF moved
  <2>. QED  BY <1>1, <2>1 DEF IsMoving
<1>4. \A k \in 1 .. n :
        moved[k] = [moved[k - 1] EXCEPT ![dst + j(k)] = moved[k - 1][origin + j(k)]]
  <2>1. \A k \in 1 .. n : k \in 0 .. n /\ k # 0
    OBVIOUS
  <2>. HIDE DEF moved
  <2>. QED  BY <1>1, <2>1 DEF IsMoving
<1>. HIDE DEF moved
<1>5. 0 \in S
  BY <1>3
<1>6. ASSUME NEW k \in 1 .. n, k - 1 \in S PROVE k \in S
  <2>1. moved[k - 1] = After(k - 1) /\ k \in 0 .. n
    BY <1>6
  <2>0. k \in Nat /\ 1 <= k /\ k <= n
    OBVIOUS
  <2>2. origin + j(k) \in 0 .. size - 1 /\ dst + j(k) \in 0 .. size - 1
    <3>1. j(k) \in Int /\ 0 <= j(k) /\ j(k) < n
      BY ONLY <1>0, <2>0
    <3>. HIDE DEF j
    <3>. QED  BY ONLY <1>0, <3>1
  <2>3. origin + j(k) \notin Done(k - 1)
    <3>1. CASE MoveUpwards(dst, origin)
      <4>1. j(k) = k - 1 /\ Done(k - 1) = dst .. dst + (k - 1) - 1 /\ dst <= origin
        BY ONLY <1>0, <2>0, <3>1 DEF MoveUpwards
      <4>. HIDE DEF j, Done
      <4>. QED  BY ONLY <1>0, <2>0, <4>1
    <3>2. CASE ~MoveUpwards(dst, origin)
      <4>. DEFINE lo == dst + (n - (k - 1))
                  at == origin + j(k)
      <4>1. Done(k - 1) = lo .. dst + n - 1
        BY ONLY <1>0, <2>0, <3>2 DEF MoveUpwards, lo
      <4>2. lo \in Int /\ at \in Int /\ at < lo /\ dst + n - 1 \in Int
        <5>1. origin \in Int /\ dst \in Int /\ n \in Int /\ k \in Int
          BY ONLY <1>0, <2>0
        <5>2. at = origin + (n - k) /\ origin <= dst
          BY ONLY <1>0, <3>2 DEF MoveUpwards, at, j
        <5>. HIDE DEF at
        <5>. QED  BY ONLY <5>1, <5>2 DEF lo
      <4>. HIDE DEF j, Done, lo, at
      <4>3. at \notin Done(k - 1)
        BY ONLY <4>1, <4>2
      <4>. QED  BY ONLY <4>3 DEF at
    <3>. QED  BY ONLY <3>1, <3>2
  <2>4. After(k - 1)[origin + j(k)] = cells[origin + j(k)]
    BY <2>2, <2>3
  <2>5. moved[k] = [After(k - 1) EXCEPT ![dst + j(k)] = cells[origin + j(k)]]
    BY <1>4, <2>1, <2>4
  <2>6. ASSUME NEW a \in 0 .. size - 1
        PROVE  (a \in Done(k) <=> a \in Done(k - 1) \/ a = dst + j(k))
               /\ (a = dst + j(k) => origin + (a - dst) = origin + j(k))
    <3>1. j(k) \in Int
      OBVIOUS
    <3>2. a = dst + j(k) => origin + (a - dst) = origin + j(k)
      <4>1. a \in Int /\ dst \in Int /\ origin \in Int
        OBVIOUS
      <4>. HIDE DEF j
      <4>. QED  BY ONLY <3>1, <4>1
    <3>3. CASE MoveUpwards(dst, origin)
      <4>1. j(k) = k - 1 /\ Done(k) = dst .. dst + k - 1 /\ Done(k - 1) = dst .. dst + (k - 1) - 1
        BY <3>3
      <4>2. a \in Int
        OBVIOUS
      <4>. HIDE DEF j, Done
      <4>3. dst \in Nat /\ n \in Nat
        BY ONLY <1>0
      <4>4. a \in Done(k) <=> a \in Done(k - 1) \/ a = dst + j(k)
        BY ONLY <2>0, <4>1, <4>2, <4>3
      <4>. QED  BY ONLY <3>2, <4>4
    <3>4. CASE ~MoveUpwards(dst, origin)
      <4>1. j(k) = n - k /\ Done(k) = dst + (n - k) .. dst + n - 1
            /\ Done(k - 1) = dst + (n - (k - 1)) .. dst + n - 1
        BY <3>4
      <4>. DEFINE b == dst + (n - k)
      <4>2. b \in Int /\ b <= dst + n - 1 /\ dst + (n - (k - 1)) = b + 1
        <5>1. k \in Int /\ n \in Int /\ dst \in Int /\ 1 <= k
          BY ONLY <1>0, <2>0
        <5>. QED  BY ONLY <5>1
      <4>3. \A x, y \in Int : x <= y => (a \in x .. y <=> a \in x + 1 .. y \/ a = x)
        OBVIOUS
      <4>4. dst + n - 1 \in Int
        OBVIOUS
      <4>5. dst + j(k) = b
        BY <4>1
      <4>. HIDE DEF j, Done, b
      <4>6. Done(k) = b .. dst + n - 1 /\ Done(k - 1) = b + 1 .. dst + n - 1
        BY <4>1, <4>2 DEF b
      <4>7. a \in Done(k) <=> a \in Done(k - 1) \/ a = dst + j(k)
        BY <4>2, <4>3, <4>4, <4>5, <4>6, Zenon
      <4>. QED  BY <3>2, <4>7
    <3>. QED  BY <3>3, <3>4
  <2>7. [After(k - 1) EXCEPT ![dst + j(k)] = cells[origin + j(k)]] = After(k)
    <3>. HIDE DEF j, Done
    <3>. QED  BY <2>6
  <2>. HIDE DEF After
  <2>. QED  BY <2>1, <2>5, <2>7
<1>7. n \in S
  <2>1. n \in 0 .. n
    OBVIOUS
  <2>. HIDE DEF S
  <2>. QED  BY <1>5, <1>6, <2>1, UpTo
<1>8. moved[n] = After(n)
  BY <1>7
<1>9. \A a \in 0 .. size - 1 : a \in Done(n) <=> a \in dst .. dst + n - 1
  OBVIOUS
<1>. HIDE DEF Done
<1>. QED  BY <1>2, <1>8, <1>9

LEMMA MemMoveRight ==
  ASSUME NEW size, NEW cells, NEW dst, NEW origin, NEW n,
         MoveFits(cells, size, dst, origin, n)
  PROVE  /\ DOMAIN MemMove(cells, dst, origin, n) = 0 .. size - 1
         /\ MemMove(cells, dst, origin, n)
              = [a \in DOMAIN MemMove(cells, dst, origin, n) |-> MemMove(cells, dst, origin, n)[a]]
         /\ \A a \in 0 .. size - 1 : MemMove(cells, dst, origin, n)[a]
              = IF a \in dst .. dst + n - 1 THEN cells[origin + (a - dst)] ELSE cells[a]
<1>2. MemMove(cells, dst, origin, n) =
        [a \in 0 .. size - 1 |->
           IF a \in dst .. dst + n - 1 THEN cells[origin + (a - dst)] ELSE cells[a]]
  BY MoveRight
<1>. DEFINE m == MemMove(cells, dst, origin, n)
<1>3. m = [a \in 0 .. size - 1 |->
             IF a \in dst .. dst + n - 1 THEN cells[origin + (a - dst)] ELSE cells[a]]
  BY <1>2
<1>. HIDE DEF m
<1>4. /\ DOMAIN m = 0 .. size - 1 /\ m = [a \in DOMAIN m |-> m[a]]
      /\ \A a \in 0 .. size - 1 :
           m[a] = IF a \in dst .. dst + n - 1 THEN cells[origin + (a - dst)] ELSE cells[a]
  BY <1>3
<1>. QED  BY <1>4 DEF m


(* A loop whose turns stay in T can be run n times ... *)
IsLoop(g, n, a, turn) == g = [k \in 0 .. n |-> IF k = 0 THEN a ELSE turn[g[k - 1]]]

LEMMA LoopRuns ==
  ASSUME NEW n \in Nat, NEW T, NEW a \in T, NEW turn \in [T -> T]
  PROVE  \E g \in [0 .. n -> T] : IsLoop(g, n, a, turn)
<1>. DEFINE step == [k \in 1 .. n |-> turn]
<1>1. Unfolds(n, T, a, step)
  <2>1. step \in [1 .. n -> [T -> T]]
    OBVIOUS
  <2>. HIDE DEF step
  <2>. QED  BY <2>1, Recursion
<1>2. PICK g \in [0 .. n -> T] : g[0] = a /\ \A k \in 1 .. n : g[k] = step[k][g[k - 1]]
  <2>. HIDE DEF step
  <2>. QED  BY <1>1 DEF Unfolds
<1>3. \A k \in 0 .. n : k # 0 => k \in 1 .. n
  OBVIOUS
<1>4. \A k \in 0 .. n : g[k] = IF k = 0 THEN a ELSE turn[g[k - 1]]
  BY <1>2, <1>3
<1>. HIDE DEF step
<1>. QED  BY <1>4 DEF IsLoop

(* ... and is in T at the end. *)
LEMMA LoopEnds ==
  ASSUME NEW n \in Nat, NEW T, NEW at, at[0] \in T,
         \A k \in 1 .. n : at[k - 1] \in T => at[k] \in T
  PROVE  at[n] \in T
<1>. DEFINE S == {k \in 0 .. n : at[k] \in T}
<1>1. 0 \in S /\ n \in 0 .. n
  OBVIOUS
<1>2. ASSUME NEW k \in 1 .. n, k - 1 \in S PROVE k \in S
  BY <1>2
<1>3. n \in S
  <2>. HIDE DEF S
  <2>. QED  BY <1>1, <1>2, UpTo
<1>. QED  BY <1>3

(* What a walk of the tags comes to. *)
LEMMA TagFacts ==
  ASSUME NEW f, f.structSize \in Nat, NEW tags, WellTagged(f, tags), NEW t \in tags
  PROVE  /\ t \in Nat /\ t < f.structSize
         /\ NextTag(f, t) \in Nat /\ t < NextTag(f, t) /\ NextTag(f, t) <= f.structSize
         /\ NextTag(f, t) \in tags \cup {f.structSize}
         /\ Tag(f, t)[1] = "prop" => /\ Tag(f, t)[2] \in Nat
                                     /\ NextTag(f, t) = t + 1 + Tag(f, t)[2]
<1>1. t \in Nat /\ t < f.structSize /\ tags \subseteq 0 .. f.structSize - 1
      /\ (Tag(f, t)[1] = "prop" => Tag(f, t)[2] \in Nat)
      /\ NextTag(f, t) \in tags \cup {f.structSize}
  BY DEF WellTagged
<1>2. CASE Tag(f, t)[1] = "prop"
  BY <1>1, <1>2 DEF NextTag
<1>3. CASE Tag(f, t)[1] # "prop"
  BY <1>1, <1>3 DEF NextTag
<1>. QED  BY <1>2, <1>3

(* /chosen is where a node begins. *)
IsSearch(at, f, base) ==
  at = [k \in 0 .. f.structSize |->
          IF k = 0 THEN [off |-> NextTag(f, 0), depth |-> 0]
          ELSE NextNode(f, base, at[k - 1])]

LEMMA SubnodeRight ==
  ASSUME NEW f, f.structSize \in Nat, NEW tags, WellTagged(f, tags), NEW base
  PROVE  \/ Subnode(f, base) = NotFound
         \/ /\ Subnode(f, base) \in tags
            /\ Tag(f, Subnode(f, base))[1] = "begin"
<1>. DEFINE n == f.structSize
            T == [off : tags \cup {n}, depth : Int]
            turn == [x \in T |-> NextNode(f, base, x)]
            a == [off |-> NextTag(f, 0), depth |-> 0]
            at == CHOOSE g : IsSearch(g, f, base)
<1>1. a \in T
  <2>1. 0 \in tags
    BY DEF WellTagged
  <2>2. NextTag(f, 0) \in tags \cup {n}
    BY <2>1 DEF WellTagged
  <2>. QED  BY <2>2
<1>2. ASSUME NEW x \in T PROVE NextNode(f, base, x) \in T
  <2>1. CASE NextNode(f, base, x) = x
    BY <2>1
  <2>2. CASE NextNode(f, base, x) # x
    <3>1. /\ ~ (x.off >= n)
          /\ NextNode(f, base, x)
             = [off |-> NextTag(f, x.off), depth |-> x.depth + Deeper(Tag(f, x.off))]
      BY <2>2 DEF NextNode
    <3>2. x.off \in tags
      <4>1. n >= n /\ x.off \in tags \cup {n}
        OBVIOUS
      <4>. QED  BY <3>1, <4>1
    <3>3. NextTag(f, x.off) \in tags \cup {n}
      BY <3>2 DEF WellTagged
    <3>4. Deeper(Tag(f, x.off)) \in Int
      BY DEF Deeper
    <3>. HIDE DEF n
    <3>. QED  BY <3>1, <3>3, <3>4
  <2>. QED  BY <2>1, <2>2
<1>3. turn \in [T -> T]
  <2>. HIDE DEF T
  <2>. QED  BY <1>2
<1>4. PICK g \in [0 .. n -> T] : IsLoop(g, n, a, turn)
  <2>1. n \in Nat
    OBVIOUS
  <2>. HIDE DEF T, turn, a, n
  <2>. QED  BY <1>1, <1>3, <2>1, LoopRuns
<1>5. IsSearch(g, f, base)
  <2>1. \A k \in 0 .. n : k # 0 => turn[g[k - 1]] = NextNode(f, base, g[k - 1])
    <3>1. \A k \in 0 .. n : k # 0 => k - 1 \in 0 .. n
      OBVIOUS
    <3>. HIDE DEF T
    <3>. QED  BY <3>1
  <2>. HIDE DEF turn, T
  <2>. QED  BY <1>4, <2>1 DEF IsSearch, IsLoop
<1>6. IsSearch(at, f, base)
  BY <1>5
<1>. HIDE DEF at
<1>7. at[n] \in T
  <2>1. 0 \in 0 .. n /\ \A k \in 1 .. n : k \in 0 .. n /\ k # 0
    OBVIOUS
  <2>2. at[0] = a /\ \A k \in 1 .. n : at[k] = NextNode(f, base, at[k - 1])
    BY <1>6, <2>1 DEF IsSearch
  <2>. HIDE DEF T, a, n
  <2>. QED  BY <1>1, <1>2, <2>2, LoopEnds DEF n
<1>8. Subnode(f, base) = IF IsSubnode(f, base, at[n]) THEN at[n].off ELSE NotFound
  BY DEF Subnode, IsSearch, at
<1>9. ASSUME IsSubnode(f, base, at[n])
      PROVE  at[n].off \in tags /\ Tag(f, at[n].off)[1] = "begin"
  <2>1. at[n].off < n /\ Tag(f, at[n].off)[1] = "begin"
    BY <1>9 DEF IsSubnode
  <2>2. at[n].off \in tags \cup {n} /\ ~ (n < n)
    BY <1>7
  <2>. QED  BY <2>1, <2>2
<1>. QED  BY <1>8, <1>9


(* A property that is found has a tag of its own behind its node's. *)
IsLookup(at, f, node, name) ==
  at = [k \in 0 .. f.structSize |->
          IF k = 0 THEN NextTag(f, node) ELSE NextProperty(f, name, at[k - 1])]

LEMMA PropertyRight ==
  ASSUME NEW f, f.structSize \in Nat, NEW tags, WellTagged(f, tags),
         NEW node \in tags, NEW name
  PROVE  \/ Property(f, node, name) = NotFound
         \/ /\ Property(f, node, name) \in tags
            /\ Property(f, node, name) > node
            /\ Tag(f, Property(f, node, name))[1] = "prop"
<1>. DEFINE n == f.structSize
            T == {t \in tags \cup {n} : t > node}
            turn == [x \in T |-> NextProperty(f, name, x)]
            a == NextTag(f, node)
            at == CHOOSE g : IsLookup(g, f, node, name)
<1>1. a \in T
  <2>1. a \in tags \cup {n} /\ node < a /\ a \in Nat /\ node \in Nat
    BY TagFacts
  <2>2. a > node
    BY <2>1
  <2>. QED  BY <2>1, <2>2
<1>2. ASSUME NEW x \in T PROVE NextProperty(f, name, x) \in T
  <2>1. CASE NextProperty(f, name, x) = x
    BY <2>1
  <2>2. CASE NextProperty(f, name, x) # x
    <3>1. x < n /\ NextProperty(f, name, x) = NextTag(f, x)
      BY <2>2 DEF NextProperty
    <3>2. x \in tags
      <4>1. ~ (n < n) /\ x \in tags \cup {n}
        OBVIOUS
      <4>. QED  BY <3>1, <4>1
    <3>3. /\ NextTag(f, x) \in tags \cup {n} /\ NextTag(f, x) \in Nat /\ x \in Nat
          /\ x < NextTag(f, x) /\ node \in Nat /\ x > node
      BY <3>2, TagFacts
    <3>4. NextTag(f, x) > node
      BY <3>3
    <3>. QED  BY <3>1, <3>3, <3>4
  <2>. QED  BY <2>1, <2>2
<1>3. turn \in [T -> T]
  <2>. HIDE DEF T
  <2>. QED  BY <1>2
<1>4. PICK g \in [0 .. n -> T] : IsLoop(g, n, a, turn)
  <2>1. n \in Nat
    OBVIOUS
  <2>. HIDE DEF T, turn, a, n
  <2>. QED  BY <1>1, <1>3, <2>1, LoopRuns
<1>5. IsLookup(g, f, node, name)
  <2>1. \A k \in 0 .. n : k # 0 => turn[g[k - 1]] = NextProperty(f, name, g[k - 1])
    <3>1. \A k \in 0 .. n : k # 0 => k - 1 \in 0 .. n
      OBVIOUS
    <3>. HIDE DEF T
    <3>. QED  BY <3>1
  <2>. HIDE DEF turn, T
  <2>. QED  BY <1>4, <2>1 DEF IsLookup, IsLoop
<1>6. IsLookup(at, f, node, name)
  BY <1>5
<1>. HIDE DEF at
<1>7. at[n] \in T
  <2>1. 0 \in 0 .. n /\ \A k \in 1 .. n : k \in 0 .. n /\ k # 0
    OBVIOUS
  <2>2. at[0] = a /\ \A k \in 1 .. n : at[k] = NextProperty(f, name, at[k - 1])
    BY <1>6, <2>1 DEF IsLookup
  <2>. HIDE DEF T, a, n
  <2>. QED  BY <1>1, <1>2, <2>2, LoopEnds DEF n
<1>8. Property(f, node, name)
      = IF at[n] < n /\ Tag(f, at[n])[1] = "prop" THEN at[n] ELSE NotFound
  BY DEF Property, IsLookup, at
<1>9. ASSUME at[n] < n, Tag(f, at[n])[1] = "prop"
      PROVE  at[n] \in tags /\ at[n] > node
  <2>1. at[n] \in tags \cup {n} /\ ~ (n < n) /\ at[n] > node
    BY <1>7
  <2>. QED  BY <1>9, <2>1
<1>. QED  BY <1>8, <1>9

(* Only the cells of the structure block count. *)
LEMMA SameTags ==
  ASSUME NEW f, NEW g, f.structSize \in Nat, g.structSize = f.structSize,
         NEW tags, WellTagged(f, tags),
         \A t \in 0 .. f.structSize - 1 : Tag(g, t) = Tag(f, t)
  PROVE  WellTagged(g, tags)
<1>1. \A t \in tags : Tag(g, t) = Tag(f, t) /\ NextTag(g, t) = NextTag(f, t)
  BY DEF WellTagged, NextTag
<1>. QED  BY <1>1 DEF WellTagged

(* The tags of a block in which those from q to r, none of them the first,   *)
(* have made way for a property of some words.                               *)
TagsPut(tags, q, r, words) ==
  {t \in tags : t < q} \cup {q} \cup {t + (q + 1 + words - r) : t \in {u \in tags : u >= r}}

LEMMA PropertyPut ==
  ASSUME NEW f, NEW g, f.structSize \in Nat, NEW tags, WellTagged(f, tags),
         NEW q \in tags \cup {f.structSize}, NEW r \in tags \cup {f.structSize},
         NEW words \in Nat, 0 < q, q <= r,
         g.structSize = f.structSize + (q + 1 + words - r),
         Tag(g, q)[1] = "prop", Tag(g, q)[2] = words,
         \A t \in 0 .. q - 1 : Tag(g, t) = Tag(f, t),
         \A t \in r .. f.structSize - 1 :
           Tag(g, t + (q + 1 + words - r)) = Tag(f, t)
  PROVE  WellTagged(g, TagsPut(tags, q, r, words))
<1>. DEFINE n == f.structSize
            more == q + 1 + words - r
            T == TagsPut(tags, q, r, words)
<1>1. /\ tags \subseteq 0 .. n - 1 /\ 0 \in tags /\ n \in Nat
      /\ q \in Nat /\ r \in Nat /\ q <= n /\ r <= n /\ more \in Int
  <2>1. tags \subseteq 0 .. n - 1 /\ 0 \in tags
    BY DEF WellTagged
  <2>2. q \in Nat /\ r \in Nat /\ q <= n /\ r <= n
    BY <2>1
  <2>. QED  BY <2>1, <2>2
<1>2. g.structSize = n + more /\ r \in tags \cup {n}
  OBVIOUS
<1>3. T = {t \in tags : t < q} \cup {q} \cup {t + more : t \in {u \in tags : u >= r}}
  BY DEF TagsPut
<1>4. NextTag(g, q) = r + more
  <2>1. NextTag(g, q) = q + 1 + words
    BY DEF NextTag
  <2>. QED  BY <1>1, <2>1
<1>5. ASSUME NEW t \in tags, t < q
      PROVE  /\ Tag(g, t) = Tag(f, t) /\ NextTag(g, t) = NextTag(f, t)
             /\ NextTag(f, t) \in tags \cup {n} /\ NextTag(f, t) <= q
             /\ t \in Nat /\ NextTag(f, t) \in Nat
  <2>1. t \in 0 .. q - 1
    BY <1>1, <1>5
  <2>2. Tag(g, t) = Tag(f, t) /\ NextTag(g, t) = NextTag(f, t)
    BY <2>1 DEF NextTag
  <2>3. /\ NextTag(f, t) \in tags \cup {n} /\ NextTag(f, t) \in Nat
        /\ NextTag(f, t) <= n /\ t \in Nat
    BY TagFacts
  <2>4. NextTag(f, t) <= q
    <3>1. CASE q = n
      BY <2>3, <3>1
    <3>2. CASE q \in tags
      <4>1. q > t => q >= NextTag(f, t)
        BY <3>2 DEF WellTagged
      <4>. QED  BY <1>1, <1>5, <2>3, <4>1
    <3>. QED  BY <3>1, <3>2
  <2>. QED  BY <2>2, <2>3, <2>4
<1>6. ASSUME NEW t \in tags, t >= r
      PROVE  /\ Tag(g, t + more) = Tag(f, t) /\ NextTag(g, t + more) = NextTag(f, t) + more
             /\ NextTag(f, t) \in tags \cup {n} /\ NextTag(f, t) >= r
             /\ t \in Nat /\ NextTag(f, t) \in Nat
  <2>1. t \in r .. n - 1
    BY <1>1, <1>6
  <2>2. Tag(g, t + more) = Tag(f, t)
    BY <2>1
  <2>3. /\ NextTag(f, t) \in tags \cup {n} /\ NextTag(f, t) \in Nat
        /\ t < NextTag(f, t) /\ t \in Nat
        /\ (Tag(f, t)[1] = "prop" => Tag(f, t)[2] \in Nat)
    BY TagFacts
  <2>4. NextTag(g, t + more) = NextTag(f, t) + more
    <3>. DEFINE w == IF Tag(f, t)[1] = "prop" THEN Tag(f, t)[2] ELSE 0
    <3>1. w \in Nat
      BY <2>3
    <3>2. NextTag(g, t + more) = t + more + 1 + w /\ NextTag(f, t) = t + 1 + w
      BY <2>2 DEF NextTag
    <3>. HIDE DEF w, more
    <3>. QED  BY <1>1, <2>3, <3>1, <3>2
  <2>5. NextTag(f, t) >= r
    BY <1>1, <1>6, <2>3
  <2>. QED  BY <2>2, <2>3, <2>4, <2>5
<1>. HIDE DEF more, n
<1>7. 0 \in T /\ T \subseteq 0 .. g.structSize - 1
  <2>1. 0 \in T
    BY <1>1, <1>3
  <2>2. r + more = q + 1 + words
    BY <1>1 DEF more
  <2>3. \A t \in tags : t >= r => t + more \in Nat /\ t + more < n + more
    BY <1>1, <2>2
  <2>4. q < r + more /\ r + more <= n + more /\ n + more \in Nat
    BY <1>1, <2>2
  <2>5. \A t \in tags : t < q => t \in Nat /\ t < n + more
    BY <1>1, <2>4
  <2>6. \A t \in T : t \in Nat /\ t < n + more
    <3>. SUFFICES ASSUME NEW t \in T PROVE t \in Nat /\ t < n + more
      OBVIOUS
    <3>1. CASE t \in tags /\ t < q
      BY <2>5, <3>1
    <3>2. CASE t = q
      BY <1>1, <2>2, <2>4, <3>2
    <3>3. CASE \E u \in tags : u >= r /\ t = u + more
      BY <2>3, <3>3
    <3>. QED  BY <1>3, <3>1, <3>2, <3>3
  <2>7. T \subseteq 0 .. (n + more) - 1
    BY <2>4, <2>6
  <2>. QED  BY <1>2, <2>1, <2>7
<1>8. ASSUME NEW t \in T
      PROVE  /\ Tag(g, t)[1] = "prop" => Tag(g, t)[2] \in Nat
             /\ NextTag(g, t) \in T \cup {n + more}
             /\ \A u \in T : u > t => u >= NextTag(g, t)
  <2>1. r + more = q + 1 + words
    BY <1>1 DEF more
  <2>2. \A u \in tags \cup {n} : u >= r => u + more \in T \cup {n + more}
    BY <1>3
  <2>3. CASE t \in tags /\ t < q
    <3>1. /\ Tag(g, t) = Tag(f, t) /\ NextTag(g, t) = NextTag(f, t)
          /\ NextTag(f, t) \in tags \cup {n} /\ NextTag(f, t) <= q
          /\ t \in Nat /\ NextTag(f, t) \in Nat
      BY <1>5, <2>3
    <3>2. NextTag(f, t) \in T
      BY <1>1, <1>3, <3>1
    <3>3. ASSUME NEW u \in T, u > t PROVE u >= NextTag(f, t)
      <4>1. CASE u \in tags /\ u < q
        BY <2>3, <3>3, <4>1 DEF WellTagged
      <4>2. CASE u = q
        BY <1>1, <3>1, <4>2
      <4>3. CASE \E v \in tags : v >= r /\ u = v + more
        BY <1>1, <2>1, <3>1, <4>3
      <4>. QED  BY <1>3, <4>1, <4>2, <4>3
    <3>4. Tag(f, t)[1] = "prop" => Tag(f, t)[2] \in Nat
      BY <2>3 DEF WellTagged
    <3>. QED  BY <3>1, <3>2, <3>3, <3>4
  <2>4. CASE t = q
    <3>1. NextTag(g, t) \in T \cup {n + more}
      <4>1. r >= r
        BY <1>1
      <4>2. r + more \in T \cup {n + more}
        BY <1>2, <2>2, <4>1
      <4>. QED  BY <1>4, <2>4, <4>2
    <3>2. ASSUME NEW u \in T, u > q PROVE u >= r + more
      <4>1. CASE u \in tags /\ u < q
        BY <1>1, <3>2, <4>1
      <4>2. CASE u = q
        BY <1>1, <3>2, <4>2
      <4>3. CASE \E v \in tags : v >= r /\ u = v + more
        BY <1>1, <4>3
      <4>. QED  BY <1>3, <4>1, <4>2, <4>3
    <3>. QED  BY <1>4, <2>4, <3>1, <3>2
  <2>5. CASE \E v \in tags : v >= r /\ t = v + more
    <3>1. PICK v \in tags : v >= r /\ t = v + more
      BY <2>5
    <3>2. /\ Tag(g, t) = Tag(f, v) /\ NextTag(g, t) = NextTag(f, v) + more
          /\ NextTag(f, v) \in tags \cup {n} /\ NextTag(f, v) >= r
          /\ v \in Nat /\ NextTag(f, v) \in Nat
      BY <1>6, <3>1
    <3>3. NextTag(g, t) \in T \cup {n + more}
      BY <2>2, <3>2
    <3>4. ASSUME NEW u \in T, u > t PROVE u >= NextTag(g, t)
      <4>1. PICK w \in tags : w >= r /\ u = w + more
        <5>1. q < t
          BY <1>1, <2>1, <3>1, <3>2
        <5>2. \A w \in tags : w < q => ~ (w > t)
          BY <1>1, <3>1, <3>2, <5>1
        <5>3. ~ (q > t)
          BY <1>1, <3>1, <3>2, <5>1
        <5>. QED  BY <1>3, <3>4, <5>2, <5>3
      <4>2. w \in Nat /\ w > v
        BY <1>1, <3>1, <3>2, <3>4, <4>1
      <4>3. w >= NextTag(f, v)
        BY <3>1, <4>1, <4>2 DEF WellTagged
      <4>. QED  BY <1>1, <3>2, <4>1, <4>2, <4>3
    <3>5. Tag(f, v)[1] = "prop" => Tag(f, v)[2] \in Nat
      BY <3>1 DEF WellTagged
    <3>. QED  BY <3>2, <3>3, <3>4, <3>5
  <2>. QED  BY <1>3, <2>3, <2>4, <2>5
<1>. QED  BY <1>2, <1>7, <1>8 DEF WellTagged


Places == 0 .. cfg.size + Guard - 1

(* A tree in fdt_buf: its blocks in order, and nothing beyond its end. *)
Fields(f) ==
  f \in [cells : {f.cells}, rsvOff : Nat, structOff : Nat, structSize : Nat,
         stringsOff : Nat, stringsSize : Nat, total : Nat]

Held(c) ==
  /\ c = [a \in Places |-> c[a]]
  /\ \A a \in cfg.size .. cfg.size + Guard - 1 : c[a] = Foreign

InOrder(f) ==
  /\ Header <= f.rsvOff /\ f.rsvOff < f.structOff
  /\ f.structOff + f.structSize <= f.stringsOff
  /\ End(f) <= f.total

Buffer(f) == Fields(f) /\ f.total = cfg.size /\ Held(f.cells) /\ InOrder(f)

LEMMA BufferFacts ==
  ASSUME cfg.size \in Nat, NEW f, Buffer(f)
  PROVE  /\ {f.rsvOff, f.structOff, f.structSize, f.stringsOff, f.stringsSize} \subseteq Nat
         /\ End(f) \in Nat /\ End(f) <= cfg.size
         /\ f.structOff + f.structSize <= f.stringsOff /\ f.stringsOff <= End(f)
         /\ f.cells = [a \in Places |-> f.cells[a]]
BY DEF Buffer, Fields, Held, InOrder, End

(* New cells over those of the buffer, all of them in it *)
LEMMA OverlayRight ==
  ASSUME cfg.size \in Nat, NEW c, Held(c), NEW at \in Nat, NEW n \in Nat,
         at + n <= cfg.size, NEW new, DOMAIN new = at .. at + n - 1
  PROVE  /\ Overlay(c, new) = [a \in Places |-> IF a \in at .. at + n - 1 THEN new[a] ELSE c[a]]
         /\ Held(Overlay(c, new))
<1>1. DOMAIN c = Places
  BY DEF Held
<1>2. Places \cup (at .. at + n - 1) = Places
  BY FdtAssumption DEF Places
<1>. HIDE DEF Places
<1>3. Overlay(c, new) = [a \in Places |-> IF a \in at .. at + n - 1 THEN new[a] ELSE c[a]]
  BY <1>1, <1>2 DEF Overlay
<1>4. \A a \in cfg.size .. cfg.size + Guard - 1 :
        a \in Places /\ a \notin at .. at + n - 1 /\ c[a] = Foreign
  <2>1. \A a \in cfg.size .. cfg.size + Guard - 1 :
          a \in Places /\ a \notin at .. at + n - 1
    BY FdtAssumption DEF Places
  <2>2. \A a \in cfg.size .. cfg.size + Guard - 1 : c[a] = Foreign
    BY DEF Held
  <2>. QED  BY <2>1, <2>2
<1>5. /\ \A a \in cfg.size .. cfg.size + Guard - 1 : Overlay(c, new)[a] = Foreign
      /\ Overlay(c, new) = [a \in Places |-> Overlay(c, new)[a]]
  BY <1>3, <1>4
<1>. QED  BY <1>3, <1>5 DEF Held

LEMMA WriteHeld ==
  ASSUME cfg.size \in Nat, NEW f, Fields(f), Held(f.cells), NEW at \in Nat, NEW words,
         Len(words) \in Nat, at + Len(words) <= cfg.size
  PROVE  /\ Write(f, at, words) = [f EXCEPT !.cells = Write(f, at, words).cells]
         /\ Held(Write(f, at, words).cells)
         /\ \A a \in Places : Write(f, at, words).cells[a]
              = IF a \in at .. at + Len(words) - 1 THEN words[a - at + 1] ELSE f.cells[a]
<1>. DEFINE new == [a \in at .. at + Len(words) - 1 |-> words[a - at + 1]]
            c == Overlay(f.cells, new)
<1>1. /\ c = [a \in Places |-> IF a \in at .. at + Len(words) - 1 THEN new[a] ELSE f.cells[a]]
      /\ Held(c)
  <2>1. DOMAIN new = at .. at + Len(words) - 1
    OBVIOUS
  <2>. HIDE DEF new
  <2>. QED  BY <2>1, OverlayRight
<1>2. Write(f, at, words) = [f EXCEPT !.cells = c]
  BY DEF Write
<1>3. Write(f, at, words).cells = c
  <2>. HIDE DEF c
  <2>. QED  BY <1>2 DEF Fields
<1>4. \A a \in Places :
        c[a] = IF a \in at .. at + Len(words) - 1 THEN words[a - at + 1] ELSE f.cells[a]
  <2>. HIDE DEF c, Places
  <2>. QED  BY <1>1
<1>. HIDE DEF c
<1>. QED  BY <1>1, <1>2, <1>3, <1>4


(* What is behind a splice moves as far as the splice has grown. *)
LEMMA Spliced ==
  ASSUME cfg.size \in Nat, NEW f, Buffer(f), NEW off \in Nat, NEW old \in Nat, NEW new \in Nat,
         off + old <= f.structSize, SpliceFits(f, old, new),
         NEW g, g = SpliceStruct(f, off, old, new)
  PROVE  /\ Fields(g) /\ g.rsvOff = f.rsvOff /\ g.structOff = f.structOff
         /\ g.structSize = f.structSize + new - old /\ g.stringsOff = f.stringsOff + new - old
         /\ g.stringsSize = f.stringsSize /\ g.total = f.total
         /\ Held(g.cells)
         /\ \A a \in Places : g.cells[a] =
              IF a \in f.structOff + off + new .. End(f) + new - old - 1
              THEN f.cells[a - new + old] ELSE f.cells[a]
<1>. DEFINE p == f.structOff + off
            n == End(f) - (p + old)
            size == cfg.size + Guard
            c == MemMove(f.cells, p + new, p + old, n)
<1>1. /\ {f.rsvOff, f.structOff, f.structSize, f.stringsOff, f.stringsSize} \subseteq Nat
      /\ End(f) \in Nat /\ End(f) <= cfg.size /\ Guard \in Nat
      /\ f.structOff + f.structSize <= f.stringsOff /\ f.stringsOff <= End(f)
      /\ f.cells = [a \in Places |-> f.cells[a]]
  BY BufferFacts, FdtAssumption
<1>2. f.total = cfg.size /\ Held(f.cells) /\ Fields(f)
  BY DEF Buffer
<1>3. End(f) - old + new <= cfg.size
  BY <1>2 DEF SpliceFits
<1>4. /\ size \in Nat /\ p + new \in Nat /\ p + old \in Nat /\ n \in Nat
      /\ p + new + n <= size /\ p + old + n <= size
      /\ p + new + n = End(f) + new - old
      /\ p + new + n <= cfg.size
  BY <1>1, <1>3
<1>. DEFINE Whole == 0 .. size - 1
<1>a. Whole = Places
  <2>1. size - 1 = cfg.size + Guard - 1
    BY <1>1
  <2>. HIDE DEF size
  <2>. QED  BY <2>1 DEF Places
<1>5. /\ c = [a \in Whole |-> c[a]]
      /\ \A a \in Whole : c[a] = IF a \in p + new .. p + new + n - 1
                                THEN f.cells[p + old + (a - (p + new))] ELSE f.cells[a]
  <2>. DEFINE dst == p + new
              origin == p + old
              cells == f.cells
  <2>1. DOMAIN cells = Places
    BY <1>1
  <2>2. DOMAIN cells = 0 .. size - 1 /\ cells = [a \in DOMAIN cells |-> cells[a]]
    <3>. HIDE DEF size
    <3>. QED  BY <1>1, <1>a, <2>1
  <2>3. dst \in Nat /\ origin \in Nat /\ dst + n <= size /\ origin + n <= size
    BY <1>4
  <2>4. n \in Nat /\ size \in Nat
    BY <1>4
  <2>5. c = MemMove(cells, dst, origin, n)
    OBVIOUS
  <2>. HIDE DEF p, n, size, dst, origin, c, cells
  <2>6. /\ DOMAIN MemMove(cells, dst, origin, n) = 0 .. size - 1
        /\ MemMove(cells, dst, origin, n)
             = [a \in DOMAIN MemMove(cells, dst, origin, n) |-> MemMove(cells, dst, origin, n)[a]]
        /\ \A a \in 0 .. size - 1 : MemMove(cells, dst, origin, n)[a]
             = IF a \in dst .. dst + n - 1 THEN cells[origin + (a - dst)] ELSE cells[a]
    <3>1. MoveFits(cells, size, dst, origin, n)
      BY ONLY <2>2, <2>3, <2>4 DEF MoveFits
    <3>. QED  BY ONLY <3>1, MemMoveRight
  <2>7. /\ DOMAIN c = 0 .. size - 1 /\ c = [a \in DOMAIN c |-> c[a]]
        /\ \A a \in 0 .. size - 1 : c[a]
             = IF a \in dst .. dst + n - 1 THEN cells[origin + (a - dst)] ELSE cells[a]
    BY <2>5, <2>6
  <2>. QED  BY <2>7 DEF dst, origin, cells
<1>6. \A a \in Places :
        c[a] = IF a \in p + new .. End(f) + new - old - 1 THEN f.cells[a - new + old] ELSE f.cells[a]
  <2>1. p \in Nat
    BY <1>1
  <2>2. \A a \in Int : p + old + (a - (p + new)) = a - new + old
    <3>. HIDE DEF p
    <3>. QED  BY <2>1
  <2>3. \A a \in Places : a \in Int /\ a \in 0 .. size - 1
    <3>. HIDE DEF size
    <3>. QED  BY <1>4, <1>a
  <2>4. p + new + n - 1 = End(f) + new - old - 1
    <3>. HIDE DEF p, n
    <3>. QED  BY <1>1, <1>4
  <2>. HIDE DEF p, n, c, size
  <2>. QED  BY <1>5, <2>2, <2>3, <2>4
<1>7. Held(c)
  <2>1. 0 .. size - 1 = Places
    BY <1>a
  <2>2. c = [a \in Places |-> c[a]]
    <3>. HIDE DEF c, size
    <3>. QED  BY <1>5, <2>1
  <2>3. \A a \in cfg.size .. cfg.size + Guard - 1 :
          a \in Places /\ a \notin p + new .. End(f) + new - old - 1 /\ f.cells[a] = Foreign
    <3>1. \A a \in cfg.size .. cfg.size + Guard - 1 :
            a \in Places /\ a \notin p + new .. End(f) + new - old - 1
      <4>1. End(f) + new - old <= cfg.size /\ End(f) + new - old \in Int
        BY <1>1, <1>3
      <4>. HIDE DEF p
      <4>. QED  BY <1>1, <4>1 DEF Places
    <3>2. \A a \in cfg.size .. cfg.size + Guard - 1 : f.cells[a] = Foreign
      BY <1>2 DEF Held
    <3>. QED  BY <3>1, <3>2
  <2>. HIDE DEF c, p
  <2>. QED  BY <1>6, <2>2, <2>3 DEF Held
<1>8. g = [f EXCEPT !.cells = c, !.structSize = f.structSize + new - old,
                    !.stringsOff = f.stringsOff + new - old]
  <2>1. Splice(f, p, old, new) = [f EXCEPT !.cells = c]
    BY DEF Splice
  <2>2. g = [Splice(f, p, old, new) EXCEPT
               !.structSize = @ + new - old, !.stringsOff = @ + new - old]
    BY DEF SpliceStruct
  <2>. HIDE DEF c, p
  <2>. QED  BY <1>2, <2>1, <2>2 DEF Fields
<1>9. f.structSize + new - old \in Nat /\ f.stringsOff + new - old \in Nat
  BY <1>1
<1>. HIDE DEF c, n, size
<1>10. /\ Fields(g) /\ g.rsvOff = f.rsvOff /\ g.structOff = f.structOff
       /\ g.structSize = f.structSize + new - old /\ g.stringsOff = f.stringsOff + new - old
       /\ g.stringsSize = f.stringsSize /\ g.total = f.total /\ g.cells = c
  BY <1>2, <1>8, <1>9 DEF Fields
<1>. QED  BY <1>6, <1>7, <1>10


(* A property with its value in the place of what was from q to r *)
PutFits(f, tags, q, r, off, old, new, value, head) ==
  /\ cfg.size \in Nat /\ Buffer(f) /\ WellTagged(f, tags)
  /\ q \in tags \cup {f.structSize} /\ r \in tags \cup {f.structSize} /\ 0 < q
  /\ off \in Nat /\ old \in Nat /\ new \in Nat /\ q <= off /\ off + old = r
  /\ value \in Seq(ToSet(value)) /\ head[1] = "prop" /\ head[2] = Len(value)
  /\ off + new = q + 1 + Len(value) /\ SpliceFits(f, old, new)

(* g is f with these words in the place of the cells from q to r of the    *)
(* structure block, and what follows them moved.                           *)
Replaced(f, g, q, r, words) ==
  LET more == Len(words) - (r - q)
  IN  /\ g.rsvOff = f.rsvOff /\ g.structOff = f.structOff /\ g.total = f.total
      /\ g.structSize = f.structSize + more /\ g.stringsOff = f.stringsOff + more
      /\ g.stringsSize = f.stringsSize
      /\ \A a \in 0 .. f.structOff + q - 1 : g.cells[a] = f.cells[a]
      /\ \A k \in 1 .. Len(words) : g.cells[f.structOff + q + k - 1] = words[k]
      /\ \A a \in f.structOff + r .. End(f) - 1 : g.cells[a + more] = f.cells[a]

Put(f, q, off, old, new, value, head) ==
  LET s == SpliceStruct(f, off, old, new)
  IN  Write(s, s.structOff + q, <<head>> \o value)

LEMMA PutRight ==
  ASSUME NEW f, NEW tags, NEW q, NEW r, NEW off, NEW old, NEW new, NEW value, NEW head,
         PutFits(f, tags, q, r, off, old, new, value, head),
         NEW g, g = Put(f, q, off, old, new, value, head)
  PROVE  /\ Buffer(g) /\ WellTagged(g, TagsPut(tags, q, r, Len(value)))
         /\ End(g) = End(f) + new - old
         /\ \A t \in 0 .. q - 1 : Tag(g, t) = Tag(f, t)
         /\ Replaced(f, g, q, r, <<head>> \o value)
<1>. DEFINE n == f.structSize
            words == <<head>> \o value
            more == q + 1 + Len(value) - r
            S == f.structOff
            E == End(f)
            L == Len(value)
            Z == cfg.size
            P == Places
            s == SpliceStruct(f, off, old, new)
<1>0. /\ cfg.size \in Nat /\ Buffer(f) /\ WellTagged(f, tags)
      /\ q \in tags \cup {f.structSize} /\ r \in tags \cup {f.structSize} /\ 0 < q
      /\ off \in Nat /\ old \in Nat /\ new \in Nat /\ q <= off /\ off + old = r
      /\ value \in Seq(ToSet(value)) /\ head[1] = "prop" /\ head[2] = Len(value)
      /\ off + new = q + 1 + Len(value) /\ SpliceFits(f, old, new)
  BY DEF PutFits
<1>00. g = Write(s, s.structOff + q, words)
  BY DEF Put
<1>01. s = SpliceStruct(f, off, old, new)
  OBVIOUS
<1>. HIDE DEF s
<1>1. /\ {f.rsvOff, f.structOff, f.structSize, f.stringsOff, f.stringsSize} \subseteq Nat
      /\ End(f) \in Nat /\ End(f) <= cfg.size /\ Guard \in Nat
      /\ f.structOff + f.structSize <= f.stringsOff /\ f.stringsOff <= End(f)
  BY <1>0, BufferFacts, FdtAssumption
<1>2. q \in Nat /\ r \in Nat /\ q <= n /\ r <= n
  <2>1. tags \subseteq 0 .. n - 1
    BY <1>0 DEF WellTagged
  <2>2. q \in tags \cup {n} /\ r \in tags \cup {n}
    BY <1>0
  <2>3. n \in Nat
    BY <1>1
  <2>. HIDE DEF n
  <2>. QED  BY ONLY <2>1, <2>2, <2>3
<1>3. /\ Fields(s) /\ s.rsvOff = f.rsvOff /\ s.structOff = f.structOff
      /\ s.structSize = n + new - old /\ s.stringsOff = f.stringsOff + new - old
      /\ s.stringsSize = f.stringsSize /\ s.total = f.total
      /\ Held(s.cells)
      /\ \A a \in P : s.cells[a] =
           IF a \in S + off + new .. E + new - old - 1
           THEN f.cells[a - new + old] ELSE f.cells[a]
  <2>1. off + old <= f.structSize
    <3>1. off + old = r /\ r <= f.structSize
      BY ONLY <1>0, <1>2 DEF n
    <3>. QED  BY ONLY <3>1
  <2>2. /\ cfg.size \in Nat /\ Buffer(f) /\ off \in Nat /\ old \in Nat /\ new \in Nat
        /\ SpliceFits(f, old, new)
    BY ONLY <1>0
  <2>. QED  BY ONLY <1>01, <2>1, <2>2, Spliced DEF n, S, E, P
<1>4. f.total = cfg.size /\ E + new - old <= Z /\ L \in Nat
  <2>1. f.total = cfg.size
    BY <1>0 DEF Buffer
  <2>2. End(f) - old + new <= cfg.size
    BY <1>0, <2>1 DEF SpliceFits
  <2>3. E \in Nat /\ Z \in Nat /\ E - old + new <= Z /\ L \in Nat
    BY <1>0, <1>1, <2>2
  <2>4. old \in Nat /\ new \in Nat
    BY <1>0
  <2>. HIDE DEF E, Z, L
  <2>. QED  BY ONLY <2>1, <2>3, <2>4
<1>5. Len(words) = 1 + L /\ words[1] = head
  BY <1>0
<1>6. /\ S \in Nat /\ E \in Nat /\ L \in Nat /\ Z \in Nat /\ n \in Nat
      /\ q \in Nat /\ r \in Nat /\ off \in Nat /\ old \in Nat /\ new \in Nat
      /\ 0 < q /\ q <= off /\ off + old = r /\ r <= n /\ off + new = q + 1 + L
      /\ S + n <= E /\ E <= Z /\ E + new - old <= Z
  <2>1. /\ f.structOff \in Nat /\ f.structSize \in Nat /\ f.stringsOff \in Nat /\ End(f) \in Nat
    BY ONLY <1>1
  <2>2. S \in Nat /\ n \in Nat /\ E \in Nat /\ S + n <= E /\ E <= Z
    <3>1. f.structOff + f.structSize <= f.stringsOff /\ f.stringsOff <= End(f) /\ End(f) <= cfg.size
      BY ONLY <1>1
    <3>2. S + n <= f.stringsOff /\ f.stringsOff <= E /\ E <= Z /\ S \in Nat /\ n \in Nat /\ E \in Nat
      BY <2>1, <3>1
    <3>. HIDE DEF S, n, E, Z
    <3>. QED  BY ONLY <2>1, <3>2
  <2>3. /\ off \in Nat /\ old \in Nat /\ new \in Nat /\ 0 < q /\ q <= off /\ off + old = r
        /\ off + new = q + 1 + L /\ Z \in Nat
    BY ONLY <1>0 DEF L, Z
  <2>. HIDE DEF S, n, E, Z, L
  <2>. QED  BY ONLY <1>2, <1>4, <2>2, <2>3
<1>7. \A a \in Int : a >= 0 /\ a < Z => a \in P
  BY <1>0, <1>1 DEF Places
<1>8. more = q + 1 + L - r
  OBVIOUS
<1>. HIDE DEF words, S, E, L, Z, n, more, P
<1>9. more = new - old /\ more \in Int /\ n + more = n + new - old
  BY ONLY <1>6, <1>8
<1>10. /\ g = [s EXCEPT !.cells = g.cells] /\ Held(g.cells)
       /\ \A a \in P : g.cells[a]
            = IF a \in S + q .. S + off + new - 1
              THEN words[a - (S + q) + 1] ELSE s.cells[a]
  <2>. DEFINE at == S + q
  <2>1. /\ at \in Nat /\ at + Len(words) <= Z /\ Len(words) \in Nat
        /\ at + Len(words) - 1 = S + off + new - 1
    BY ONLY <1>5, <1>6
  <2>2. g = Write(s, at, words)
    BY ONLY <1>00, <1>3 DEF at, S
  <2>. HIDE DEF at
  <2>3. /\ Write(s, at, words) = [s EXCEPT !.cells = Write(s, at, words).cells]
        /\ Held(Write(s, at, words).cells)
        /\ \A a \in P : Write(s, at, words).cells[a]
             = IF a \in at .. at + Len(words) - 1 THEN words[a - at + 1] ELSE s.cells[a]
    <3>1. cfg.size \in Nat /\ at + Len(words) <= cfg.size
      BY <1>0, <2>1 DEF Z
    <3>2. Fields(s) /\ Held(s.cells)
      BY <1>3
    <3>3. at \in Nat /\ Len(words) \in Nat
      BY <2>1
    <3>. QED  BY ONLY <3>1, <3>2, <3>3, WriteHeld DEF P
  <2>4. /\ g = [s EXCEPT !.cells = g.cells] /\ Held(g.cells)
        /\ \A a \in P : g.cells[a]
             = IF a \in at .. at + Len(words) - 1 THEN words[a - at + 1] ELSE s.cells[a]
    BY ONLY <2>2, <2>3
  <2>. QED  BY ONLY <2>1, <2>4 DEF at
<1>11. /\ Fields(g) /\ g.rsvOff = f.rsvOff /\ g.structOff = f.structOff
       /\ g.structSize = n + new - old /\ g.stringsOff = f.stringsOff + new - old
       /\ g.stringsSize = f.stringsSize /\ g.total = f.total
  BY ONLY <1>3, <1>10 DEF Fields
<1>12. End(g) = E + new - old
  BY ONLY <1>1, <1>6, <1>11 DEF End, E
<1>13. Buffer(g)
  <2>1. InOrder(f) /\ cfg.size = Z
    BY <1>0 DEF Buffer, Z
  <2>2. InOrder(g)
    <3>1. /\ Header <= f.rsvOff /\ f.rsvOff < f.structOff
          /\ f.structOff + n <= f.stringsOff /\ f.stringsOff \in Nat /\ f.structOff \in Nat
      BY ONLY <1>1, <2>1 DEF InOrder, n
    <3>2. g.total = Z
      BY ONLY <1>4, <1>11, <2>1
    <3>3. g.structOff + g.structSize <= g.stringsOff
      BY ONLY <1>6, <1>11, <3>1
    <3>. QED  BY ONLY <1>6, <1>11, <1>12, <3>1, <3>2, <3>3 DEF InOrder
  <2>. QED  BY ONLY <1>4, <1>10, <1>11, <2>1, <2>2 DEF Buffer
<1>14. \A t \in 0 .. q - 1 : Tag(g, t) = Tag(f, t)
  <2>1. ASSUME NEW t \in 0 .. q - 1 PROVE g.cells[S + t] = f.cells[S + t]
    <3>. DEFINE a == S + t
    <3>1. /\ a \in Int /\ a >= 0 /\ a < Z /\ a < S + q /\ a < S + off + new
      BY ONLY <1>6, <2>1
    <3>. HIDE DEF a
    <3>2. a \in P
      BY ONLY <1>7, <3>1
    <3>3. a \notin S + q .. S + off + new - 1 /\ a \notin S + off + new .. E + new - old - 1
      BY ONLY <1>6, <3>1
    <3>4. g.cells[a] = f.cells[a]
      BY ONLY <1>3, <1>10, <3>2, <3>3
    <3>. QED  BY ONLY <3>4 DEF a
  <2>. QED  BY ONLY <1>11, <2>1 DEF Tag, S
<1>15. Tag(g, q) = head
  <2>. DEFINE a == S + q
  <2>1. /\ a \in Int /\ a >= 0 /\ a < Z /\ a >= S + q /\ a <= S + off + new - 1
        /\ a - (S + q) + 1 = 1
    BY ONLY <1>6
  <2>. HIDE DEF a
  <2>2. a \in P
    BY ONLY <1>7, <2>1
  <2>3. a \in S + q .. S + off + new - 1
    BY ONLY <1>6, <2>1
  <2>4. g.cells[a] = words[1]
    BY ONLY <1>10, <2>1, <2>2, <2>3
  <2>. QED  BY ONLY <1>5, <1>11, <2>4 DEF Tag, a, S
<1>16. \A t \in r .. n - 1 : Tag(g, t + more) = Tag(f, t)
  <2>1. ASSUME NEW t \in r .. n - 1 PROVE g.cells[S + (t + more)] = f.cells[S + t]
    <3>. DEFINE a == S + (t + more)
    <3>1. /\ a \in Int /\ a >= 0 /\ a < Z /\ a >= S + off + new /\ a < E + new - old
          /\ a - new + old = S + t
      BY ONLY <1>6, <1>9, <2>1
    <3>. HIDE DEF a
    <3>2. a \in P
      BY ONLY <1>7, <3>1
    <3>3. a \notin S + q .. S + off + new - 1 /\ a \in S + off + new .. E + new - old - 1
      BY ONLY <1>6, <3>1
    <3>4. g.cells[a] = f.cells[S + t]
      BY ONLY <1>3, <1>10, <3>1, <3>2, <3>3
    <3>. QED  BY ONLY <3>4 DEF a
  <2>. QED  BY ONLY <1>11, <2>1 DEF Tag, S
<1>17. WellTagged(g, TagsPut(tags, q, r, L))
  <2>1. /\ f.structSize \in Nat /\ q \in tags \cup {f.structSize}
        /\ r \in tags \cup {f.structSize} /\ WellTagged(f, tags)
        /\ head[1] = "prop" /\ head[2] = L
    BY <1>0, <1>1 DEF L
  <2>2. Tag(g, q)[1] = "prop" /\ Tag(g, q)[2] = L /\ L \in Nat /\ 0 < q /\ q <= r
    BY ONLY <1>6, <1>15, <2>1
  <2>3. g.structSize = f.structSize + (q + 1 + L - r)
    BY ONLY <1>8, <1>9, <1>11 DEF n
  <2>4. \A t \in r .. f.structSize - 1 : Tag(g, t + (q + 1 + L - r)) = Tag(f, t)
    BY ONLY <1>8, <1>16 DEF n
  <2>. QED  BY ONLY <1>14, <2>1, <2>2, <2>3, <2>4, PropertyPut
<1>18. \A a \in 0 .. S + q - 1 : g.cells[a] = f.cells[a]
  <2>1. ASSUME NEW a \in 0 .. S + q - 1 PROVE g.cells[a] = f.cells[a]
    <3>1. a \in Int /\ a >= 0 /\ a < Z /\ a < S + q /\ a < S + off + new
      BY ONLY <1>6, <2>1
    <3>2. a \in P
      BY ONLY <1>7, <3>1
    <3>3. a \notin S + q .. S + off + new - 1 /\ a \notin S + off + new .. E + new - old - 1
      BY ONLY <1>6, <3>1
    <3>. QED  BY ONLY <1>3, <1>10, <3>2, <3>3
  <2>. QED  BY ONLY <2>1
<1>19. \A k \in 1 .. Len(words) : g.cells[S + q + k - 1] = words[k]
  <2>1. ASSUME NEW k \in 1 .. Len(words) PROVE g.cells[S + q + k - 1] = words[k]
    <3>. DEFINE a == S + q + k - 1
    <3>1. /\ a \in Int /\ a >= 0 /\ a < Z /\ a >= S + q /\ a <= S + off + new - 1
          /\ a - (S + q) + 1 = k
      BY ONLY <1>5, <1>6, <2>1
    <3>. HIDE DEF a
    <3>2. a \in P
      BY ONLY <1>7, <3>1
    <3>3. a \in S + q .. S + off + new - 1
      BY ONLY <1>6, <3>1
    <3>4. g.cells[a] = words[k]
      BY ONLY <1>10, <3>1, <3>2, <3>3
    <3>. QED  BY ONLY <3>4 DEF a
  <2>. QED  BY ONLY <2>1
<1>20. \A a \in S + r .. E - 1 : g.cells[a + more] = f.cells[a]
  <2>1. ASSUME NEW b \in S + r .. E - 1 PROVE g.cells[b + more] = f.cells[b]
    <3>. DEFINE a == b + more
    <3>1. /\ a \in Int /\ a >= 0 /\ a < Z /\ a >= S + off + new /\ a < E + new - old
          /\ a - new + old = b
      BY ONLY <1>6, <1>9, <2>1
    <3>. HIDE DEF a
    <3>2. a \in P
      BY ONLY <1>7, <3>1
    <3>3. a \notin S + q .. S + off + new - 1 /\ a \in S + off + new .. E + new - old - 1
      BY ONLY <1>6, <3>1
    <3>4. g.cells[a] = f.cells[b]
      BY ONLY <1>3, <1>10, <3>1, <3>2, <3>3
    <3>. QED  BY ONLY <3>4 DEF a
  <2>. QED  BY ONLY <2>1
<1>21. Replaced(f, g, q, r, words)
  <2>1. Len(words) - (r - q) = more
    BY ONLY <1>5, <1>6, <1>8
  <2>2. g.structSize = n + more /\ g.stringsOff = f.stringsOff + more
    <3>1. f.stringsOff \in Nat
      BY ONLY <1>1
    <3>. QED  BY ONLY <1>6, <1>9, <1>11, <3>1
  <2>. QED  BY ONLY <1>11, <1>18, <1>19, <1>20, <2>1, <2>2 DEF Replaced, S, E, n
<1>. QED  BY <1>12, <1>13, <1>14, <1>17, <1>21 DEF E, L, words


(* g is f with these words after the strings block. *)
Appended(f, g, words) ==
  /\ g.rsvOff = f.rsvOff /\ g.structOff = f.structOff /\ g.structSize = f.structSize
  /\ g.stringsOff = f.stringsOff /\ g.total = f.total
  /\ g.stringsSize = f.stringsSize + Len(words)
  /\ \A a \in 0 .. End(f) - 1 : g.cells[a] = f.cells[a]
  /\ \A k \in 1 .. Len(words) : g.cells[End(f) + k - 1] = words[k]

(* A string goes behind the last one, where no tag is. *)
LEMMA StringAdded ==
  ASSUME cfg.size \in Nat, NEW f, Buffer(f), NEW tags, WellTagged(f, tags),
         NEW V, NEW str \in Seq(V), SpliceFits(f, 0, Len(str) + 1),
         NEW g, g = AddString(f, str)
  PROVE  /\ Buffer(g) /\ WellTagged(g, tags)
         /\ End(g) = End(f) + Len(str) + 1 /\ g.structSize = f.structSize
         /\ g.stringsSize = f.stringsSize + Len(str) + 1
         /\ \A t \in 0 .. f.structSize - 1 : Tag(g, t) = Tag(f, t)
         /\ Appended(f, g, str \o <<Nul>>)
<1>. DEFINE words == str \o <<Nul>>
            w == Write(f, End(f), words)
            E == End(f)
            L == Len(str)
<1>1. /\ {f.rsvOff, f.structOff, f.structSize, f.stringsOff, f.stringsSize} \subseteq Nat
      /\ End(f) \in Nat /\ End(f) <= cfg.size /\ Guard \in Nat
      /\ f.structOff + f.structSize <= f.stringsOff /\ f.stringsOff <= End(f)
  BY BufferFacts, FdtAssumption
<1>2. f.structOff \in Nat /\ f.structSize \in Nat /\ f.stringsOff \in Nat /\ f.stringsSize \in Nat
  BY ONLY <1>1
<1>3. Fields(f) /\ Held(f.cells) /\ InOrder(f) /\ f.total = cfg.size
  BY DEF Buffer
<1>4. L \in Nat /\ Len(words) = L + 1
  OBVIOUS
<1>5. E + L + 1 <= cfg.size
  <2>1. End(f) - 0 + (Len(str) + 1) <= cfg.size
    BY <1>3 DEF SpliceFits
  <2>. HIDE DEF E, L
  <2>. QED  BY ONLY <1>1, <1>4, <2>1 DEF E, L
<1>6. /\ w = [f EXCEPT !.cells = w.cells] /\ Held(w.cells)
      /\ \A a \in Places : w.cells[a]
           = IF a \in E .. E + Len(words) - 1 THEN words[a - E + 1] ELSE f.cells[a]
  <2>1. E \in Nat /\ Len(words) \in Nat /\ E + Len(words) <= cfg.size /\ cfg.size \in Nat
    <3>. HIDE DEF E, L, words
    <3>1. E \in Nat /\ cfg.size \in Nat
      BY <1>1 DEF E
    <3>. QED  BY ONLY <1>4, <1>5, <3>1
  <2>. HIDE DEF E, L, words
  <2>2. Fields(f) /\ Held(f.cells)
    BY <1>3
  <2>. QED  BY ONLY <2>1, <2>2, WriteHeld DEF E
<1>7. g = [w EXCEPT !.stringsSize = @ + Len(str) + 1]
  BY DEF AddString
<1>. HIDE DEF w, words
<1>8. /\ Fields(g) /\ g.cells = w.cells /\ g.rsvOff = f.rsvOff /\ g.structOff = f.structOff
      /\ g.structSize = f.structSize /\ g.stringsOff = f.stringsOff
      /\ g.stringsSize = f.stringsSize + L + 1 /\ g.total = f.total
  <2>1. f.stringsSize + L + 1 \in Nat
    BY ONLY <1>2, <1>4
  <2>2. g = [w EXCEPT !.stringsSize = w.stringsSize + L + 1] /\ w.stringsSize = f.stringsSize
    BY ONLY <1>3, <1>6, <1>7 DEF Fields
  <2>3. g = [w EXCEPT !.stringsSize = f.stringsSize + L + 1]
    BY ONLY <2>2
  <2>. HIDE DEF L
  <2>. QED  BY ONLY <1>3, <1>6, <2>1, <2>3 DEF Fields
<1>9. End(g) = E + L + 1
  <2>1. E = f.stringsOff + f.stringsSize
    BY DEF End
  <2>2. End(g) = f.stringsOff + (f.stringsSize + L + 1)
    BY ONLY <1>8 DEF End
  <2>3. L \in Int
    BY ONLY <1>4
  <2>. DEFINE x == f.stringsOff
              y == f.stringsSize
  <2>4. x \in Int /\ y \in Int /\ E = x + y /\ End(g) = x + (y + L + 1)
    BY ONLY <1>2, <2>1, <2>2
  <2>. HIDE DEF E, L, x, y
  <2>. QED  BY ONLY <2>3, <2>4
<1>10. Buffer(g)
  <2>1. Header <= f.rsvOff /\ f.rsvOff < f.structOff /\ f.structOff + f.structSize <= f.stringsOff
    BY ONLY <1>3 DEF InOrder
  <2>2. InOrder(g)
    <3>. HIDE DEF E, L
    <3>. QED  BY ONLY <1>3, <1>5, <1>8, <1>9, <2>1 DEF InOrder
  <2>. QED  BY ONLY <1>3, <1>6, <1>8, <2>2 DEF Buffer
<1>11. \A t \in 0 .. f.structSize - 1 : Tag(g, t) = Tag(f, t)
  <2>1. ASSUME NEW t \in 0 .. f.structSize - 1
        PROVE  g.cells[f.structOff + t] = f.cells[f.structOff + t]
    <3>. DEFINE a == f.structOff + t
    <3>0. cfg.size \in Nat /\ Guard \in Nat /\ E \in Nat /\ E <= cfg.size
          /\ f.structOff + f.structSize <= E
      <4>1. cfg.size \in Nat /\ E \in Nat /\ E <= cfg.size /\ f.stringsOff <= E
            /\ Guard \in Nat /\ f.structOff + f.structSize <= f.stringsOff
        BY <1>1
      <4>. HIDE DEF E
      <4>. QED  BY ONLY <1>2, <4>1
    <3>1. a \in Int /\ a >= 0 /\ a < cfg.size /\ a < E
      <4>1. t \in Int /\ 0 <= t /\ t < f.structSize /\ f.structSize \in Nat /\ f.structOff \in Nat
        BY ONLY <1>2, <2>1
      <4>. DEFINE e == f.structOff + f.structSize
      <4>2. a \in Int /\ a >= 0 /\ a < e /\ e \in Int
        BY ONLY <4>1 DEF a, e
      <4>3. e <= E
        BY ONLY <3>0 DEF e
      <4>. HIDE DEF a, e, E
      <4>. QED  BY ONLY <3>0, <4>2, <4>3
    <3>. HIDE DEF a, E
    <3>2. a \in Places
      BY ONLY <3>0, <3>1 DEF Places
    <3>3. a \notin E .. E + Len(words) - 1
      BY ONLY <1>4, <3>0, <3>1
    <3>4. g.cells[a] = f.cells[a]
      BY ONLY <1>6, <1>8, <3>2, <3>3
    <3>. QED  BY ONLY <3>4 DEF a
  <2>. QED  BY ONLY <1>8, <2>1 DEF Tag
<1>12. WellTagged(g, tags)
  <2>1. WellTagged(f, tags) /\ g.structSize = f.structSize
    BY <1>8
  <2>. QED  BY ONLY <1>2, <1>11, <2>1, SameTags
<1>13. /\ E \in Nat /\ cfg.size \in Nat /\ E + Len(words) <= cfg.size /\ Guard \in Nat
       /\ Len(words) = L + 1 /\ L \in Nat
  <2>1. E \in Nat /\ cfg.size \in Nat /\ Guard \in Nat
    BY <1>1
  <2>. HIDE DEF E, L
  <2>. QED  BY ONLY <1>4, <1>5, <2>1
<1>14. \A a \in 0 .. E - 1 : g.cells[a] = f.cells[a]
  <2>1. ASSUME NEW a \in 0 .. E - 1 PROVE g.cells[a] = f.cells[a]
    <3>. HIDE DEF E, L
    <3>1. a \in Places /\ a \notin E .. E + Len(words) - 1
      BY ONLY <1>13, <2>1 DEF Places
    <3>. QED  BY ONLY <1>6, <1>8, <3>1
  <2>. QED  BY ONLY <2>1
<1>15. \A k \in 1 .. Len(words) : g.cells[E + k - 1] = words[k]
  <2>1. ASSUME NEW k \in 1 .. Len(words) PROVE g.cells[E + k - 1] = words[k]
    <3>. DEFINE a == E + k - 1
    <3>1. a \in 0 .. cfg.size + Guard - 1 /\ a \in E .. E + Len(words) - 1 /\ a - E + 1 = k
      <4>. HIDE DEF E, L
      <4>. QED  BY ONLY <1>13, <2>1
    <3>. HIDE DEF a, E, L
    <3>2. g.cells[a] = words[k]
      BY ONLY <1>6, <1>8, <3>1 DEF Places
    <3>. QED  BY ONLY <3>2 DEF a
  <2>. QED  BY ONLY <2>1
<1>16. Appended(f, g, words)
  <2>1. g.stringsSize = f.stringsSize + Len(words)
    <3>1. g.stringsSize = f.stringsSize + L + 1
      BY ONLY <1>8
    <3>2. f.stringsSize \in Nat
      BY ONLY <1>2
    <3>3. Len(words) = L + 1 /\ L \in Nat
      BY ONLY <1>13
    <3>. HIDE DEF E, L, words
    <3>. QED  BY ONLY <3>1, <3>2, <3>3
  <2>. QED  BY ONLY <1>8, <1>14, <1>15, <2>1 DEF Appended
<1>. QED  BY ONLY <1>8, <1>9, <1>10, <1>11, <1>12, <1>16 DEF words

LEMMA NamedRight ==
  ASSUME cfg.size \in Nat, NEW f, Buffer(f), NEW tags, WellTagged(f, tags),
         NEW V, NEW str \in Seq(V), HasString(f, str) \/ SpliceFits(f, 0, Len(str) + 1),
         NEW g, g = WithString(f, str)
  PROVE  /\ Buffer(g) /\ WellTagged(g, tags)
         /\ End(g) \in Nat /\ End(g) <= End(f) + Len(str) + 1 /\ g.structSize = f.structSize
         /\ ~HasString(f, str) => g.stringsSize = f.stringsSize + Len(str) + 1
         /\ \A t \in 0 .. f.structSize - 1 : Tag(g, t) = Tag(f, t)
         /\ IF HasString(f, str) THEN g = f ELSE Appended(f, g, str \o <<Nul>>)
<1>a. End(f) \in Nat /\ Len(str) \in Nat
  <2>1. cfg.size \in Nat /\ Buffer(f)
    OBVIOUS
  <2>2. End(f) \in Nat
    BY ONLY <2>1, BufferFacts
  <2>3. Len(str) \in Nat
    OBVIOUS
  <2>. QED  BY <2>2, <2>3
<1>1. CASE HasString(f, str)
  <2>1. g = f
    BY <1>1 DEF WithString
  <2>2. End(f) \in Nat /\ Len(str) \in Nat
    BY <1>a
  <2>3. End(f) <= End(f) + Len(str) + 1
    BY ONLY <2>2
  <2>. QED  BY <1>1, <2>1, <2>2, <2>3
<1>2. CASE ~HasString(f, str)
  <2>1. g = AddString(f, str) /\ SpliceFits(f, 0, Len(str) + 1)
    BY <1>2 DEF WithString
  <2>2. End(f) \in Nat /\ Len(str) \in Nat
    BY <1>a
  <2>3. /\ Buffer(g) /\ WellTagged(g, tags)
        /\ End(g) = End(f) + Len(str) + 1 /\ g.structSize = f.structSize
        /\ g.stringsSize = f.stringsSize + Len(str) + 1
        /\ \A t \in 0 .. f.structSize - 1 : Tag(g, t) = Tag(f, t)
        /\ Appended(f, g, str \o <<Nul>>)
    BY <2>1, StringAdded
  <2>4. End(g) \in Nat /\ End(g) <= End(f) + Len(str) + 1
    BY ONLY <2>2, <2>3
  <2>. QED  BY ONLY <1>2, <2>3, <2>4
<1>. QED  BY <1>1, <1>2

(* Taken back, the string leaves a tree in the buffer. *)
LEMMA RolledBackRight ==
  ASSUME cfg.size \in Nat, NEW f, Buffer(f), NEW tags, WellTagged(f, tags),
         NEW k \in Nat, k <= f.stringsSize,
         NEW g, g = [f EXCEPT !.stringsSize = @ - k]
  PROVE  /\ Buffer(g) /\ WellTagged(g, tags) /\ g.structSize = f.structSize
         /\ \A t \in 0 .. f.structSize - 1 : Tag(g, t) = Tag(f, t)
<1>1. /\ {f.rsvOff, f.structOff, f.structSize, f.stringsOff, f.stringsSize} \subseteq Nat
      /\ End(f) \in Nat /\ End(f) <= cfg.size
  BY BufferFacts
<1>2. f.structSize \in Nat /\ f.stringsSize \in Nat /\ f.stringsOff \in Nat
  BY ONLY <1>1
<1>3. Fields(f) /\ Held(f.cells) /\ InOrder(f) /\ f.total = cfg.size
  BY DEF Buffer
<1>4. f.stringsSize - k \in Nat
  BY <1>2
<1>5. /\ Fields(g) /\ g.cells = f.cells /\ g.rsvOff = f.rsvOff /\ g.structOff = f.structOff
      /\ g.structSize = f.structSize /\ g.stringsOff = f.stringsOff
      /\ g.stringsSize = f.stringsSize - k /\ g.total = f.total
  BY <1>3, <1>4 DEF Fields
<1>6. InOrder(g)
  <2>1. End(g) <= End(f)
    <3>1. k \in Nat
      OBVIOUS
    <3>. QED  BY ONLY <1>2, <1>5, <3>1 DEF End
  <2>2. End(g) \in Nat
    BY ONLY <1>2, <1>4, <1>5 DEF End
  <2>3. f.total \in Nat
    BY <1>3
  <2>. QED  BY ONLY <1>1, <1>3, <1>5, <2>1, <2>2, <2>3 DEF InOrder
<1>7. Buffer(g)
  BY ONLY <1>3, <1>5, <1>6 DEF Buffer
<1>8. \A t \in 0 .. f.structSize - 1 : Tag(g, t) = Tag(f, t)
  BY ONLY <1>5 DEF Tag
<1>9. WellTagged(g, tags)
  <2>1. WellTagged(f, tags) /\ g.structSize = f.structSize
    BY <1>5
  <2>. QED  BY ONLY <1>2, <1>8, <2>1, SameTags
<1>. QED  BY ONLY <1>5, <1>7, <1>8, <1>9


(* The trees that are embedded are sound. *)
LEMMA DtbFacts ==
  ASSUME cfg \in Patches, NEW dtb, dtb = cfg.dtb
  PROVE  /\ cfg.size \in Nat /\ Sound(dtb)
         /\ dtb \in [cells : {dtb.cells}, rsvOff : Nat, structOff : Nat, structSize : Nat,
                   stringsOff : Nat, stringsSize : Nat, total : Nat]
         /\ DOMAIN dtb.cells = 0 .. dtb.total - 1
         /\ dtb.structOff + dtb.structSize <= dtb.total /\ End(dtb) <= dtb.total
         /\ WellTagged(dtb, Tags(dtb)) /\ Packed(dtb) <= dtb.total
         /\ \E k \in 0 .. dtb.total - dtb.rsvOff - 1 : dtb.cells[dtb.rsvOff + k] = Nul
<1>1. cfg.size \in Nat /\ Sound(dtb)
  BY FdtAssumption
<1>2. IsTree(dtb)
  BY <1>1 DEF Sound
<1>3. dtb \in [cells : {dtb.cells}, rsvOff : Nat, structOff : Nat, structSize : Nat,
              stringsOff : Nat, stringsSize : Nat, total : Nat]
  BY ONLY <1>2 DEF IsTree
<1>4. DOMAIN dtb.cells = 0 .. dtb.total - 1
  BY ONLY <1>2 DEF IsTree
<1>5. dtb.structOff + dtb.structSize <= dtb.total /\ End(dtb) <= dtb.total
  BY ONLY <1>2 DEF IsTree
<1>6. /\ WellTagged(dtb, Tags(dtb)) /\ Packed(dtb) <= dtb.total
      /\ \E k \in 0 .. dtb.total - dtb.rsvOff - 1 : dtb.cells[dtb.rsvOff + k] = Nul
  BY ONLY <1>1 DEF Sound
<1>. QED  BY ONLY <1>1, <1>3, <1>4, <1>5, <1>6

LEMMA RsvRight ==
  ASSUME cfg \in Patches, NEW dtb, dtb = cfg.dtb
  PROVE  RsvSize(dtb) \in Nat /\ RsvSize(dtb) > 0
<1>1. /\ dtb.total \in Nat /\ dtb.rsvOff \in Nat
      /\ \E k \in 0 .. dtb.total - dtb.rsvOff - 1 : dtb.cells[dtb.rsvOff + k] = Nul
  <2>1. Sound(dtb)
    BY FdtAssumption
  <2>2. IsTree(dtb) /\ \E k \in 0 .. dtb.total - dtb.rsvOff - 1 : dtb.cells[dtb.rsvOff + k] = Nul
    BY ONLY <2>1 DEF Sound
  <2>3. dtb \in [cells : {dtb.cells}, rsvOff : Nat, structOff : Nat, structSize : Nat,
                stringsOff : Nat, stringsSize : Nat, total : Nat]
    BY ONLY <2>2 DEF IsTree
  <2>. QED  BY ONLY <2>2, <2>3
<1>. DEFINE K == {k \in 0 .. dtb.total : dtb.cells[dtb.rsvOff + k] = Nul}
            First(k) == /\ dtb.cells[dtb.rsvOff + k] = Nul
                        /\ \A j \in 0 .. k - 1 : dtb.cells[dtb.rsvOff + j] # Nul
            m == CHOOSE k \in 0 .. dtb.total : First(k)
<1>2. K \subseteq Nat /\ K # {}
  <2>1. \A k \in 0 .. dtb.total - dtb.rsvOff - 1 : k \in 0 .. dtb.total
    BY ONLY <1>1
  <2>. QED  BY ONLY <1>1, <2>1
<1>3. PICK k \in K : \A y \in K : k <= y
  <2>. HIDE DEF K
  <2>. QED  BY <1>2, LeastNumber
<1>4. First(k)
  <2>1. ASSUME NEW j \in 0 .. k - 1 PROVE dtb.cells[dtb.rsvOff + j] # Nul
    <3>1. j \in 0 .. dtb.total /\ ~ (k <= j)
      <4>1. k \in 0 .. dtb.total /\ j \in 0 .. k - 1
        BY <1>3, <2>1
      <4>. QED  BY ONLY <1>1, <4>1
    <3>2. j \notin K
      BY ONLY <1>3, <3>1
    <3>. QED  BY ONLY <3>1, <3>2
  <2>. QED  BY <2>1
<1>5. m \in 0 .. dtb.total
  <2>1. k \in 0 .. dtb.total
    OBVIOUS
  <2>. HIDE DEF First, K
  <2>. QED  BY <1>4, <2>1
<1>6. RsvSize(dtb) = 1 + m
  BY DEF RsvSize
<1>. HIDE DEF m
<1>. QED  BY ONLY <1>1, <1>5, <1>6

(* A copy within the buffer *)
CopyFits(c, dst, origin, n) ==
  /\ cfg.size \in Nat /\ dst \in Nat /\ origin \in Nat /\ n \in Nat
  /\ Held(c) /\ dst + n <= cfg.size

(* What is copied in is there, and all else is as it was. *)
LEMMA CopyRight ==
  ASSUME NEW c, NEW dst, NEW from, NEW origin, NEW n, CopyFits(c, dst, origin, n),
         NEW m, m = CopyIn(c, dst, from, origin, n)
  PROVE  /\ Held(m)
         /\ \A a \in Places : m[a] = IF a \in dst .. dst + n - 1 THEN from[origin + (a - dst)] ELSE c[a]
<1>. DEFINE new == [a \in dst .. dst + n - 1 |-> from[origin + (a - dst)]]
<1>1. m = Overlay(c, new)
  BY DEF CopyIn
<1>2. DOMAIN new = dst .. dst + n - 1 /\ \A a \in dst .. dst + n - 1 : new[a] = from[origin + (a - dst)]
  OBVIOUS
<1>. HIDE DEF new
<1>3. /\ m = [a \in Places |-> IF a \in dst .. dst + n - 1 THEN new[a] ELSE c[a]]
      /\ Held(m)
  <2>1. /\ cfg.size \in Nat /\ dst \in Nat /\ n \in Nat /\ Held(c) /\ dst + n <= cfg.size
    BY DEF CopyFits
  <2>2. DOMAIN new = dst .. dst + n - 1
    BY <1>2
  <2>3. /\ Overlay(c, new) = [a \in Places |-> IF a \in dst .. dst + n - 1 THEN new[a] ELSE c[a]]
        /\ Held(Overlay(c, new))
    BY ONLY <2>1, <2>2, OverlayRight
  <2>. QED  BY ONLY <1>1, <2>3
<1>. HIDE DEF Places
<1>. QED  BY ONLY <1>2, <1>3

LEMMA EmptyHeld ==
  ASSUME cfg.size \in Nat
  PROVE  Held(Empty(cfg.size).cells) /\ DOMAIN Empty(cfg.size).cells = Places
<1>. DEFINE c == [a \in Places |-> IF a < cfg.size THEN Nul ELSE Foreign]
<1>1. Empty(cfg.size).cells = c
  BY DEF Empty, Places
<1>2. \A a \in cfg.size .. cfg.size + Guard - 1 : a \in Places /\ ~ (a < cfg.size)
  BY FdtAssumption DEF Places
<1>3. c = [a \in Places |-> c[a]] /\ DOMAIN c = Places
  OBVIOUS
<1>4. \A a \in cfg.size .. cfg.size + Guard - 1 : c[a] = Foreign
  BY <1>2
<1>. HIDE DEF c
<1>. QED  BY <1>1, <1>3, <1>4 DEF Held

(* The blocks of h are those of g, wherever each is. *)
Opened(h, g) ==
  /\ g.structSize = h.structSize /\ g.stringsSize = h.stringsSize
  /\ \A k \in 0 .. RsvSize(h) - 1 : g.cells[g.rsvOff + k] = h.cells[h.rsvOff + k]
  /\ \A t \in 0 .. h.structSize - 1 : Tag(g, t) = Tag(h, t)
  /\ \A k \in 0 .. h.stringsSize - 1 : g.cells[g.stringsOff + k] = h.cells[h.stringsOff + k]

(* The tree moved as it is ... *)
LEMMA MovedRight ==
  ASSUME cfg \in Patches, fdt = Empty(cfg.size), ~Misordered(cfg.dtb),
         cfg.dtb.total <= cfg.size,
         NEW g, g = [cfg.dtb EXCEPT
                       !.cells = CopyIn(fdt.cells, 0, cfg.dtb.cells, 0, cfg.dtb.total),
                       !.total = NewTotal(cfg.dtb)]
  PROVE  /\ Buffer(g) /\ WellTagged(g, Tags(cfg.dtb)) /\ End(g) <= cfg.dtb.total
         /\ Opened(cfg.dtb, g)
<1>. DEFINE dtb == cfg.dtb
            m == CopyIn(fdt.cells, 0, dtb.cells, 0, dtb.total)
<1>1. /\ cfg.size \in Nat
      /\ dtb \in [cells : {dtb.cells}, rsvOff : Nat, structOff : Nat, structSize : Nat,
                stringsOff : Nat, stringsSize : Nat, total : Nat]
      /\ dtb.structOff + dtb.structSize <= dtb.total /\ End(dtb) <= dtb.total
      /\ WellTagged(dtb, Tags(dtb))
  BY DtbFacts
<1>2. /\ dtb.rsvOff \in Nat /\ dtb.structOff \in Nat /\ dtb.structSize \in Nat
      /\ dtb.stringsOff \in Nat /\ dtb.stringsSize \in Nat /\ dtb.total \in Nat
  BY ONLY <1>1
<1>3. RsvSize(dtb) \in Nat /\ RsvSize(dtb) > 0
  BY RsvRight
<1>4. dtb.total <= cfg.size /\ ~Misordered(dtb) /\ Guard \in Nat /\ Header \in Nat
  BY FdtAssumption
<1>5. Held(m) /\ \A a \in Places : a \in 0 .. dtb.total - 1 => m[a] = dtb.cells[a]
  <2>1. Held(fdt.cells)
    BY <1>1, EmptyHeld
  <2>. DEFINE z == 0
  <2>2. z \in Nat /\ z + dtb.total <= cfg.size /\ dtb.total \in Nat /\ cfg.size \in Nat
    BY ONLY <1>1, <1>2, <1>4
  <2>3. m = CopyIn(fdt.cells, z, dtb.cells, z, dtb.total)
    OBVIOUS
  <2>. HIDE DEF m, dtb, z
  <2>4. /\ Held(m)
        /\ \A a \in Places : m[a] = IF a \in z .. z + dtb.total - 1 THEN dtb.cells[z + (a - z)]
                                    ELSE fdt.cells[a]
    <3>1. CopyFits(fdt.cells, z, z, dtb.total)
      BY ONLY <2>1, <2>2 DEF CopyFits
    <3>. QED  BY ONLY <2>3, <3>1, CopyRight
  <2>5. \A a \in 0 .. dtb.total - 1 : a \in z .. z + dtb.total - 1 /\ z + (a - z) = a
    BY ONLY <1>2 DEF z
  <2>. QED  BY ONLY <2>4, <2>5
<1>6. g = [dtb EXCEPT !.cells = m, !.total = cfg.size]
  BY DEF NewTotal
<1>. HIDE DEF m, dtb
<1>7. /\ Fields(g) /\ g.cells = m /\ g.rsvOff = dtb.rsvOff /\ g.structOff = dtb.structOff
      /\ g.structSize = dtb.structSize /\ g.stringsOff = dtb.stringsOff
      /\ g.stringsSize = dtb.stringsSize /\ g.total = cfg.size
  BY ONLY <1>1, <1>6 DEF Fields
<1>8. End(g) = End(dtb)
  BY ONLY <1>7 DEF End
<1>9. InOrder(g)
  <2>1. /\ ~ (dtb.rsvOff < Header) /\ ~ (dtb.structOff < dtb.rsvOff + RsvSize(dtb))
        /\ ~ (dtb.stringsOff < dtb.structOff + dtb.structSize)
    BY ONLY <1>4 DEF Misordered
  <2>2. End(dtb) \in Nat
    BY ONLY <1>2 DEF End
  <2>3. End(dtb) <= cfg.size
    BY ONLY <1>1, <1>2, <1>4, <2>2
  <2>4. Header <= dtb.rsvOff /\ dtb.rsvOff < dtb.structOff /\ dtb.structOff + dtb.structSize <= dtb.stringsOff
    BY ONLY <1>2, <1>3, <1>4, <2>1
  <2>. QED  BY ONLY <1>7, <1>8, <2>3, <2>4 DEF InOrder
<1>10. Buffer(g)
  BY ONLY <1>5, <1>7, <1>9 DEF Buffer
<1>11. \A t \in 0 .. dtb.structSize - 1 : Tag(g, t) = Tag(dtb, t)
  <2>1. ASSUME NEW t \in 0 .. dtb.structSize - 1
        PROVE  m[dtb.structOff + t] = dtb.cells[dtb.structOff + t]
    <3>. DEFINE a == dtb.structOff + t
    <3>1. a \in 0 .. dtb.total - 1 /\ a \in 0 .. cfg.size + Guard - 1
      BY ONLY <1>1, <1>2, <1>4, <2>1
    <3>. HIDE DEF a
    <3>2. m[a] = dtb.cells[a]
      BY ONLY <1>5, <3>1 DEF Places
    <3>. QED  BY ONLY <3>2 DEF a
  <2>. QED  BY ONLY <1>7, <2>1 DEF Tag
<1>12. WellTagged(g, Tags(dtb))
  <2>1. WellTagged(dtb, Tags(dtb)) /\ g.structSize = dtb.structSize
    BY <1>1, <1>7
  <2>. QED  BY ONLY <1>2, <1>11, <2>1, SameTags
<1>13. \A a \in 0 .. dtb.total - 1 : m[a] = dtb.cells[a]
  <2>1. \A a \in 0 .. dtb.total - 1 : a \in 0 .. cfg.size + Guard - 1
    BY ONLY <1>1, <1>2, <1>4
  <2>. QED  BY ONLY <1>5, <2>1 DEF Places
<1>14. \A k \in 0 .. RsvSize(dtb) - 1 : g.cells[g.rsvOff + k] = dtb.cells[dtb.rsvOff + k]
  <2>1. ~ (dtb.structOff < dtb.rsvOff + RsvSize(dtb))
    BY ONLY <1>4 DEF Misordered
  <2>2. \A k \in 0 .. RsvSize(dtb) - 1 : dtb.rsvOff + k \in 0 .. dtb.total - 1
    BY ONLY <1>1, <1>2, <1>3, <2>1
  <2>. QED  BY ONLY <1>7, <1>13, <2>2
<1>15. \A k \in 0 .. dtb.stringsSize - 1 : g.cells[g.stringsOff + k] = dtb.cells[dtb.stringsOff + k]
  <2>1. dtb.stringsOff + dtb.stringsSize <= dtb.total
    BY ONLY <1>1 DEF End
  <2>2. \A k \in 0 .. dtb.stringsSize - 1 : dtb.stringsOff + k \in 0 .. dtb.total - 1
    BY ONLY <1>2, <2>1
  <2>. QED  BY ONLY <1>7, <1>13, <2>2
<1>16. Opened(dtb, g)
  BY ONLY <1>7, <1>11, <1>14, <1>15 DEF Opened
<1>. QED  BY ONLY <1>1, <1>8, <1>10, <1>12, <1>16 DEF dtb


(* ... or packed, block by block *)
Reordered(dtb, c) ==
  [dtb EXCEPT !.cells = c, !.rsvOff = Header, !.structOff = PackedStructOff(dtb),
            !.stringsOff = PackedStructOff(dtb) + dtb.structSize, !.total = cfg.size]

LEMMA PackedRight ==
  ASSUME cfg \in Patches, fdt = Empty(cfg.size), NEW dtb, dtb = cfg.dtb, Packed(dtb) <= cfg.size,
         NEW c1, c1 = CopyIn(fdt.cells, Header, dtb.cells, dtb.rsvOff, RsvSize(dtb)),
         NEW c2, c2 = CopyIn(c1, PackedStructOff(dtb), dtb.cells, dtb.structOff, dtb.structSize),
         NEW c3, c3 = CopyIn(c2, PackedStructOff(dtb) + dtb.structSize, dtb.cells,
                             dtb.stringsOff, dtb.stringsSize),
         NEW g, g = Reordered(dtb, c3)
  PROVE  /\ Buffer(g) /\ WellTagged(g, Tags(dtb)) /\ End(g) <= dtb.total
         /\ Opened(dtb, g)
<1>. DEFINE S == PackedStructOff(dtb)
            R == RsvSize(dtb)
            n == dtb.structSize
            Z == cfg.size
<1>1. /\ cfg.size \in Nat
      /\ dtb \in [cells : {dtb.cells}, rsvOff : Nat, structOff : Nat, structSize : Nat,
                stringsOff : Nat, stringsSize : Nat, total : Nat]
      /\ WellTagged(dtb, Tags(dtb)) /\ Packed(dtb) <= dtb.total
  BY DtbFacts
<1>2. /\ dtb.rsvOff \in Nat /\ dtb.structOff \in Nat /\ dtb.structSize \in Nat
      /\ dtb.stringsOff \in Nat /\ dtb.stringsSize \in Nat /\ dtb.total \in Nat
  BY ONLY <1>1
<1>3. R \in Nat /\ R > 0 /\ Header \in Nat /\ Guard \in Nat
  BY RsvRight, FdtAssumption
<1>4. S = Header + R /\ Packed(dtb) = S + n + dtb.stringsSize
  BY DEF PackedStructOff, Packed
<1>5. /\ S \in Nat /\ n \in Nat /\ Z \in Nat /\ S + n + dtb.stringsSize <= Z
      /\ Header + R <= Z /\ S + n <= Z /\ S > Header /\ S + n \in Nat
  <2>1. Packed(dtb) <= Z /\ Z \in Nat
    BY <1>1
  <2>. HIDE DEF S, R, Z
  <2>. QED  BY ONLY <1>2, <1>3, <1>4, <2>1 DEF n
<1>6. Held(fdt.cells)
  BY <1>1, EmptyHeld
<1>7. /\ Held(c1)
      /\ \A a \in Places : a \in Header .. Header + R - 1 =>
           c1[a] = dtb.cells[dtb.rsvOff + (a - Header)]
  <2>1. cfg.size \in Nat /\ R \in Nat /\ Header \in Nat /\ Header + R <= cfg.size
    BY <1>1, <1>3, <1>5
  <2>2. c1 = CopyIn(fdt.cells, Header, dtb.cells, dtb.rsvOff, R)
    OBVIOUS
  <2>. HIDE DEF R
  <2>3. CopyFits(fdt.cells, Header, dtb.rsvOff, R)
    BY ONLY <1>2, <1>6, <2>1 DEF CopyFits
  <2>. QED  BY ONLY <2>2, <2>3, CopyRight
<1>8. /\ Held(c2)
      /\ \A a \in Places : a \in S .. S + n - 1 => c2[a] = dtb.cells[dtb.structOff + (a - S)]
      /\ \A a \in Places : a \notin S .. S + n - 1 => c2[a] = c1[a]
  <2>1. cfg.size \in Nat /\ n \in Nat /\ S \in Nat /\ S + n <= cfg.size
    BY <1>1, <1>5
  <2>2. c2 = CopyIn(c1, S, dtb.cells, dtb.structOff, n)
    OBVIOUS
  <2>. HIDE DEF S, n
  <2>3. /\ Held(c2)
        /\ \A a \in Places : c2[a] = IF a \in S .. S + n - 1 THEN dtb.cells[dtb.structOff + (a - S)]
                                     ELSE c1[a]
    <3>1. CopyFits(c1, S, dtb.structOff, n)
      BY ONLY <1>2, <1>7, <2>1 DEF CopyFits
    <3>. QED  BY ONLY <2>2, <3>1, CopyRight
  <2>. QED  BY ONLY <2>3
<1>9. /\ Held(c3)
      /\ \A a \in Places : a \notin S + n .. S + n + dtb.stringsSize - 1 => c3[a] = c2[a]
      /\ \A a \in Places : a \in S + n .. S + n + dtb.stringsSize - 1 =>
           c3[a] = dtb.cells[dtb.stringsOff + (a - (S + n))]
  <2>. DEFINE T == S + n
              k == dtb.stringsSize
  <2>1. cfg.size \in Nat /\ T \in Nat /\ k \in Nat /\ T + k <= cfg.size /\ dtb.stringsOff \in Nat
    BY <1>1, <1>2, <1>5
  <2>2. c3 = CopyIn(c2, T, dtb.cells, dtb.stringsOff, k)
    OBVIOUS
  <2>. HIDE DEF T, k
  <2>3. /\ Held(c3)
        /\ \A a \in Places : c3[a] = IF a \in T .. T + k - 1 THEN dtb.cells[dtb.stringsOff + (a - T)]
                                     ELSE c2[a]
    <3>1. CopyFits(c2, T, dtb.stringsOff, k)
      BY ONLY <1>8, <2>1 DEF CopyFits
    <3>. QED  BY ONLY <2>2, <3>1, CopyRight
  <2>. QED  BY ONLY <2>3 DEF T, k
<1>10. g = [dtb EXCEPT !.cells = c3, !.rsvOff = Header, !.structOff = S,
                     !.stringsOff = S + n, !.total = Z]
  BY DEF Reordered
<1>. HIDE DEF S, R, n, Z
<1>11. /\ Fields(g) /\ g.cells = c3 /\ g.rsvOff = Header /\ g.structOff = S
       /\ g.structSize = dtb.structSize /\ g.stringsOff = S + n
       /\ g.stringsSize = dtb.stringsSize /\ g.total = Z
  BY ONLY <1>1, <1>3, <1>5, <1>10 DEF Fields
<1>12. End(g) = S + n + dtb.stringsSize
  BY ONLY <1>11 DEF End
<1>13. InOrder(g)
  <2>1. n = dtb.structSize
    BY DEF n
  <2>. QED  BY ONLY <1>3, <1>5, <1>11, <1>12, <2>1 DEF InOrder
<1>14. Buffer(g)
  BY ONLY <1>9, <1>11, <1>13 DEF Buffer, Z
<1>15. \A t \in 0 .. n - 1 : Tag(g, t) = Tag(dtb, t)
  <2>1. ASSUME NEW t \in 0 .. n - 1
        PROVE  c3[S + t] = dtb.cells[dtb.structOff + t]
    <3>. DEFINE a == S + t
    <3>1. /\ a \in S .. S + n - 1 /\ a \notin S + n .. S + n + dtb.stringsSize - 1
          /\ a - S = t /\ a \in 0 .. Z + Guard - 1
      BY ONLY <1>2, <1>3, <1>5, <2>1
    <3>. HIDE DEF a
    <3>2. c3[a] = dtb.cells[dtb.structOff + t]
      BY ONLY <1>8, <1>9, <3>1 DEF Places, Z
    <3>. QED  BY ONLY <3>2 DEF a
  <2>. QED  BY ONLY <1>11, <2>1 DEF Tag
<1>16. WellTagged(g, Tags(dtb))
  <2>1. WellTagged(dtb, Tags(dtb)) /\ g.structSize = dtb.structSize
    BY <1>1, <1>11
  <2>2. \A t \in 0 .. dtb.structSize - 1 : Tag(g, t) = Tag(dtb, t)
    BY <1>15 DEF n
  <2>. QED  BY ONLY <1>2, <2>1, <2>2, SameTags
<1>17. End(g) <= dtb.total
  BY ONLY <1>1, <1>4, <1>12
<1>18. \A k \in 0 .. R - 1 : g.cells[g.rsvOff + k] = dtb.cells[dtb.rsvOff + k]
  <2>1. ASSUME NEW k \in 0 .. R - 1 PROVE c3[Header + k] = dtb.cells[dtb.rsvOff + k]
    <3>. DEFINE a == Header + k
    <3>1. /\ a \in Header .. Header + R - 1 /\ a \notin S .. S + n - 1
          /\ a \notin S + n .. S + n + dtb.stringsSize - 1
          /\ a - Header = k /\ a \in 0 .. Z + Guard - 1
      BY ONLY <1>2, <1>3, <1>4, <1>5, <2>1
    <3>. HIDE DEF a
    <3>2. c3[a] = dtb.cells[dtb.rsvOff + k]
      BY ONLY <1>7, <1>8, <1>9, <3>1 DEF Places, Z
    <3>. QED  BY ONLY <3>2 DEF a
  <2>. QED  BY ONLY <1>11, <2>1
<1>19. \A k \in 0 .. dtb.stringsSize - 1 : g.cells[g.stringsOff + k] = dtb.cells[dtb.stringsOff + k]
  <2>1. ASSUME NEW k \in 0 .. dtb.stringsSize - 1
        PROVE  c3[(S + n) + k] = dtb.cells[dtb.stringsOff + k]
    <3>. DEFINE a == (S + n) + k
    <3>1. /\ a \in S + n .. S + n + dtb.stringsSize - 1 /\ a - (S + n) = k
          /\ a \in 0 .. Z + Guard - 1
      BY ONLY <1>2, <1>3, <1>5, <2>1
    <3>. HIDE DEF a
    <3>2. c3[a] = dtb.cells[dtb.stringsOff + k]
      BY ONLY <1>9, <3>1 DEF Places, Z
    <3>. QED  BY ONLY <3>2 DEF a
  <2>. QED  BY ONLY <1>11, <2>1
<1>20. Opened(dtb, g)
  BY ONLY <1>11, <1>15, <1>18, <1>19 DEF Opened, n, R
<1>. QED  BY ONLY <1>14, <1>16, <1>17, <1>20

LEMMA ReorderedRight ==
  ASSUME cfg \in Patches, fdt = Empty(cfg.size), OpenReorder
  PROVE  /\ Buffer(fdt') /\ WellTagged(fdt', Tags(cfg.dtb)) /\ End(fdt') <= cfg.dtb.total
         /\ Opened(cfg.dtb, fdt')
<1>. DEFINE dtb == cfg.dtb
            S == PackedStructOff(dtb)
            c1 == CopyIn(fdt.cells, Header, dtb.cells, dtb.rsvOff, RsvSize(dtb))
            c2 == CopyIn(c1, S, dtb.cells, dtb.structOff, dtb.structSize)
            c3 == CopyIn(c2, S + dtb.structSize, dtb.cells, dtb.stringsOff, dtb.stringsSize)
<1>1. fdt' = Reordered(dtb, c3) /\ Packed(dtb) <= cfg.size
  BY DEF OpenReorder, Reordered, NewTotal
<1>2. Buffer(Reordered(dtb, c3)) /\ WellTagged(Reordered(dtb, c3), Tags(dtb))
      /\ End(Reordered(dtb, c3)) <= dtb.total /\ Opened(dtb, Reordered(dtb, c3))
  <2>1. dtb = cfg.dtb /\ c1 = CopyIn(fdt.cells, Header, dtb.cells, dtb.rsvOff, RsvSize(dtb))
    OBVIOUS
  <2>2. c2 = CopyIn(c1, PackedStructOff(dtb), dtb.cells, dtb.structOff, dtb.structSize)
    OBVIOUS
  <2>3. c3 = CopyIn(c2, PackedStructOff(dtb) + dtb.structSize, dtb.cells, dtb.stringsOff, dtb.stringsSize)
    OBVIOUS
  <2>4. cfg \in Patches /\ fdt = Empty(cfg.size)
    OBVIOUS
  <2>. HIDE DEF c1, c2, c3, dtb
  <2>. QED  BY ONLY <1>1, <2>1, <2>2, <2>3, <2>4, PackedRight
<1>. HIDE DEF c3
<1>. QED  BY ONLY <1>1, <1>2


(* What the properties need grows from one to the next. *)
IsNeeds(g) ==
  g = [n \in 0 .. Len(Edits) |->
         IF n = 0 THEN 0
         ELSE g[n - 1] + (1 + Len(Edits[n].value)) + (Len(Edits[n].name) + 1)]

LEMMA EditsFacts ==
  /\ Len(Edits) \in Nat /\ Len(Edits) > 0
  /\ \A k \in 1 .. Len(Edits) :
       /\ Edits[k].name \in Seq(ToSet(Edits[k].name)) /\ Len(Edits[k].name) \in Nat
       /\ Edits[k].value \in Seq(ToSet(Edits[k].value)) /\ Len(Edits[k].value) \in Nat
<1>1. Edits \in Seq(ToSet(Edits)) /\ Edits # <<>>
  BY FdtAssumption
<1>2. Len(Edits) \in Nat /\ Len(Edits) > 0
  BY ONLY <1>1
<1>3. ASSUME NEW k \in 1 .. Len(Edits)
      PROVE  /\ Edits[k].name \in Seq(ToSet(Edits[k].name)) /\ Len(Edits[k].name) \in Nat
             /\ Edits[k].value \in Seq(ToSet(Edits[k].value)) /\ Len(Edits[k].value) \in Nat
  <2>1. Edits[k] \in ToSet(Edits)
    BY ONLY <1>1, <1>3
  <2>2. Edits[k].name \in Seq(ToSet(Edits[k].name)) /\ Edits[k].value \in Seq(ToSet(Edits[k].value))
    BY ONLY <2>1, FdtAssumption
  <2>. QED  BY ONLY <2>2
<1>. QED  BY ONLY <1>2, <1>3

LEMMA NeedsRight ==
  /\ Needs[0] = 0
  /\ \A k \in 1 .. Len(Edits) :
       Needs[k] = Needs[k - 1] + (1 + Len(Edits[k].value)) + (Len(Edits[k].name) + 1)
  /\ \A k \in 0 .. Len(Edits) : Needs[k] \in Nat /\ Needs[k] <= Worst
<1>. DEFINE n == Len(Edits)
            more(k) == (1 + Len(Edits[k].value)) + (Len(Edits[k].name) + 1)
            step == [k \in 1 .. n |-> [x \in Nat |-> x + more(k)]]
<1>a. n \in Nat /\ \A k \in 1 .. n : Len(Edits[k].value) \in Nat /\ Len(Edits[k].name) \in Nat
  BY EditsFacts
<1>b. ASSUME NEW k \in 1 .. n
      PROVE  /\ more(k) \in Nat
             /\ \A x \in Nat : x + (1 + Len(Edits[k].value)) + (Len(Edits[k].name) + 1) = x + more(k)
  <2>. DEFINE v == Len(Edits[k].value)
              s == Len(Edits[k].name)
  <2>1. v \in Nat /\ s \in Nat
    BY <1>a
  <2>2. more(k) = (1 + v) + (s + 1)
    OBVIOUS
  <2>. HIDE DEF v, s, more
  <2>3. more(k) \in Nat /\ \A x \in Nat : x + (1 + v) + (s + 1) = x + more(k)
    BY ONLY <2>1, <2>2
  <2>. QED  BY <2>3 DEF v, s
<1>. HIDE DEF more
<1>1. n \in Nat /\ \A k \in 1 .. n : more(k) \in Nat
  BY <1>a, <1>b
<1>2. \A k \in 1 .. n, x \in Nat :
        x + (1 + Len(Edits[k].value)) + (Len(Edits[k].name) + 1) = x + more(k)
  BY <1>b
<1>. HIDE DEF n, more
<1>3. \E g \in [0 .. n -> Nat] :
        g[0] = 0 /\ \A k \in 1 .. n : g[k] = g[k - 1] + more(k)
  <2>1. step \in [1 .. n -> [Nat -> Nat]]
    BY ONLY <1>1
  <2>2. Unfolds(n, Nat, 0, step)
    <3>1. 0 \in Nat
      OBVIOUS
    <3>. HIDE DEF step
    <3>. QED  BY ONLY <1>1, <2>1, <3>1, Recursion
  <2>3. PICK g \in [0 .. n -> Nat] : g[0] = 0 /\ \A k \in 1 .. n : g[k] = step[k][g[k - 1]]
    <3>. HIDE DEF step
    <3>. QED  BY ONLY <2>2 DEF Unfolds
  <2>4. \A k \in 1 .. n : g[k - 1] \in Nat
    BY ONLY <1>1, g \in [0 .. n -> Nat]
  <2>5. \A k \in 1 .. n : g[k] = g[k - 1] + more(k)
    BY ONLY <2>3, <2>4
  <2>. QED  BY ONLY <2>3, <2>5, g \in [0 .. n -> Nat]
<1>4. PICK g \in [0 .. n -> Nat] : g[0] = 0 /\ \A k \in 1 .. n : g[k] = g[k - 1] + more(k)
  BY ONLY <1>3
<1>5. IsNeeds(g)
  <2>1. \A k \in 0 .. n : k # 0 => k \in 1 .. n /\ g[k - 1] \in Nat
    BY ONLY <1>1, g \in [0 .. n -> Nat]
  <2>2. \A k \in 0 .. n :
          g[k] = IF k = 0 THEN 0
                 ELSE g[k - 1] + (1 + Len(Edits[k].value)) + (Len(Edits[k].name) + 1)
    BY ONLY <1>2, <1>4, <2>1
  <2>3. g = [k \in 0 .. n |-> g[k]]
    BY ONLY g \in [0 .. n -> Nat]
  <2>. QED  BY ONLY <2>2, <2>3 DEF IsNeeds, n
<1>6. IsNeeds(Needs)
  BY <1>5 DEF Needs, IsNeeds
<1>7. Needs[0] = 0 /\ \A k \in 1 .. n :
        Needs[k] = Needs[k - 1] + (1 + Len(Edits[k].value)) + (Len(Edits[k].name) + 1)
  <2>1. 0 \in 0 .. n /\ \A k \in 1 .. n : k \in 0 .. n /\ k # 0
    BY ONLY <1>1
  <2>. QED  BY ONLY <1>6, <2>1 DEF IsNeeds, n
<1>. DEFINE Up == {k \in 0 .. n : Needs[k] \in Nat /\ \A j \in 0 .. k : Needs[j] \in Nat /\ Needs[j] <= Needs[k]}
<1>8. 0 \in Up
  BY ONLY <1>1, <1>7
<1>9. ASSUME NEW k \in 1 .. n, k - 1 \in Up PROVE k \in Up
  <2>1. Needs[k - 1] \in Nat /\ \A j \in 0 .. k - 1 : Needs[j] \in Nat /\ Needs[j] <= Needs[k - 1]
    BY ONLY <1>9
  <2>2. Needs[k] = Needs[k - 1] + more(k) /\ more(k) \in Nat
    BY ONLY <1>1, <1>2, <1>7, <2>1
  <2>3. Needs[k] \in Nat /\ Needs[k - 1] <= Needs[k]
    BY ONLY <2>1, <2>2
  <2>4. \A j \in 0 .. k : j \in 0 .. k - 1 \/ j = k
    OBVIOUS
  <2>5. \A j \in 0 .. k : Needs[j] \in Nat /\ Needs[j] <= Needs[k]
    BY ONLY <2>1, <2>3, <2>4
  <2>6. k \in 0 .. n
    OBVIOUS
  <2>. QED  BY ONLY <2>3, <2>5, <2>6
<1>10. n \in Up
  <2>1. n \in 0 .. n
    BY ONLY <1>1
  <2>. HIDE DEF Up
  <2>. QED  BY ONLY <1>1, <1>8, <1>9, <2>1, UpTo
<1>11. \A k \in 0 .. n : Needs[k] \in Nat /\ Needs[k] <= Worst
  BY ONLY <1>10 DEF Worst, n
<1>. QED  BY ONLY <1>7, <1>11 DEF n


(* A tree that is being edited, and where /chosen is in it *)
Editable(tags) ==
  /\ cfg.size \in Nat /\ Buffer(fdt) /\ WellTagged(fdt, tags)
  /\ chosen \in tags /\ Tag(fdt, chosen)[1] = "begin"
  /\ set \in Nat /\ set < Len(Edits)

LEMMA EditFacts ==
  ASSUME set \in Nat, set < Len(Edits)
  PROVE  /\ Edit.name \in Seq(ToSet(Edit.name)) /\ Len(Edit.name) \in Nat
         /\ Edit.value \in Seq(ToSet(Edit.value)) /\ Words \in Nat
         /\ Needs[set] \in Nat /\ Needs[set + 1] \in Nat /\ Needs[set + 1] <= Worst
         /\ Needs[set + 1] = Needs[set] + (1 + Words) + (Len(Edit.name) + 1)
<1>1. Len(Edits) \in Nat
  BY EditsFacts
<1>2. set + 1 \in 1 .. Len(Edits) /\ set \in 0 .. Len(Edits) /\ set + 1 \in 0 .. Len(Edits)
      /\ (set + 1) - 1 = set
  BY <1>1
<1>3. /\ Edit.name \in Seq(ToSet(Edit.name)) /\ Len(Edit.name) \in Nat
      /\ Edit.value \in Seq(ToSet(Edit.value)) /\ Words \in Nat
  BY ONLY <1>2, EditsFacts DEF Edit, Words
<1>4. Needs[set] \in Nat /\ Needs[set + 1] \in Nat /\ Needs[set + 1] <= Worst
  BY ONLY <1>2, NeedsRight
<1>5. Needs[set + 1] = Needs[set] + (1 + Words) + (Len(Edit.name) + 1)
  BY ONLY <1>2, NeedsRight DEF Edit, Words
<1>. QED  BY ONLY <1>3, <1>4, <1>5

LEMMA ChosenFacts ==
  ASSUME NEW tags, Editable(tags)
  PROVE  /\ fdt.structSize \in Nat /\ End(fdt) \in Nat /\ fdt.total = cfg.size
         /\ chosen \in Nat /\ NextTag(fdt, chosen) = chosen + 1
         /\ chosen + 1 \in tags \cup {fdt.structSize}
<1>1. Buffer(fdt) /\ cfg.size \in Nat /\ WellTagged(fdt, tags) /\ chosen \in tags
  BY DEF Editable
<1>2. fdt.structSize \in Nat /\ End(fdt) \in Nat
  BY ONLY <1>1, BufferFacts
<1>3. fdt.total = cfg.size
  BY ONLY <1>1 DEF Buffer
<1>4. chosen \in Nat /\ NextTag(fdt, chosen) \in tags \cup {fdt.structSize}
  BY ONLY <1>1, <1>2, TagFacts
<1>5. NextTag(fdt, chosen) = chosen + 1
  <2>1. Tag(fdt, chosen)[1] = "begin"
    BY DEF Editable
  <2>2. NextTag(fdt, chosen) = chosen + 1 + 0
    BY ONLY <2>1 DEF NextTag
  <2>. QED  BY ONLY <1>4, <2>2
<1>. QED  BY ONLY <1>2, <1>3, <1>4, <1>5

LEMMA ResizeRight ==
  ASSUME NEW tags, Editable(tags), Resize
  PROVE  /\ Buffer(fdt')
         /\ \E T : WellTagged(fdt', T) /\ chosen \in T /\ Tag(fdt', chosen)[1] = "begin"
         /\ End(fdt') <= End(fdt) + Words
         /\ Replaced(fdt, fdt', Found, Found + 1 + OldLength,
                     <<<<"prop", Words, Tag(fdt, Found)[3]>>>> \o Edit.value)
<1>. DEFINE q == Found
            old == OldLength
            r == q + 1 + old
            off == q + 1
            value == Edit.value
            V == ToSet(value)
            head == <<"prop", Words, Tag(fdt, q)[3]>>
            s == SpliceStruct(fdt, off, old, Words)
            n == fdt.structSize
            T == TagsPut(tags, q, r, Words)
<1>1. /\ cfg.size \in Nat /\ Buffer(fdt) /\ WellTagged(fdt, tags) /\ chosen \in tags
      /\ Tag(fdt, chosen)[1] = "begin" /\ set \in Nat /\ set < Len(Edits)
  BY DEF Editable
<1>2. n \in Nat /\ End(fdt) \in Nat /\ chosen \in Nat
  BY ChosenFacts
<1>3. /\ q # NotFound /\ SpliceFits(fdt, old, Words)
      /\ fdt' = Write(s, s.structOff + q, <<head>> \o value)
  BY DEF Resize
<1>4. q \in tags /\ q > chosen /\ Tag(fdt, q)[1] = "prop"
  <2>1. \/ q = NotFound
        \/ q \in tags /\ q > chosen /\ Tag(fdt, q)[1] = "prop"
    BY ONLY <1>1, <1>2, PropertyRight DEF Found
  <2>. QED  BY ONLY <1>3, <2>1
<1>5. /\ q \in Nat /\ old \in Nat /\ NextTag(fdt, q) = r /\ r \in tags \cup {n}
  <2>1. /\ q \in Nat /\ NextTag(fdt, q) \in tags \cup {n}
        /\ Tag(fdt, q)[2] \in Nat /\ NextTag(fdt, q) = q + 1 + Tag(fdt, q)[2]
    BY ONLY <1>1, <1>2, <1>4, TagFacts
  <2>2. old = Tag(fdt, q)[2]
    BY DEF OldLength
  <2>. HIDE DEF q, old
  <2>. QED  BY ONLY <2>1, <2>2
<1>6. value \in Seq(V) /\ Words \in Nat /\ Words = Len(value)
  <2>1. value \in Seq(V) /\ Words \in Nat
    BY ONLY <1>1, EditFacts
  <2>. QED  BY <2>1 DEF Words
<1>7. head[1] = "prop" /\ head[2] = Len(value)
  BY <1>6
<1>. HIDE DEF q, old, value, V, head, s
<1>8. /\ 0 < q /\ off \in Nat /\ q <= off /\ off + old = r
      /\ off + Words = q + 1 + Len(value)
  <2>1. Words \in Nat /\ Words = Len(value)
    BY <1>6
  <2>. QED  BY ONLY <1>2, <1>4, <1>5, <2>1
<1>9. q \in tags \cup {n} /\ Words = Len(value)
  BY <1>4, <1>6
<1>10. s = SpliceStruct(fdt, off, old, Words)
  BY DEF s
<1>. HIDE DEF off, r, T
<1>11. /\ Buffer(fdt') /\ WellTagged(fdt', TagsPut(tags, q, r, Len(value)))
       /\ End(fdt') = End(fdt) + Words - old
       /\ \A t \in 0 .. q - 1 : Tag(fdt', t) = Tag(fdt, t)
       /\ Replaced(fdt, fdt', q, r, <<head>> \o value)
  <2>1. PutFits(fdt, tags, q, r, off, old, Words, value, head)
    BY ONLY <1>1, <1>3, <1>5, <1>6, <1>7, <1>8, <1>9 DEF PutFits, V, n
  <2>2. fdt' = Put(fdt, q, off, old, Words, value, head)
    BY ONLY <1>3, <1>10 DEF Put
  <2>. QED  BY ONLY <2>1, <2>2, PutRight
<1>12. chosen \in TagsPut(tags, q, r, Len(value)) /\ Tag(fdt', chosen)[1] = "begin"
  <2>1. chosen \in 0 .. q - 1 /\ chosen < q
    BY ONLY <1>2, <1>4, <1>5
  <2>2. Tag(fdt', chosen) = Tag(fdt, chosen)
    BY ONLY <1>11, <2>1
  <2>3. chosen \in TagsPut(tags, q, r, Len(value))
    BY ONLY <1>1, <2>1 DEF TagsPut
  <2>. QED  BY ONLY <1>1, <2>2, <2>3
<1>13. End(fdt') <= End(fdt) + Words
  BY ONLY <1>2, <1>5, <1>6, <1>11
<1>14. Replaced(fdt, fdt', Found, Found + 1 + OldLength,
                <<<<"prop", Words, Tag(fdt, Found)[3]>>>> \o Edit.value)
  BY ONLY <1>11 DEF q, r, old, head, value
<1>. QED  BY ONLY <1>11, <1>12, <1>13, <1>14


LEMMA NamedFacts ==
  ASSUME NEW tags, Editable(tags), StringFits
  PROVE  /\ Buffer(Named) /\ WellTagged(Named, tags)
         /\ End(Named) \in Nat /\ End(Named) <= End(fdt) + Len(Edit.name) + 1
         /\ Named.structSize = fdt.structSize /\ Named.total = cfg.size
         /\ ~HasString(fdt, Edit.name) =>
              Named.stringsSize = fdt.stringsSize + Len(Edit.name) + 1
         /\ Tag(Named, chosen) = Tag(fdt, chosen)
         /\ IF HasString(fdt, Edit.name) THEN Named = fdt
            ELSE Appended(fdt, Named, Edit.name \o <<Nul>>)
<1>1. /\ cfg.size \in Nat /\ Buffer(fdt) /\ WellTagged(fdt, tags) /\ chosen \in tags
      /\ set \in Nat /\ set < Len(Edits)
  BY DEF Editable
<1>. DEFINE str == Edit.name
            V == ToSet(Edit.name)
            g == Named
<1>2. /\ str \in Seq(V)
      /\ HasString(fdt, str) \/ SpliceFits(fdt, 0, Len(str) + 1)
      /\ g = WithString(fdt, str)
  <2>1. str \in Seq(V)
    BY ONLY <1>1, EditFacts DEF str, V
  <2>. QED  BY <2>1 DEF StringFits, Named
<1>. HIDE DEF str, V, g
<1>3. /\ Buffer(g) /\ WellTagged(g, tags)
      /\ End(g) \in Nat /\ End(g) <= End(fdt) + Len(str) + 1 /\ g.structSize = fdt.structSize
      /\ ~HasString(fdt, str) => g.stringsSize = fdt.stringsSize + Len(str) + 1
      /\ \A t \in 0 .. fdt.structSize - 1 : Tag(g, t) = Tag(fdt, t)
      /\ IF HasString(fdt, str) THEN g = fdt ELSE Appended(fdt, g, str \o <<Nul>>)
  BY ONLY <1>1, <1>2, NamedRight
<1>4. chosen \in 0 .. fdt.structSize - 1
  BY ONLY <1>1 DEF WellTagged
<1>5. g.total = cfg.size
  BY ONLY <1>3 DEF Buffer
<1>. QED  BY ONLY <1>3, <1>4, <1>5 DEF str, g

LEMMA AddRight ==
  ASSUME NEW tags, Editable(tags), Add
  PROVE  /\ Buffer(fdt')
         /\ \E T : WellTagged(fdt', T) /\ chosen \in T /\ Tag(fdt', chosen)[1] = "begin"
         /\ End(fdt') <= End(fdt) + (1 + Words) + (Len(Edit.name) + 1)
         /\ Replaced(Named, fdt', chosen + 1, chosen + 1,
                     <<<<"prop", Words, NameOff(Named, Edit.name)>>>> \o Edit.value)
<1>. DEFINE q == chosen + 1
            more == 1 + Words
            value == Edit.value
            head == <<"prop", Words, NameOff(Named, Edit.name)>>
            s == SpliceStruct(Named, q, 0, more)
            none == 0
            f == Named
<1>1. /\ cfg.size \in Nat /\ chosen \in tags /\ Tag(fdt, chosen)[1] = "begin"
      /\ set \in Nat /\ set < Len(Edits)
  BY DEF Editable
<1>2. /\ fdt.structSize \in Nat /\ End(fdt) \in Nat /\ chosen \in Nat
      /\ q \in tags \cup {fdt.structSize}
  BY ChosenFacts
<1>3. StringFits /\ SpliceFits(f, none, more) /\ fdt' = Write(s, s.structOff + q, <<head>> \o value)
  BY DEF Add
<1>4. /\ Buffer(f) /\ WellTagged(f, tags)
      /\ End(f) \in Nat /\ End(f) <= End(fdt) + Len(Edit.name) + 1
      /\ f.structSize = fdt.structSize /\ Tag(f, chosen) = Tag(fdt, chosen)
  BY <1>3, NamedFacts
<1>5. /\ value \in Seq(ToSet(value)) /\ Words \in Nat /\ Words = Len(value)
      /\ Len(Edit.name) \in Nat
  <2>1. value \in Seq(ToSet(value)) /\ Words \in Nat /\ Len(Edit.name) \in Nat
    BY ONLY <1>1, EditFacts DEF value
  <2>. QED  BY <2>1 DEF Words
<1>6. head[1] = "prop" /\ head[2] = Len(value)
  BY <1>5
<1>7. /\ q \in Nat /\ 0 < q /\ none \in Nat /\ more \in Nat /\ q <= q /\ q + none = q
      /\ q + more = q + 1 + Len(value)
  <2>1. Words \in Nat /\ Words = Len(value)
    BY ONLY <1>5
  <2>. HIDE DEF value
  <2>. QED  BY <1>2, <2>1
<1>8. s = SpliceStruct(f, q, none, more) /\ chosen < q
  BY <1>2
<1>. HIDE DEF q, more, value, head, s, none, f
<1>9. /\ Buffer(fdt') /\ WellTagged(fdt', TagsPut(tags, q, q, Len(value)))
      /\ End(fdt') = End(f) + more - none
      /\ \A t \in 0 .. q - 1 : Tag(fdt', t) = Tag(f, t)
      /\ Replaced(f, fdt', q, q, <<head>> \o value)
  <2>1. PutFits(f, tags, q, q, q, none, more, value, head)
    BY ONLY <1>1, <1>2, <1>3, <1>4, <1>5, <1>6, <1>7 DEF PutFits
  <2>2. fdt' = Put(f, q, q, none, more, value, head)
    BY ONLY <1>3, <1>8 DEF Put
  <2>. QED  BY ONLY <2>1, <2>2, PutRight
<1>10. chosen \in TagsPut(tags, q, q, Len(value)) /\ Tag(fdt', chosen)[1] = "begin"
  <2>1. chosen \in 0 .. q - 1
    BY ONLY <1>2, <1>7, <1>8
  <2>2. Tag(fdt', chosen) = Tag(fdt, chosen)
    BY ONLY <1>4, <1>9, <2>1
  <2>3. chosen \in TagsPut(tags, q, q, Len(value))
    BY ONLY <1>1, <1>8 DEF TagsPut
  <2>. QED  BY ONLY <1>1, <2>2, <2>3
<1>11. End(fdt') <= End(fdt) + (1 + Words) + (Len(Edit.name) + 1)
  BY ONLY <1>2, <1>4, <1>5, <1>9 DEF more, none
<1>12. Replaced(Named, fdt', chosen + 1, chosen + 1,
                <<<<"prop", Words, NameOff(Named, Edit.name)>>>> \o Edit.value)
  BY ONLY <1>9 DEF q, f, head, value
<1>. QED  BY ONLY <1>9, <1>10, <1>11, <1>12

LEMMA AddFailsRight ==
  ASSUME NEW tags, Editable(tags), StringFits
  PROVE  Buffer(RolledBack) /\ WellTagged(RolledBack, tags)
<1>1. /\ Buffer(Named) /\ WellTagged(Named, tags) /\ cfg.size \in Nat
      /\ ~HasString(fdt, Edit.name) =>
              Named.stringsSize = fdt.stringsSize + Len(Edit.name) + 1
      /\ Buffer(fdt) /\ set \in Nat /\ set < Len(Edits)
  BY NamedFacts DEF Editable
<1>2. CASE HasString(fdt, Edit.name)
  <2>1. RolledBack = Named
    BY <1>2 DEF RolledBack
  <2>. QED  BY ONLY <1>1, <2>1
<1>3. CASE ~HasString(fdt, Edit.name)
  <2>. DEFINE k == Len(Edit.name) + 1
              f == Named
              g == RolledBack
  <2>1. fdt.stringsSize \in Nat /\ Len(Edit.name) \in Nat
    <3>1. fdt.stringsSize \in Nat
      BY ONLY <1>1, BufferFacts
    <3>. QED  BY ONLY <1>1, <3>1, EditFacts
  <2>2. k \in Nat /\ k <= f.stringsSize
    BY <1>1, <1>3, <2>1
  <2>3. g = [f EXCEPT !.stringsSize = @ - k]
    BY <1>3 DEF RolledBack
  <2>4. cfg.size \in Nat /\ Buffer(f) /\ WellTagged(f, tags)
    BY <1>1
  <2>. HIDE DEF k, f, g
  <2>5. Buffer(g) /\ WellTagged(g, tags)
    BY ONLY <2>2, <2>3, <2>4, RolledBackRight
  <2>. QED  BY <2>5 DEF g
<1>. QED  BY <1>2, <1>3


(* The tree in fdt_buf, once it is there, and where /chosen is in it *)
Located(tags) ==
  /\ WellTagged(fdt, tags) /\ chosen \in {NotFound} \cup tags
  /\ call = "set" => chosen \in tags /\ Tag(fdt, chosen)[1] = "begin"

FdtInv ==
  /\ cfg \in Patches
  /\ call \in {"open", "path", "set", "ok", "failed"}
  /\ set \in 0 .. Len(Edits)
  /\ call \in {"open", "path", "set"} => set < Len(Edits)
  /\ err \in {"NONE", "NOSPACE", "NOTFOUND", "ALIGNMENT"}
  /\ call = "open" => fdt = Empty(cfg.size)
  /\ \/ fdt = Empty(cfg.size) /\ chosen = NotFound /\ call \in {"open", "failed"}
     \/ call # "open" /\ Buffer(fdt) /\ \E tags : Located(tags)
  /\ call \in {"path", "set"} => End(fdt) <= cfg.dtb.total + Needs[set]
  /\ RoomEnough

(* What the invariant says of the next state is said of the next buffer. *)
LEMMA BufferNext ==
  ASSUME Buffer(fdt'), cfg' = cfg
  PROVE  Buffer(fdt)'
<1>1. Fields(fdt') /\ fdt'.total = cfg.size /\ Held(fdt'.cells) /\ InOrder(fdt')
  BY DEF Buffer
<1>2. Fields(fdt)'
  BY <1>1 DEF Fields
<1>3. InOrder(fdt)'
  BY <1>1 DEF InOrder, End
<1>4. Held(fdt.cells)'
  BY <1>1 DEF Held, Places
<1>. QED  BY <1>1, <1>2, <1>3, <1>4 DEF Buffer

LEMMA FdtInitInv ==
  ASSUME FdtInit
  PROVE  FdtInv
<1>1. cfg \in Patches /\ call = "open" /\ fdt = Empty(cfg.size) /\ chosen = NotFound
      /\ set = 0 /\ err = "NONE"
  BY DEF FdtInit
<1>2. Len(Edits) \in Nat /\ Len(Edits) > 0
  BY EditsFacts
<1>. QED  BY <1>1, <1>2 DEF FdtInv, RoomEnough

LEMMA OpenKeeps ==
  ASSUME FdtInv, OpenMove \/ OpenReorder
  PROVE  FdtInv'
<1>1. /\ cfg \in Patches /\ call = "open" /\ fdt = Empty(cfg.size) /\ chosen = NotFound
      /\ set \in 0 .. Len(Edits) /\ set < Len(Edits) /\ err \in {"NONE", "NOSPACE", "NOTFOUND", "ALIGNMENT"}
      /\ RoomEnough
  BY DEF FdtInv, OpenMove, OpenReorder, Buffer
<1>2. /\ call' = "path" /\ cfg' = cfg /\ chosen' = NotFound /\ set' = set /\ err' = err
  BY <1>1 DEF OpenMove, OpenReorder
<1>3. Buffer(fdt') /\ WellTagged(fdt', Tags(cfg.dtb)) /\ End(fdt') <= cfg.dtb.total
  <2>1. CASE OpenMove
    <3>1. /\ ~Misordered(cfg.dtb) /\ cfg.dtb.total <= cfg.size
          /\ fdt' = [cfg.dtb EXCEPT
                       !.cells = CopyIn(fdt.cells, 0, cfg.dtb.cells, 0, cfg.dtb.total),
                       !.total = NewTotal(cfg.dtb)]
      BY <2>1 DEF OpenMove
    <3>. QED  BY ONLY <1>1, <3>1, MovedRight
  <2>2. CASE OpenReorder
    BY <1>1, <2>2, ReorderedRight
  <2>. QED  BY <2>1, <2>2
<1>4. Buffer(fdt)'
  BY <1>2, <1>3, BufferNext
<1>5. (\E tags : Located(tags))'
  <2>1. Located(Tags(cfg.dtb))'
    BY <1>2, <1>3 DEF Located
  <2>. QED  BY <2>1
<1>6. (End(fdt) <= cfg.dtb.total + Needs[set])'
  <2>1. Needs[set] \in Nat
    BY ONLY <1>1, NeedsRight
  <2>2. cfg.size \in Nat /\ cfg.dtb.total \in Nat
    BY <1>1, DtbFacts
  <2>3. End(fdt') \in Nat
    BY <1>3, <2>2, BufferFacts
  <2>4. End(fdt') <= cfg.dtb.total + Needs[set]
    BY ONLY <1>3, <2>1, <2>2, <2>3
  <2>. QED  BY ONLY <1>2, <2>4 DEF End
<1>7. RoomEnough'
  BY <1>1, <1>2 DEF RoomEnough
<1>. QED  BY <1>1, <1>2, <1>4, <1>5, <1>6, <1>7 DEF FdtInv


(* A call that fails before there is a tree has not got the room only when *)
(* the buffer is smaller than the tree.                                    *)
LEMMA OpenFailsKeeps ==
  ASSUME FdtInv, OpenMisaligned \/ OpenNoSpace
  PROVE  FdtInv'
<1>1. /\ cfg \in Patches /\ call = "open" /\ fdt = Empty(cfg.size) /\ chosen = NotFound
      /\ set \in 0 .. Len(Edits)
  BY DEF FdtInv, OpenMisaligned, OpenNoSpace, Buffer
<1>2. /\ call' = "failed" /\ cfg' = cfg /\ chosen' = chosen /\ set' = set /\ fdt' = fdt
      /\ err' \in {"ALIGNMENT", "NOSPACE"}
      /\ err' = "NOSPACE" => cfg.size < cfg.dtb.total
  <2>1. CASE OpenMisaligned
    BY <2>1 DEF OpenMisaligned, OpenFails
  <2>2. CASE OpenNoSpace
    <3>1. /\ cfg.size \in Nat /\ cfg.dtb.total \in Nat /\ Packed(cfg.dtb) <= cfg.dtb.total
      BY <1>1, DtbFacts
    <3>2. Packed(cfg.dtb) \in Nat
      <4>1. RsvSize(cfg.dtb) \in Nat /\ Header \in Nat
        BY <1>1, RsvRight, FdtAssumption
      <4>2. cfg.dtb.structSize \in Nat /\ cfg.dtb.stringsSize \in Nat
        BY <1>1, DtbFacts
      <4>. QED  BY ONLY <4>1, <4>2 DEF Packed
    <3>3. cfg.size < IF Misordered(cfg.dtb) THEN Packed(cfg.dtb) ELSE cfg.dtb.total
      BY <2>2 DEF OpenNoSpace
    <3>4. cfg.size < cfg.dtb.total
      BY ONLY <3>1, <3>2, <3>3
    <3>. QED  BY <2>2, <3>4 DEF OpenNoSpace, OpenFails
  <2>. QED  BY <2>1, <2>2
<1>3. RoomEnough'
  <2>1. cfg.size \in Nat /\ cfg.dtb.total \in Nat
    BY <1>1, DtbFacts
  <2>2. Worst \in Nat
    <3>1. Len(Edits) \in 0 .. Len(Edits)
      BY EditsFacts
    <3>. QED  BY ONLY <3>1, NeedsRight DEF Worst
  <2>3. ~ (cfg.size < cfg.dtb.total /\ cfg.size >= cfg.dtb.total + Worst)
    BY ONLY <2>1, <2>2
  <2>. QED  BY ONLY <1>2, <2>3 DEF RoomEnough
<1>. QED  BY <1>1, <1>2, <1>3 DEF FdtInv

LEMMA FindKeeps ==
  ASSUME FdtInv, FindChosen
  PROVE  FdtInv'
<1>1. /\ cfg \in Patches /\ call = "path" /\ set \in 0 .. Len(Edits) /\ set < Len(Edits)
      /\ err \in {"NONE", "NOSPACE", "NOTFOUND", "ALIGNMENT"}
      /\ Buffer(fdt) /\ RoomEnough /\ End(fdt) <= cfg.dtb.total + Needs[set]
  BY DEF FdtInv, FindChosen
<1>2. PICK tags : Located(tags)
  BY <1>1 DEF FdtInv
<1>3. cfg.size \in Nat /\ fdt.structSize \in Nat
  <2>1. cfg.size \in Nat
    BY <1>1, DtbFacts
  <2>. QED  BY ONLY <1>1, <2>1, BufferFacts
<1>4. \/ Subnode(fdt, "chosen") = NotFound
      \/ /\ Subnode(fdt, "chosen") \in tags
         /\ Tag(fdt, Subnode(fdt, "chosen"))[1] = "begin"
  <2>1. WellTagged(fdt, tags)
    BY <1>2 DEF Located
  <2>. QED  BY ONLY <1>3, <2>1, SubnodeRight
<1>5. /\ cfg' = cfg /\ fdt' = fdt /\ set' = set
      /\ \/ call' = "failed" /\ chosen' = chosen /\ err' = "ALIGNMENT"
         \/ call' = "failed" /\ chosen' = NotFound /\ err' = "NOTFOUND"
         \/ /\ call' = "set" /\ err' = err
            /\ chosen' = Subnode(fdt, "chosen") /\ chosen' # NotFound
  BY DEF FindChosen
<1>6. Buffer(fdt)'
  BY <1>1, <1>5, BufferNext
<1>7. Located(tags)'
  BY <1>2, <1>4, <1>5 DEF Located
<1>8. RoomEnough'
  BY <1>1, <1>5 DEF RoomEnough
<1>9. (call \in {"path", "set"} => End(fdt) <= cfg.dtb.total + Needs[set])'
  BY <1>1, <1>5 DEF End
<1>10. (call \in {"path", "set", "failed"} /\ call # "open")'
  BY <1>5
<1>. QED  BY <1>1, <1>5, <1>6, <1>7, <1>8, <1>9, <1>10 DEF FdtInv

-----------------------------------------------------------------------------
(* The edits *)

LEMMA SetFacts ==
  ASSUME FdtInv, call = "set"
  PROVE  /\ cfg \in Patches /\ cfg.size \in Nat /\ cfg.dtb.total \in Nat
         /\ set \in Nat /\ set < Len(Edits) /\ Len(Edits) \in Nat
         /\ err \in {"NONE", "NOSPACE", "NOTFOUND", "ALIGNMENT"}
         /\ Buffer(fdt) /\ End(fdt) \in Nat /\ RoomEnough
         /\ End(fdt) <= cfg.dtb.total + Needs[set]
         /\ \E tags : Editable(tags)
<1>1. /\ cfg \in Patches /\ set \in 0 .. Len(Edits) /\ set < Len(Edits)
      /\ err \in {"NONE", "NOSPACE", "NOTFOUND", "ALIGNMENT"}
      /\ Buffer(fdt) /\ RoomEnough /\ End(fdt) <= cfg.dtb.total + Needs[set]
  BY DEF FdtInv
<1>2. cfg.size \in Nat /\ cfg.dtb.total \in Nat
  BY <1>1, DtbFacts
<1>3. End(fdt) \in Nat /\ Len(Edits) \in Nat
  BY ONLY <1>1, <1>2, BufferFacts, EditsFacts
<1>4. set \in Nat
  BY <1>1
<1>5. PICK tags : Located(tags)
  BY <1>1 DEF FdtInv
<1>6. Editable(tags)
  BY <1>1, <1>2, <1>4, <1>5 DEF Editable, Located
<1>. QED  BY <1>1, <1>2, <1>3, <1>4, <1>6

(* Each property that is set takes no more than it needs. *)
LEMMA EditKeeps ==
  ASSUME FdtInv, call = "set", NextEdit, Buffer(fdt'),
         NEW T, WellTagged(fdt', T), chosen \in T, Tag(fdt', chosen)[1] = "begin",
         End(fdt') <= End(fdt) + (1 + Words) + (Len(Edit.name) + 1)
  PROVE  FdtInv'
<1>1. /\ cfg \in Patches /\ cfg.size \in Nat /\ cfg.dtb.total \in Nat
      /\ set \in Nat /\ set < Len(Edits) /\ Len(Edits) \in Nat
      /\ err \in {"NONE", "NOSPACE", "NOTFOUND", "ALIGNMENT"}
      /\ End(fdt) \in Nat /\ RoomEnough /\ End(fdt) <= cfg.dtb.total + Needs[set]
  BY SetFacts
<1>2. /\ set' = set + 1 /\ cfg' = cfg /\ chosen' = chosen /\ err' = err
      /\ call' = IF set + 1 = Len(Edits) THEN "ok" ELSE "set"
  BY DEF NextEdit
<1>3. set' \in 0 .. Len(Edits) /\ (call' = "set" => set' < Len(Edits))
      /\ call' \in {"ok", "set"}
  BY ONLY <1>1, <1>2
<1>4. End(fdt') <= cfg.dtb.total + Needs[set + 1]
  <2>1. /\ Words \in Nat /\ Len(Edit.name) \in Nat /\ Needs[set] \in Nat
        /\ Needs[set + 1] = Needs[set] + (1 + Words) + (Len(Edit.name) + 1)
    BY ONLY <1>1, EditFacts
  <2>2. End(fdt') \in Nat
    BY ONLY <1>1, BufferFacts, Buffer(fdt')
  <2>3. End(fdt') <= End(fdt) + (1 + Words) + (Len(Edit.name) + 1)
    OBVIOUS
  <2>. DEFINE e == End(fdt)
              m == End(fdt')
              dtb == cfg.dtb.total
              w == Words
              l == Len(Edit.name)
              b == Needs[set]
              c == Needs[set + 1]
  <2>4. /\ e \in Nat /\ m \in Nat /\ dtb \in Nat /\ w \in Nat /\ l \in Nat /\ b \in Nat
        /\ c = b + (1 + w) + (l + 1) /\ m <= e + (1 + w) + (l + 1) /\ e <= dtb + b
    BY <1>1, <2>1, <2>2, <2>3
  <2>. HIDE DEF e, m, dtb, w, l, b, c
  <2>5. m <= dtb + c
    BY ONLY <2>4
  <2>. QED  BY <2>5 DEF m, dtb, c
<1>5. Buffer(fdt)'
  BY <1>2, BufferNext
<1>6. Located(T)'
  BY <1>2 DEF Located
<1>7. RoomEnough'
  BY <1>1, <1>2 DEF RoomEnough
<1>8. (End(fdt) <= cfg.dtb.total + Needs[set])'
  BY ONLY <1>2, <1>4 DEF End
<1>. QED  BY <1>1, <1>2, <1>3, <1>5, <1>6, <1>7, <1>8 DEF FdtInv

LEMMA ResizeKeeps ==
  ASSUME FdtInv, Resize
  PROVE  FdtInv'
<1>1. call = "set" /\ NextEdit
  BY DEF Resize
<1>2. PICK tags : Editable(tags)
  BY <1>1, SetFacts
<1>3. /\ Buffer(fdt') /\ End(fdt') <= End(fdt) + Words
      /\ \E T : WellTagged(fdt', T) /\ chosen \in T /\ Tag(fdt', chosen)[1] = "begin"
  BY <1>2, ResizeRight
<1>4. PICK T : WellTagged(fdt', T) /\ chosen \in T /\ Tag(fdt', chosen)[1] = "begin"
  BY <1>3
<1>5. End(fdt') <= End(fdt) + (1 + Words) + (Len(Edit.name) + 1)
  <2>1. cfg.size \in Nat /\ set \in Nat /\ set < Len(Edits) /\ End(fdt) \in Nat
    BY <1>1, SetFacts
  <2>2. Words \in Nat /\ Len(Edit.name) \in Nat
    BY ONLY <2>1, EditFacts
  <2>3. End(fdt') \in Nat
    BY ONLY <1>3, <2>1, BufferFacts
  <2>. QED  BY ONLY <1>3, <2>1, <2>2, <2>3
<1>. QED  BY <1>1, <1>3, <1>4, <1>5, EditKeeps

LEMMA AddKeeps ==
  ASSUME FdtInv, Add
  PROVE  FdtInv'
<1>1. call = "set" /\ NextEdit
  BY DEF Add
<1>2. PICK tags : Editable(tags)
  BY <1>1, SetFacts
<1>3. /\ Buffer(fdt') /\ End(fdt') <= End(fdt) + (1 + Words) + (Len(Edit.name) + 1)
      /\ \E T : WellTagged(fdt', T) /\ chosen \in T /\ Tag(fdt', chosen)[1] = "begin"
  BY <1>2, AddRight
<1>4. PICK T : WellTagged(fdt', T) /\ chosen \in T /\ Tag(fdt', chosen)[1] = "begin"
  BY <1>3
<1>. QED  BY <1>1, <1>3, <1>4, EditKeeps


(* An edit that fails has not got the room it needs. *)
LEMMA SetFailsKeeps ==
  ASSUME FdtInv, call = "set", NEW g, SetFails(g), Buffer(g), NEW tags, WellTagged(g, tags),
         chosen \in tags, cfg.size < End(fdt) + (1 + Words) + (Len(Edit.name) + 1)
  PROVE  FdtInv'
<1>1. /\ cfg \in Patches /\ cfg.size \in Nat /\ cfg.dtb.total \in Nat
      /\ set \in Nat /\ set < Len(Edits) /\ Len(Edits) \in Nat
      /\ End(fdt) \in Nat /\ End(fdt) <= cfg.dtb.total + Needs[set]
  BY SetFacts
<1>2. /\ fdt' = g /\ set' = set /\ cfg' = cfg /\ chosen' = chosen
      /\ err' = "NOSPACE" /\ call' = "failed"
  BY DEF SetFails
<1>3. Buffer(fdt)'
  BY <1>2, BufferNext
<1>4. Located(tags)'
  BY <1>2 DEF Located
<1>5. ~ (cfg.size >= cfg.dtb.total + Worst)
  <2>1. /\ Words \in Nat /\ Len(Edit.name) \in Nat /\ Needs[set] \in Nat
        /\ Needs[set + 1] \in Nat /\ Needs[set + 1] <= Worst
        /\ Needs[set + 1] = Needs[set] + (1 + Words) + (Len(Edit.name) + 1)
    BY ONLY <1>1, EditFacts
  <2>2. Worst \in Nat
    <3>1. Len(Edits) \in 0 .. Len(Edits)
      BY ONLY <1>1
    <3>. QED  BY ONLY <3>1, NeedsRight DEF Worst
  <2>. DEFINE e == End(fdt)
              z == cfg.size
              dtb == cfg.dtb.total
              w == Words
              l == Len(Edit.name)
              b == Needs[set]
              c == Needs[set + 1]
              W == Worst
  <2>3. /\ e \in Nat /\ z \in Nat /\ dtb \in Nat /\ w \in Nat /\ l \in Nat /\ b \in Nat
        /\ c \in Nat /\ c <= W /\ W \in Nat
        /\ c = b + (1 + w) + (l + 1) /\ e <= dtb + b
    BY ONLY <1>1, <2>1, <2>2 DEF e, z, dtb, w, l, b, c, W
  <2>4. z < e + (1 + w) + (l + 1)
    OBVIOUS
  <2>. HIDE DEF e, z, dtb, w, l, b, c, W
  <2>5. ~ (z >= dtb + W)
    BY ONLY <2>3, <2>4
  <2>. QED  BY <2>5 DEF z, dtb, W
<1>6. RoomEnough'
  BY <1>2, <1>5 DEF RoomEnough
<1>7. set' \in 0 .. Len(Edits)
  BY ONLY <1>1, <1>2
<1>. QED  BY <1>1, <1>2, <1>3, <1>4, <1>6, <1>7 DEF FdtInv

LEMMA ResizeFailsKeeps ==
  ASSUME FdtInv, ResizeFails
  PROVE  FdtInv'
<1>1. call = "set" /\ SetFails(fdt) /\ ~SpliceFits(fdt, OldLength, Words) /\ Found # NotFound
  BY DEF ResizeFails
<1>2. PICK tags : Editable(tags)
  BY <1>1, SetFacts
<1>3. /\ cfg.size \in Nat /\ set \in Nat /\ set < Len(Edits) /\ Buffer(fdt) /\ End(fdt) \in Nat
      /\ fdt.structSize \in Nat /\ fdt.total = cfg.size
      /\ WellTagged(fdt, tags) /\ chosen \in tags
  BY <1>1, <1>2, SetFacts, ChosenFacts DEF Editable
<1>4. OldLength \in Nat
  <2>1. Found \in tags /\ Tag(fdt, Found)[1] = "prop"
    BY ONLY <1>1, <1>3, PropertyRight DEF Found
  <2>. QED  BY ONLY <1>3, <2>1 DEF WellTagged, OldLength
<1>5. Words \in Nat /\ Len(Edit.name) \in Nat
  BY ONLY <1>3, EditFacts
<1>6. cfg.size < End(fdt) + (1 + Words) + (Len(Edit.name) + 1)
  <2>1. ~ (End(fdt) - OldLength + Words <= cfg.size)
    BY ONLY <1>1, <1>3 DEF SpliceFits
  <2>. DEFINE e == End(fdt)
              z == cfg.size
              o == OldLength
              w == Words
              l == Len(Edit.name)
  <2>2. /\ e \in Nat /\ z \in Nat /\ o \in Nat /\ w \in Nat /\ l \in Nat
        /\ ~ (e - o + w <= z)
    BY <1>3, <1>4, <1>5, <2>1
  <2>. HIDE DEF e, z, o, w, l
  <2>3. z < e + (1 + w) + (l + 1)
    BY ONLY <2>2
  <2>. QED  BY <2>3 DEF e, z, w, l
<1>. QED  BY <1>1, <1>3, <1>6, SetFailsKeeps

LEMMA AddStringFailsKeeps ==
  ASSUME FdtInv, AddStringFails
  PROVE  FdtInv'
<1>1. call = "set" /\ SetFails(fdt) /\ ~StringFits
  BY DEF AddStringFails
<1>2. PICK tags : Editable(tags)
  BY <1>1, SetFacts
<1>3. /\ cfg.size \in Nat /\ set \in Nat /\ set < Len(Edits) /\ Buffer(fdt) /\ End(fdt) \in Nat
      /\ fdt.total = cfg.size /\ WellTagged(fdt, tags) /\ chosen \in tags
  BY <1>1, <1>2, SetFacts, ChosenFacts DEF Editable
<1>4. Words \in Nat /\ Len(Edit.name) \in Nat
  BY ONLY <1>3, EditFacts
<1>5. cfg.size < End(fdt) + (1 + Words) + (Len(Edit.name) + 1)
  <2>1. ~ (End(fdt) - 0 + (Len(Edit.name) + 1) <= cfg.size)
    BY ONLY <1>1, <1>3 DEF SpliceFits, StringFits
  <2>. DEFINE e == End(fdt)
              z == cfg.size
              w == Words
              l == Len(Edit.name)
  <2>2. /\ e \in Nat /\ z \in Nat /\ w \in Nat /\ l \in Nat
        /\ ~ (e - 0 + (l + 1) <= z)
    BY <1>3, <1>4, <2>1
  <2>. HIDE DEF e, z, w, l
  <2>3. z < e + (1 + w) + (l + 1)
    BY ONLY <2>2
  <2>. QED  BY <2>3 DEF e, z, w, l
<1>. QED  BY <1>1, <1>3, <1>5, SetFailsKeeps

LEMMA AddFailsKeeps ==
  ASSUME FdtInv, AddFails
  PROVE  FdtInv'
<1>1. call = "set" /\ SetFails(RolledBack) /\ StringFits /\ ~SpliceFits(Named, 0, 1 + Words)
  BY DEF AddFails
<1>2. PICK tags : Editable(tags)
  BY <1>1, SetFacts
<1>3. /\ cfg.size \in Nat /\ set \in Nat /\ set < Len(Edits) /\ End(fdt) \in Nat
      /\ chosen \in tags
  BY <1>1, <1>2, SetFacts DEF Editable
<1>4. Words \in Nat /\ Len(Edit.name) \in Nat
  BY ONLY <1>3, EditFacts
<1>5. Buffer(RolledBack) /\ WellTagged(RolledBack, tags)
  BY <1>1, <1>2, AddFailsRight
<1>6. /\ End(Named) \in Nat /\ End(Named) <= End(fdt) + Len(Edit.name) + 1
      /\ Named.total = cfg.size
  BY <1>1, <1>2, NamedFacts
<1>7. cfg.size < End(fdt) + (1 + Words) + (Len(Edit.name) + 1)
  <2>1. ~ (End(Named) - 0 + (1 + Words) <= cfg.size)
    BY ONLY <1>1, <1>6 DEF SpliceFits
  <2>. DEFINE e == End(fdt)
              m == End(Named)
              z == cfg.size
              w == Words
              l == Len(Edit.name)
  <2>2. /\ e \in Nat /\ z \in Nat /\ w \in Nat /\ l \in Nat /\ m \in Nat
        /\ m <= e + l + 1 /\ ~ (m - 0 + (1 + w) <= z)
    BY <1>3, <1>4, <1>6, <2>1
  <2>. HIDE DEF e, z, w, l, m
  <2>3. z < e + (1 + w) + (l + 1)
    BY ONLY <2>2
  <2>. QED  BY <2>3 DEF e, z, w, l
<1>. QED  BY <1>1, <1>3, <1>5, <1>7, SetFailsKeeps

LEMMA StutterKeeps ==
  ASSUME FdtInv, UNCHANGED fdtVars
  PROVE  FdtInv'
<1>1. /\ cfg' = cfg /\ call' = call /\ fdt' = fdt /\ chosen' = chosen /\ set' = set /\ err' = err
  BY DEF fdtVars
<1>2. CASE fdt = Empty(cfg.size) /\ chosen = NotFound /\ call \in {"open", "failed"}
  BY <1>1, <1>2 DEF FdtInv, RoomEnough, End
<1>3. CASE call # "open" /\ Buffer(fdt) /\ \E tags : Located(tags)
  <2>1. Buffer(fdt)'
    BY <1>1, <1>3, BufferNext
  <2>2. (\E tags : Located(tags))'
    BY <1>1, <1>3 DEF Located
  <2>. QED  BY <1>1, <1>3, <2>1, <2>2 DEF FdtInv, RoomEnough, End
<1>. QED  BY <1>2, <1>3 DEF FdtInv

LEMMA FdtAlways == FdtSpec => []FdtInv
<1>1. FdtInit => FdtInv
  BY FdtInitInv
<1>2. FdtInv /\ [FdtNext]_fdtVars => FdtInv'
  <2>. SUFFICES ASSUME FdtInv, [FdtNext]_fdtVars PROVE FdtInv'
    OBVIOUS
  <2>1. CASE OpenMisaligned \/ OpenNoSpace
    BY <2>1, OpenFailsKeeps
  <2>2. CASE OpenMove \/ OpenReorder
    BY <2>2, OpenKeeps
  <2>3. CASE FindChosen
    BY <2>3, FindKeeps
  <2>4. CASE Resize
    BY <2>4, ResizeKeeps
  <2>5. CASE ResizeFails
    BY <2>5, ResizeFailsKeeps
  <2>6. CASE Add
    BY <2>6, AddKeeps
  <2>7. CASE AddStringFails
    BY <2>7, AddStringFailsKeeps
  <2>8. CASE AddFails
    BY <2>8, AddFailsKeeps
  <2>9. CASE UNCHANGED fdtVars
    BY <2>9, StutterKeeps
  <2>. QED  BY <2>1, <2>2, <2>3, <2>4, <2>5, <2>6, <2>7, <2>8, <2>9 DEF FdtNext, Ended
<1>. QED  BY <1>1, <1>2, PTL DEF FdtSpec

THEOREM NothingOutside == FdtSpec => []InsideBuffer
<1>1. FdtInv => InsideBuffer
  <2>. SUFFICES ASSUME FdtInv PROVE InsideBuffer
    OBVIOUS
  <2>1. /\ cfg \in Patches
        /\ call \in {"open", "path", "set", "ok", "failed"} /\ set \in 0 .. Len(Edits)
        /\ err \in {"NONE", "NOSPACE", "NOTFOUND", "ALIGNMENT"}
    BY DEF FdtInv
  <2>2. cfg.size \in Nat /\ IsTree(cfg.dtb)
    BY <2>1, DtbFacts DEF Sound
  <2>3. CASE fdt = Empty(cfg.size) /\ chosen = NotFound
    <3>1. Held(fdt.cells) /\ DOMAIN fdt.cells = Places
      BY <2>2, <2>3, EmptyHeld
    <3>2. fdt.structSize = 0
      BY <2>3 DEF Empty
    <3>3. /\ DOMAIN fdt.cells = 0 .. cfg.size + Guard - 1
          /\ \A a \in cfg.size .. cfg.size + Guard - 1 : fdt.cells[a] = Foreign
      BY ONLY <3>1 DEF Held, Places
    <3>4. FdtTypeOK
      BY <2>1, <2>2, <2>3, <3>2 DEF FdtTypeOK
    <3>. QED  BY <3>3, <3>4 DEF InsideBuffer
  <2>4. CASE Buffer(fdt) /\ \E tags : Located(tags)
    <3>1. PICK tags : Located(tags)
      BY <2>4
    <3>2. Held(fdt.cells) /\ InOrder(fdt) /\ Fields(fdt)
      BY <2>4 DEF Buffer
    <3>3. /\ DOMAIN fdt.cells = 0 .. cfg.size + Guard - 1
          /\ \A a \in cfg.size .. cfg.size + Guard - 1 : fdt.cells[a] = Foreign
      BY ONLY <3>2 DEF Held, Places
    <3>4. chosen \in {NotFound} \cup 0 .. fdt.structSize
      <4>1. fdt.structSize \in Nat
        BY <2>2, <2>4, BufferFacts
      <4>2. chosen \in {NotFound} \cup tags /\ tags \subseteq 0 .. fdt.structSize - 1
        BY <3>1 DEF Located, WellTagged
      <4>3. CASE chosen \in tags
        <5>1. chosen \in 0 .. fdt.structSize - 1
          BY ONLY <4>2, <4>3
        <5>2. chosen \in 0 .. fdt.structSize
          BY ONLY <4>1, <5>1
        <5>. QED  BY ONLY <5>2
      <4>. QED  BY ONLY <4>2, <4>3
    <3>5. FdtTypeOK
      BY <2>1, <2>2, <3>2, <3>4 DEF FdtTypeOK, InOrder
    <3>. QED  BY <3>3, <3>5 DEF InsideBuffer
  <2>. QED  BY <2>3, <2>4 DEF FdtInv
<1>. QED  BY <1>1, FdtAlways, PTL

THEOREM RoomIsEnough == FdtSpec => []RoomEnough
<1>1. FdtInv => RoomEnough
  BY DEF FdtInv
<1>. QED  BY <1>1, FdtAlways, PTL

-----------------------------------------------------------------------------
(* Nothing else *)

(* A name that was just added is a string of the block. *)
LEMMA StringThere ==
  ASSUME cfg.size \in Nat, NEW f, Buffer(f), NEW V, NEW str \in Seq(V),
         NEW g, Appended(f, g, str \o <<Nul>>)
  PROVE  f.stringsSize \in StringPlaces(g, str)
<1>. DEFINE L == Len(str)
            p == f.stringsSize
            words == str \o <<Nul>>
<1>1. /\ f.stringsOff \in Nat /\ p \in Nat /\ L \in Nat /\ End(f) = f.stringsOff + p
  <2>1. cfg.size \in Nat /\ Buffer(f)
    OBVIOUS
  <2>2. f.stringsOff \in Nat /\ p \in Nat
    BY ONLY <2>1, BufferFacts DEF p
  <2>3. L \in Nat
    OBVIOUS
  <2>. QED  BY ONLY <2>2, <2>3 DEF End, p
<1>2. /\ Len(words) = L + 1 /\ words[L + 1] = Nul /\ \A k \in 1 .. L : words[k] = str[k]
  BY <1>1
<1>3. /\ g.stringsOff = f.stringsOff /\ g.stringsSize = p + Len(words)
      /\ \A k \in 1 .. Len(words) : g.cells[End(f) + k - 1] = words[k]
  BY DEF Appended
<1>. HIDE DEF L, p, words
<1>4. ASSUME NEW k \in 1 .. L PROVE g.cells[g.stringsOff + p + k - 1] = str[k]
  <2>1. g.stringsOff + p + k - 1 = End(f) + k - 1 /\ k \in 1 .. Len(words)
    BY ONLY <1>1, <1>2, <1>3, <1>4
  <2>. QED  BY ONLY <1>2, <1>3, <1>4, <2>1
<1>5. g.cells[g.stringsOff + p + L] = Nul
  <2>1. g.stringsOff + p + L = End(f) + (L + 1) - 1 /\ L + 1 \in 1 .. Len(words)
    BY ONLY <1>1, <1>2, <1>3
  <2>. QED  BY ONLY <1>2, <1>3, <2>1
<1>6. p \in 0 .. g.stringsSize - (L + 1)
  BY ONLY <1>1, <1>2, <1>3
<1>. QED  BY ONLY <1>4, <1>5, <1>6 DEF StringPlaces, L, p

(* A string moved with its block is at the same place of it. *)
LEMMA PlacesMoved ==
  ASSUME cfg.size \in Nat, NEW f, Buffer(f), NEW V, NEW str \in Seq(V),
         NEW q \in Nat, NEW r \in Nat, r <= f.structSize,
         NEW words, Len(words) \in Nat, NEW g, Replaced(f, g, q, r, words),
         NEW p \in StringPlaces(f, str)
  PROVE  p \in StringPlaces(g, str)
<1>. DEFINE L == Len(str)
            more == Len(words) - (r - q)
            from == f.structOff + r
            S == f.stringsOff
            n == f.stringsSize
<1>1. /\ S \in Nat /\ n \in Nat /\ L \in Nat /\ more \in Int
      /\ from \in Nat /\ from <= S /\ End(f) = S + n
  <2>1. cfg.size \in Nat /\ Buffer(f)
    OBVIOUS
  <2>2. /\ f.stringsOff \in Nat /\ f.stringsSize \in Nat /\ f.structOff \in Nat
        /\ f.structSize \in Nat /\ f.structOff + f.structSize <= f.stringsOff
    BY ONLY <2>1, BufferFacts
  <2>3. /\ L \in Nat /\ q \in Nat /\ r \in Nat /\ Len(words) \in Nat
        /\ r <= f.structSize
    OBVIOUS
  <2>4. more \in Int
    BY ONLY <2>3 DEF more
  <2>5. from \in Nat /\ from <= S
    BY ONLY <2>2, <2>3 DEF from, S
  <2>6. End(f) = S + n
    BY DEF End
  <2>. QED  BY ONLY <2>2, <2>3, <2>4, <2>5, <2>6 DEF S, n
<1>2. /\ p \in 0 .. n - (L + 1)
      /\ \A k \in 1 .. L : f.cells[S + p + k - 1] = str[k]
      /\ f.cells[S + p + L] = Nul
  BY DEF StringPlaces
<1>3. /\ g.stringsOff = S + more /\ g.stringsSize = n
      /\ \A a \in from .. End(f) - 1 : g.cells[a + more] = f.cells[a]
  BY DEF Replaced
<1>. HIDE DEF L, more, from, S, n
<1>4. \A b \in Nat : b < n => g.cells[g.stringsOff + b] = f.cells[S + b]
  <2>1. ASSUME NEW b \in Nat, b < n PROVE g.cells[g.stringsOff + b] = f.cells[S + b]
    <3>1. S + b \in from .. End(f) - 1 /\ g.stringsOff + b = (S + b) + more
      BY ONLY <1>1, <1>3, <2>1
    <3>. QED  BY ONLY <1>3, <3>1
  <2>. QED  BY ONLY <2>1
<1>5. ASSUME NEW k \in 1 .. L PROVE g.cells[g.stringsOff + p + k - 1] = str[k]
  <2>. DEFINE b == p + k - 1
  <2>1. b \in Nat /\ b < n /\ S + p + k - 1 = S + b
    BY <1>1, <1>2, <1>5
  <2>2. g.stringsOff + p + k - 1 = g.stringsOff + b
    BY ONLY <1>1, <1>2, <1>3, <1>5 DEF b
  <2>3. f.cells[S + p + k - 1] = str[k]
    BY ONLY <1>2, <1>5
  <2>. HIDE DEF b
  <2>. QED  BY ONLY <1>4, <2>1, <2>2, <2>3
<1>6. g.cells[g.stringsOff + p + L] = Nul
  <2>. DEFINE b == p + L
  <2>1. b \in Nat /\ b < n /\ S + p + L = S + b
    BY <1>1, <1>2
  <2>2. g.stringsOff + p + L = g.stringsOff + b
    BY ONLY <1>1, <1>2, <1>3 DEF b
  <2>3. f.cells[S + p + L] = Nul
    BY ONLY <1>2
  <2>. HIDE DEF b
  <2>. QED  BY ONLY <1>4, <2>1, <2>2, <2>3
<1>7. p \in 0 .. g.stringsSize - (L + 1)
  BY ONLY <1>2, <1>3
<1>. QED  BY ONLY <1>5, <1>6, <1>7 DEF StringPlaces, L

(* The place the new property names has its name. *)
LEMMA NameFound ==
  ASSUME NEW tags, Editable(tags), StringFits
  PROVE  NameOff(Named, Edit.name) \in StringPlaces(Named, Edit.name)
<1>. DEFINE S == StringPlaces(Named, Edit.name)
<1>1. /\ cfg.size \in Nat /\ Buffer(fdt) /\ set \in Nat /\ set < Len(Edits)
      /\ IF HasString(fdt, Edit.name) THEN Named = fdt
         ELSE Appended(fdt, Named, Edit.name \o <<Nul>>)
  BY NamedFacts DEF Editable
<1>2. Edit.name \in Seq(ToSet(Edit.name))
  BY ONLY <1>1, EditFacts
<1>3. S # {}
  <2>1. CASE HasString(fdt, Edit.name)
    BY ONLY <1>1, <2>1 DEF HasString, S
  <2>2. CASE ~HasString(fdt, Edit.name)
    <3>1. Appended(fdt, Named, Edit.name \o <<Nul>>)
      BY ONLY <1>1, <2>2
    <3>2. fdt.stringsSize \in StringPlaces(Named, Edit.name)
      BY ONLY <1>1, <1>2, <3>1, StringThere
    <3>. QED  BY ONLY <3>2 DEF S
  <2>. QED  BY ONLY <2>1, <2>2
<1>4. S \subseteq Nat
  BY DEF StringPlaces
<1>. HIDE DEF S
<1>5. \E p \in S : \A q \in S : p <= q
  BY ONLY <1>3, <1>4, LeastNumber
<1>. QED  BY <1>5 DEF NameOff, S

(* The tree of f, with the same blocks at the same places *)
SameTree(f, g) ==
  /\ g.rsvOff = f.rsvOff /\ g.structOff = f.structOff /\ g.structSize = f.structSize
  /\ g.stringsOff = f.stringsOff /\ g.stringsSize = f.stringsSize /\ g.total = f.total
  /\ \A a \in 0 .. End(f) - 1 : g.cells[a] = f.cells[a]

(* g is fdt with the property of this edit, put over the one of that name  *)
(* or right after the node's name; its own name is then at a place of the  *)
(* strings block that has it, the end of the block if no other had.        *)
InPlace(g) ==
  IF Found # NotFound
  THEN Replaced(fdt, g, Found, Found + 1 + OldLength,
                <<<<"prop", Words, Tag(fdt, Found)[3]>>>> \o Edit.value)
  ELSE /\ Named = fdt \/ Appended(fdt, Named, Edit.name \o <<Nul>>)
       /\ \E name \in StringPlaces(g, Edit.name) :
            Replaced(Named, g, chosen + 1, chosen + 1,
                     <<<<"prop", Words, name>>>> \o Edit.value)

LEMMA ResizeInPlace ==
  ASSUME FdtInv, Resize
  PROVE  InPlace(fdt')
<1>1. call = "set" /\ Found # NotFound
  BY DEF Resize
<1>2. PICK tags : Editable(tags)
  BY <1>1, SetFacts
<1>3. Replaced(fdt, fdt', Found, Found + 1 + OldLength,
               <<<<"prop", Words, Tag(fdt, Found)[3]>>>> \o Edit.value)
  BY <1>2, ResizeRight
<1>. QED  BY ONLY <1>1, <1>3 DEF InPlace

LEMMA AddInPlace ==
  ASSUME FdtInv, Add
  PROVE  InPlace(fdt')
<1>. DEFINE name == NameOff(Named, Edit.name)
            words == <<<<"prop", Words, name>>>> \o Edit.value
            q == chosen + 1
<1>1. call = "set" /\ Found = NotFound /\ StringFits
  BY DEF Add
<1>2. PICK tags : Editable(tags)
  BY <1>1, SetFacts
<1>3. /\ cfg.size \in Nat /\ set \in Nat /\ set < Len(Edits)
      /\ Edit.name \in Seq(ToSet(Edit.name)) /\ Edit.value \in Seq(ToSet(Edit.value))
  <2>1. cfg.size \in Nat /\ set \in Nat /\ set < Len(Edits)
    BY <1>2 DEF Editable
  <2>. QED  BY ONLY <2>1, EditFacts
<1>4. /\ Buffer(Named) /\ Named.structSize = fdt.structSize
      /\ Named = fdt \/ Appended(fdt, Named, Edit.name \o <<Nul>>)
  BY <1>1, <1>2, NamedFacts
<1>5. Replaced(Named, fdt', q, q, words)
  BY <1>2, AddRight
<1>6. name \in StringPlaces(Named, Edit.name)
  BY <1>1, <1>2, NameFound
<1>7. q \in Nat /\ q <= Named.structSize
  <2>1. /\ fdt.structSize \in Nat /\ chosen \in Nat /\ chosen + 1 \in tags \cup {fdt.structSize}
    BY <1>2, ChosenFacts
  <2>2. tags \subseteq 0 .. fdt.structSize - 1
    BY <1>2 DEF Editable, WellTagged
  <2>. QED  BY ONLY <1>4, <2>1, <2>2 DEF q
<1>8. Len(words) \in Nat
  BY <1>3
<1>. HIDE DEF name, words, q
<1>9. name \in StringPlaces(fdt', Edit.name)
  BY ONLY <1>3, <1>4, <1>5, <1>6, <1>7, <1>8, PlacesMoved
<1>. QED  BY ONLY <1>1, <1>4, <1>5, <1>9 DEF InPlace, words, q

(* The name that is taken back was after all the rest. *)
LEMMA TakenBack ==
  ASSUME NEW tags, Editable(tags), StringFits
  PROVE  SameTree(fdt, RolledBack)
<1>1. /\ cfg.size \in Nat /\ Buffer(fdt) /\ set \in Nat /\ set < Len(Edits) /\ Buffer(Named)
      /\ IF HasString(fdt, Edit.name) THEN Named = fdt
         ELSE Appended(fdt, Named, Edit.name \o <<Nul>>)
      /\ ~HasString(fdt, Edit.name) =>
           Named.stringsSize = fdt.stringsSize + Len(Edit.name) + 1
  BY NamedFacts DEF Editable
<1>2. CASE HasString(fdt, Edit.name)
  <2>1. RolledBack = fdt
    BY <1>1, <1>2 DEF RolledBack
  <2>. QED  BY ONLY <2>1 DEF SameTree
<1>3. CASE ~HasString(fdt, Edit.name)
  <2>. DEFINE f == Named
              g == RolledBack
              L == Len(Edit.name)
  <2>1. fdt.stringsSize \in Nat /\ L \in Nat /\ f.stringsSize = fdt.stringsSize + L + 1
    <3>1. fdt.stringsSize \in Nat
      BY ONLY <1>1, BufferFacts
    <3>2. L \in Nat
      BY ONLY <1>1, EditFacts
    <3>. QED  BY ONLY <1>1, <1>3, <3>1, <3>2
  <2>2. Fields(f) /\ Appended(fdt, f, Edit.name \o <<Nul>>)
    BY <1>1, <1>3 DEF Buffer
  <2>3. g = [f EXCEPT !.stringsSize = @ - (L + 1)]
    BY <1>3 DEF RolledBack
  <2>. HIDE DEF f, g, L
  <2>4. /\ g.rsvOff = f.rsvOff /\ g.structOff = f.structOff /\ g.structSize = f.structSize
        /\ g.stringsOff = f.stringsOff /\ g.total = f.total /\ g.cells = f.cells
        /\ g.stringsSize = f.stringsSize - (L + 1)
    BY ONLY <2>2, <2>3 DEF Fields
  <2>5. g.stringsSize = fdt.stringsSize
    BY ONLY <2>1, <2>4
  <2>6. SameTree(fdt, g)
    BY ONLY <2>2, <2>4, <2>5 DEF SameTree, Appended
  <2>. QED  BY <2>6 DEF g
<1>. QED  BY <1>2, <1>3

LEMMA OpenedRight ==
  ASSUME FdtInv, OpenMove \/ OpenReorder
  PROVE  Opened(cfg.dtb, fdt')
<1>1. cfg \in Patches /\ fdt = Empty(cfg.size)
  BY DEF FdtInv, OpenMove, OpenReorder
<1>2. CASE OpenMove
  <2>1. /\ ~Misordered(cfg.dtb) /\ cfg.dtb.total <= cfg.size
        /\ fdt' = [cfg.dtb EXCEPT
                     !.cells = CopyIn(fdt.cells, 0, cfg.dtb.cells, 0, cfg.dtb.total),
                     !.total = NewTotal(cfg.dtb)]
    BY <1>2 DEF OpenMove
  <2>. QED  BY ONLY <1>1, <2>1, MovedRight
<1>3. CASE OpenReorder
  BY <1>1, <1>3, ReorderedRight
<1>. QED  BY <1>2, <1>3

(* fdt_open_into leaves the blocks of the dtb in fdt_buf, in any layout.    *)
(* Each property that is set is put in its place and nothing else of the    *)
(* tree is changed by it: every cell of the buffer before the property has  *)
(* the value it had, and so has every cell after it, moved by as much as    *)
(* the property grew.  A call that fails has left the tree as it was before *)
(* the call, cell by cell, also when the name was already there.            *)
NothingElse ==
  [][/\ call = "open" /\ call' # "failed" => Opened(cfg.dtb, fdt')
     /\ set' # set => InPlace(fdt')
     /\ call' = "failed" => SameTree(fdt, fdt')]_fdtVars

(* fdt_setprop changes the property it sets and nothing else, in any tree,  *)
(* for any properties and any size of the buffer.                           *)
THEOREM EditsChangeNothingElse == FdtSpec => NothingElse
<1>1. FdtInv /\ [FdtNext]_fdtVars =>
        [/\ call = "open" /\ call' # "failed" => Opened(cfg.dtb, fdt')
         /\ set' # set => InPlace(fdt')
         /\ call' = "failed" => SameTree(fdt, fdt')]_fdtVars
  <2>. SUFFICES ASSUME FdtInv, FdtNext, ~ UNCHANGED fdtVars
                PROVE  /\ call = "open" /\ call' # "failed" => Opened(cfg.dtb, fdt')
                       /\ set' # set => InPlace(fdt')
                       /\ call' = "failed" => SameTree(fdt, fdt')
    OBVIOUS
  <2>1. CASE OpenMove \/ OpenReorder
    <3>1. set' = set /\ call' = "path"
      BY <2>1 DEF OpenMove, OpenReorder
    <3>. QED  BY <2>1, <3>1, OpenedRight
  <2>2. CASE OpenMisaligned \/ OpenNoSpace \/ FindChosen
    <3>1. set' = set /\ fdt' = fdt /\ (call # "open" \/ call' = "failed")
      BY <2>2 DEF OpenMisaligned, OpenNoSpace, OpenFails, FindChosen
    <3>. QED  BY <3>1 DEF SameTree
  <2>3. CASE ResizeFails \/ AddStringFails
    <3>1. set' = set /\ fdt' = fdt /\ call = "set"
      BY <2>3 DEF ResizeFails, AddStringFails, SetFails
    <3>. QED  BY <3>1 DEF SameTree
  <2>4. CASE Resize
    <3>1. call' # "failed" /\ call = "set"
      BY <2>4 DEF Resize, NextEdit
    <3>. QED  BY <2>4, <3>1, ResizeInPlace
  <2>5. CASE Add
    <3>1. call' # "failed" /\ call = "set"
      BY <2>5 DEF Add, NextEdit
    <3>. QED  BY <2>5, <3>1, AddInPlace
  <2>6. CASE AddFails
    <3>1. call = "set" /\ StringFits /\ set' = set /\ fdt' = RolledBack
      BY <2>6 DEF AddFails, SetFails
    <3>2. PICK tags : Editable(tags)
      BY <3>1, SetFacts
    <3>3. SameTree(fdt, RolledBack)
      BY <3>1, <3>2, TakenBack
    <3>. QED  BY ONLY <3>1, <3>3
  <2>. QED  BY <2>1, <2>2, <2>3, <2>4, <2>5, <2>6 DEF FdtNext, Ended
<1>. QED  BY <1>1, FdtAlways, PTL DEF FdtSpec, NothingElse
=============================================================================
