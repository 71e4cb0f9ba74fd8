--------------------------- MODULE StartUp_proofs ---------------------------
(***************************************************************************)
(* Theorems about start-up, for images of every size, linked and loaded    *)
(* anywhere in a RAM of any size.                                          *)
(*                                                                         *)
(* MainStartsClean says nothing of the copy while it runs.  Inv does: how  *)
(* far the three registers have got, that what they have not reached is as *)
(* it was loaded, and, of an image loaded far enough away, that what they  *)
(* have passed is the image.                                               *)
(***************************************************************************)
EXTENDS StartUp, TLAPS

(* The registers of the copy move together, a pair of cells at a time. *)
InStep ==
  pc = "copy" =>
    /\ There # Home
    /\ Home <= x5 /\ x4 = There + (x5 - Home)
    /\ x6 = Home + SizeOf(cfg) - x5 /\ x6 > 0 /\ x6 % 2 = 0

(* What the copy has not written yet. *)
Unwritten ==
  /\ pc = "entry" => mem = LoadedMem(cfg)
  /\ pc = "copy" => \A a \in Cells : a < Home \/ x5 <= a => mem[a] = LoadedMem(cfg)[a]

(* What it has moved. *)
Moved ==
  /\ pc = "copy" /\ Apart =>
       \A i \in 0 .. cfg.content - 1 : Home + i < x5 => mem[Home + i] = Image(i)
  /\ pc \in {"reload", "branch", "start", "bss", "vectors", "main"} /\ Apart
       => HomeIntact

(* The BSS is cleared up to x0, if its addresses have one sign. *)
Clearing ==
  /\ pc = "bss" => /\ BssStart <= x0 /\ x0 <= BssEnd
                   /\ OneSign => \A a \in BssStart .. x0 - 1 : mem[a] = Zero
  /\ pc \in {"vectors", "main"} /\ OneSign => BssClear

Handlers ==
  /\ pc = "vectors" => ~OnArm
  /\ pc = "main" => OnArm \/ vectors
  /\ pc \in {"entry", "copy"} => ~OnArm

Inv == NoStrayWrite /\ InStep /\ Unwritten /\ Moved /\ Clearing /\ Handlers
-----------------------------------------------------------------------------
(* The addresses of a build, as numbers, and how they lie. *)
LEMMA Layout ==
  ASSUME TypeOK
  PROVE  /\ Top \in Nat /\ SignBit \in Nat /\ Top < 2 * SignBit
         /\ Home \in Nat /\ There \in Nat /\ SizeOf(cfg) \in Nat
         /\ cfg.content \in Nat /\ cfg.loop \in Nat /\ cfg.head \in Nat
         /\ cfg.bss \in Nat /\ cfg.content > 0 /\ cfg.loop <= cfg.head
         /\ BssStart = Home + cfg.content /\ BssEnd = BssStart + cfg.bss
         /\ BssEnd < Home + SizeOf(cfg)
         /\ SizeOf(cfg) % 2 = 0 /\ SizeOf(cfg) > 0
         /\ Home + SizeOf(cfg) <= Top + 1 /\ There + SizeOf(cfg) <= Top + 1
         /\ OnArm => ~cfg.pic
         /\ ~cfg.pic => There = Home
         /\ cfg.pic \in BOOLEAN
<1>1. IsBuild(cfg)
  BY DEF TypeOK
<1>. QED
  BY <1>1, StartUpAssumption, SMT
  DEF IsBuild, Home, There, BssStart, BssEnd, OnArm, HomeOf, ThereOf, BssStartOf,
      BssEndOf, SizeOf

(* What lies where, before anything is copied. *)
LEMMA AsLoaded ==
  ASSUME TypeOK, NEW a \in Cells
  PROVE  /\ \A i \in 0 .. cfg.content - 1 : a = There + i => LoadedMem(cfg)[a] = Image(i)
         /\ LoadedMem(cfg)[a] \in {"image", "ram", "zero"} \X Int
<1>1. a \in Int /\ ThereOf(cfg) \in Nat /\ cfg.head \in Nat
  BY Layout, SMT DEF Cells, There
<1>2. LoadedMem(cfg)[a] = IF a - ThereOf(cfg) \in -cfg.head .. cfg.content - 1
                          THEN Image(a - ThereOf(cfg)) ELSE <<"ram", a>>
  BY DEF LoadedMem
<1>3. \A i \in 0 .. cfg.content - 1 : a = There + i => LoadedMem(cfg)[a] = Image(i)
  <2> SUFFICES ASSUME NEW i \in 0 .. cfg.content - 1, a = There + i
      PROVE  LoadedMem(cfg)[a] = Image(i)
    OBVIOUS
  <2>1. a - ThereOf(cfg) = i /\ i \in -cfg.head .. cfg.content - 1
    BY <1>1, Layout, SMT DEF There
  <2> QED  BY <1>2, <2>1
<1>4. LoadedMem(cfg)[a] \in {"image", "ram", "zero"} \X Int
  BY <1>1, <1>2, SMT DEF Image
<1>. QED  BY <1>3, <1>4

(* An image that is where it belongs, or was never moved, is whole. *)
LEMMA WholeAtHome ==
  ASSUME TypeOK, There = Home, mem = LoadedMem(cfg)
  PROVE  HomeIntact
<1>1. \A i \in 0 .. cfg.content - 1 : There + i \in Cells
  BY Layout, SMT DEF Cells
<1>. QED  BY <1>1, AsLoaded DEF HomeIntact
-----------------------------------------------------------------------------
(* Start-up begins in a state of the invariant. *)
LEMMA InitInv == Init => Inv
<1>. SUFFICES ASSUME NEW b \in Builds, InitWith(b)
     PROVE  Inv
  BY DEF Init
<1>1. cfg = b /\ mem = LoadedMem(cfg) /\ cfg.pic \in BOOLEAN
      /\ pc = (IF cfg.pic THEN "entry" ELSE "start")
  BY StartUpAssumption DEF InitWith, IsBuild
<1>2. mem \in [Cells -> {"image", "ram", "zero"} \X Int]
  <2>1. ThereOf(b) \in Nat /\ Top \in Nat
    BY StartUpAssumption, SMT DEF IsBuild, ThereOf
  <2>2. \A a \in Cells : a \in Int /\ a - ThereOf(b) \in Int
    BY <2>1, SMT DEF Cells
  <2> QED  BY <2>2 DEF InitWith, LoadedMem, Image
<1>3. TypeOK
  <2>1. {x4, x5, x6, x0} \subseteq Nat
    BY SMT DEF InitWith
  <2>2. vectors \in BOOLEAN
    BY DEF InitWith
  <2>3. pc \in {"entry", "start"}
    BY <1>1
  <2> QED  BY <1>1, <1>2, <2>1, <2>2, <2>3, StartUpAssumption DEF TypeOK
<1>4. NoStrayWrite
  BY <1>1, <1>3 DEF NoStrayWrite
<1>5. InStep /\ Unwritten /\ Clearing
  BY <1>1 DEF InStep, Unwritten, Clearing
<1>6. Moved
  <2>1. ~cfg.pic => There = Home
    BY <1>3, Layout
  <2>. QED  BY <1>1, <1>3, <2>1, WholeAtHome DEF Moved
<1>7. Handlers
  BY <1>1, <1>3, Layout DEF Handlers
<1>. QED  BY <1>4, <1>5, <1>6, <1>7 DEF Inv
-----------------------------------------------------------------------------
(* Steps that write no memory but may set the registers. *)
LEMMA SameMemory ==
  ASSUME NoStrayWrite, cfg' = cfg, mem' = mem, TypeOK'
  PROVE  NoStrayWrite'
BY DEF NoStrayWrite, Home, HomeOf, SizeOf

LEMMA EntryKeepsInv == ASSUME Inv, Entry PROVE Inv'
<1>. USE DEF Inv
<1>1. TypeOK /\ mem = LoadedMem(cfg) /\ ~OnArm
  BY DEF NoStrayWrite, Unwritten, Handlers, Entry
<1>2. TypeOK'
  <2>1. {x4', x5', x6', x0'} \subseteq Nat
    BY <1>1, Layout, SMT DEF TypeOK, Entry, RelocSize
  <2>2. pc' \in {"branch", "copy"}
    BY DEF Entry
  <2> QED  BY <1>1, <2>1, <2>2 DEF TypeOK, Entry
<1>3. NoStrayWrite'
  BY <1>2, SameMemory DEF Entry
<1>4. InStep'
  <2>. SUFFICES ASSUME pc' = "copy"
       PROVE  /\ There # Home /\ Home <= x5' /\ x4' = There + (x5' - Home)
              /\ x6' = Home + SizeOf(cfg) - x5' /\ x6' > 0 /\ x6' % 2 = 0
    BY DEF InStep, Entry, Home, There, HomeOf, ThereOf, SizeOf
  <2>1. There # Home /\ x4' = There /\ x5' = Home /\ x6' = SizeOf(cfg)
    BY DEF Entry, RelocSize
  <2>. QED  BY <1>1, <2>1, Layout, SMT
<1>5. Unwritten'
  BY <1>1 DEF Unwritten, Entry
<1>6. Moved'
  <2>1. pc' = "copy" => x5' = Home
    BY DEF Entry
  <2>2. Home \in Nat /\ cfg.content \in Nat
    BY <1>1, Layout
  <2>3. pc' = "copy" => \A i \in 0 .. cfg.content - 1 : ~ (Home + i < x5')
    BY <2>1, <2>2, SMT
  <2>4. pc' \notin {"copy", "entry"} => There = Home
    BY DEF Entry
  <2>5. pc' \notin {"copy", "entry"} => HomeIntact
    BY <1>1, <2>4, WholeAtHome
  <2>. QED
    BY <2>3, <2>5 DEF Moved, Entry, HomeIntact, Apart, Home, There, HomeOf, ThereOf,
       RelocSize, SizeOf
<1>7. Clearing' /\ Handlers'
  BY <1>1 DEF Clearing, Handlers, Entry, OnArm
<1>. QED  BY <1>3, <1>4, <1>5, <1>6, <1>7

(* What one turn of the copying loop does, in numbers. *)
LEMMA PairInside ==
  ASSUME TypeOK, InStep, pc = "copy"
  PROVE  /\ x4 \in Nat /\ x5 \in Nat /\ x6 \in Nat
         /\ Home <= x5 /\ x5 + 2 <= Home + SizeOf(cfg)
         /\ x4 = There + (x5 - Home) /\ x6 = Home + SizeOf(cfg) - x5
         /\ x6 - 2 \in Nat /\ (x6 - 2) % 2 = 0
         /\ {x4, x4 + 1, x5, x5 + 1} \subseteq Cells
<1>1. x4 \in Nat /\ x5 \in Nat /\ x6 \in Nat
  BY DEF TypeOK
<1>2. x6 # 1 /\ x6 > 0
  BY <1>1, SMT DEF InStep
<1>. QED  BY <1>1, <1>2, Layout, SMT DEF InStep, Cells

(* Of an image that was loaded far enough away, the copy reads only what is *)
(* still as it was loaded.                                                  *)
LEMMA ReadsTheImage ==
  ASSUME TypeOK, InStep, Unwritten, pc = "copy", Apart,
         NEW i \in 0 .. cfg.content - 1, There + i \in {x4, x4 + 1}
  PROVE  mem[There + i] = Image(i)
<1>1. There + i \in Cells
  BY PairInside
<1>2. There + i < Home \/ x5 <= There + i
  BY Layout, PairInside, SMT DEF Apart, RelocSize, InStep
<1>3. mem[There + i] = LoadedMem(cfg)[There + i]
  BY <1>1, <1>2 DEF Unwritten
<1>. QED  BY <1>1, <1>3, AsLoaded

LEMMA CopyPairKeepsInv == ASSUME Inv, CopyPair PROVE Inv'
<1>. USE DEF Inv
<1>1. TypeOK /\ InStep /\ Unwritten /\ pc = "copy" /\ cfg' = cfg /\ ~OnArm
  BY DEF NoStrayWrite, CopyPair, Handlers
<1>2. x4' = x4 + 2 /\ x5' = x5 + 2 /\ x6' = x6 - 2 /\ x0' = x0
      /\ pc' = IF x6' = 0 THEN "reload" ELSE "copy"
  BY DEF CopyPair, NextPair
<1>3. /\ \A a \in Cells : a # x5 /\ a # x5 + 1 => mem'[a] = mem[a]
      /\ mem'[x5] = mem[x4] /\ mem'[x5 + 1] = mem[x4 + 1]
      /\ mem' \in [Cells -> {"image", "ram", "zero"} \X Int]
  <2>1. mem \in [Cells -> {"image", "ram", "zero"} \X Int]
    BY <1>1 DEF TypeOK
  <2>2. mem' = [mem EXCEPT ![x5] = mem[x4], ![x5 + 1] = mem[x4 + 1]]
    BY DEF CopyPair
  <2>3. x4 \in Cells /\ x4 + 1 \in Cells /\ x5 \in Cells /\ x5 + 1 \in Cells
        /\ x5 \in Nat /\ x5 # x5 + 1
    BY <1>1, PairInside, SMT
  <2>4. mem[x4] \in {"image", "ram", "zero"} \X Int
        /\ mem[x4 + 1] \in {"image", "ram", "zero"} \X Int
    BY <2>1, <2>3
  <2>. QED  BY <2>1, <2>2, <2>3, <2>4
<1>4. TypeOK'
  <2>1. {x4', x5', x6', x0'} \subseteq Nat
    BY <1>1, <1>2, PairInside, SMT DEF TypeOK
  <2>2. pc' \in {"reload", "copy"}
    BY <1>2
  <2> QED  BY <1>1, <1>3, <2>1, <2>2 DEF TypeOK, CopyPair
<1>5. NoStrayWrite'
  <2>. SUFFICES ASSUME NEW a \in Cells, a < Home \/ Home + SizeOf(cfg) <= a
       PROVE  mem'[a] = LoadedMem(cfg)[a]
    BY <1>1, <1>4 DEF NoStrayWrite, Home, HomeOf, SizeOf
  <2>1. a # x5 /\ a # x5 + 1
    BY <1>1, PairInside, Layout, SMT DEF Cells
  <2>. QED  BY <1>3, <2>1 DEF NoStrayWrite
<1>6. InStep'
  <2>. SUFFICES ASSUME pc' = "copy"
       PROVE  /\ There # Home /\ Home <= x5' /\ x4' = There + (x5' - Home)
              /\ x6' = Home + SizeOf(cfg) - x5' /\ x6' > 0 /\ x6' % 2 = 0
    BY <1>1 DEF InStep, Home, There, HomeOf, ThereOf, SizeOf
  <2>1. x6' # 0 /\ There # Home
    BY <1>1, <1>2 DEF InStep
  <2>. QED  BY <1>1, <1>2, <2>1, PairInside, Layout, SMT
<1>7. Unwritten'
  <2>. SUFFICES ASSUME NEW a \in Cells, a < Home \/ x5' <= a
       PROVE  mem'[a] = LoadedMem(cfg)[a]
    BY <1>1, <1>2 DEF Unwritten, Home, HomeOf
  <2>1. a # x5 /\ a # x5 + 1 /\ (a < Home \/ x5 <= a)
    BY <1>1, <1>2, PairInside, Layout, SMT DEF Cells
  <2>. QED  BY <1>1, <1>3, <2>1 DEF Unwritten
<1>8. ASSUME Apart, NEW i \in 0 .. cfg.content - 1, Home + i < x5 + 2
      PROVE  mem'[Home + i] = Image(i)
  <2>1. Home + i \in Cells /\ i \in Nat /\ Home \in Nat
    BY Layout, <1>1, SMT DEF Cells
  <2>2. CASE Home + i < x5
    <3>1. mem[Home + i] = Image(i)
      BY <1>1, <1>8, <2>2 DEF Moved
    <3>. QED  BY <1>1, <1>3, <2>1, <2>2, <3>1, PairInside, SMT
  <2>3. CASE Home + i = x5
    <3>1. There + i = x4
      BY <1>1, <2>1, <2>3, PairInside, Layout, SMT
    <3>. QED  BY <1>1, <1>3, <1>8, <2>3, <3>1, ReadsTheImage
  <2>4. CASE Home + i = x5 + 1
    <3>1. There + i = x4 + 1
      BY <1>1, <2>1, <2>4, PairInside, Layout, SMT
    <3>. QED  BY <1>1, <1>3, <1>8, <2>4, <3>1, ReadsTheImage
  <2>. QED  BY <1>1, <1>8, <2>1, <2>2, <2>3, <2>4, PairInside, SMT
<1>9. Moved'
  <2>1. x6' = 0 => x5 + 2 = Home + SizeOf(cfg)
    BY <1>1, <1>2, PairInside, Layout, SMT
  <2>2. x6' = 0 => \A i \in 0 .. cfg.content - 1 : Home + i < x5 + 2
    BY <1>1, <2>1, Layout, SMT
  <2>3. x6' = 0 /\ Apart => HomeIntact'
    BY <1>1, <1>8, <2>2 DEF HomeIntact, Home, HomeOf
  <2>4. Apart' = Apart /\ (There # Home)' = (There # Home) /\ Home' = Home
    BY <1>1 DEF Apart, Home, There, HomeOf, ThereOf, RelocSize, SizeOf
  <2>. QED  BY <1>1, <1>2, <1>8, <2>3, <2>4 DEF Moved
<1>10. Clearing' /\ Handlers'
  BY <1>1, <1>2 DEF Clearing, Handlers, OnArm
<1>. QED  BY <1>5, <1>6, <1>7, <1>9, <1>10
-----------------------------------------------------------------------------
(* A step that leaves the memory alone keeps what the memory is said to be. *)
LEMMA SameHome ==
  ASSUME cfg' = cfg, mem' = mem
  PROVE  HomeIntact' = HomeIntact /\ BssClear' = BssClear /\ Apart' = Apart
         /\ OneSign' = OneSign /\ OnArm' = OnArm
BY DEF HomeIntact, BssClear, Apart, OneSign, OnArm, Home, There, BssStart, BssEnd,
   HomeOf, ThereOf, BssStartOf, BssEndOf, RelocSize, SizeOf

LEMMA ReloadKeepsInv == ASSUME Inv, Reload PROVE Inv'
<1>. USE DEF Inv
<1>1. TypeOK /\ cfg' = cfg /\ mem' = mem /\ pc = "reload" /\ pc' = "branch"
  BY DEF NoStrayWrite, Reload
<1>2. TypeOK'
  <2>1. {x4', x5', x6', x0'} \subseteq Nat
    BY <1>1, Layout, SMT DEF TypeOK, Reload
  <2> QED  BY <1>1, <2>1 DEF TypeOK, Reload
<1>3. NoStrayWrite'
  BY <1>1, <1>2, SameMemory
<1>4. InStep' /\ Unwritten' /\ Clearing' /\ Handlers'
  BY <1>1 DEF InStep, Unwritten, Clearing, Handlers
<1>5. Moved'
  BY <1>1, SameHome DEF Moved
<1>. QED  BY <1>3, <1>4, <1>5

LEMMA BranchKeepsInv == ASSUME Inv, Branch PROVE Inv'
<1>. USE DEF Inv
<1>1. TypeOK /\ cfg' = cfg /\ mem' = mem /\ pc = "branch" /\ pc' = "start"
  BY DEF NoStrayWrite, Branch
<1>2. TypeOK'
  BY <1>1 DEF TypeOK, Branch
<1>3. NoStrayWrite'
  BY <1>1, <1>2, SameMemory
<1>4. InStep' /\ Unwritten' /\ Clearing' /\ Handlers'
  BY <1>1 DEF InStep, Unwritten, Clearing, Handlers
<1>5. Moved'
  BY <1>1, SameHome DEF Moved
<1>. QED  BY <1>3, <1>4, <1>5

LEMMA SetStackKeepsInv == ASSUME Inv, SetStack PROVE Inv'
<1>. USE DEF Inv
<1>1. TypeOK /\ cfg' = cfg /\ mem' = mem /\ pc = "start" /\ pc' = "bss"
      /\ x0' = BssStart
  BY DEF NoStrayWrite, SetStack
<1>2. TypeOK'
  <2>1. {x4', x5', x6', x0'} \subseteq Nat
    BY <1>1, Layout, SMT DEF TypeOK, SetStack
  <2> QED  BY <1>1, <2>1 DEF TypeOK, SetStack
<1>3. NoStrayWrite'
  BY <1>1, <1>2, SameMemory
<1>4. InStep' /\ Unwritten' /\ Handlers'
  BY <1>1 DEF InStep, Unwritten, Handlers
<1>5. Moved'
  BY <1>1, SameHome DEF Moved
<1>6. Clearing'
  <2>1. BssStart' = BssStart /\ BssEnd' = BssEnd
    BY <1>1 DEF BssStart, BssEnd, BssStartOf, BssEndOf, HomeOf
  <2>2. BssStart <= BssEnd /\ BssStart .. BssStart - 1 = {}
    BY <1>1, Layout, SMT
  <2>3. BssStart <= BssStart
    BY <1>1, Layout, SMT
  <2> QED  BY <1>1, <2>1, <2>2, <2>3 DEF Clearing
<1>. QED  BY <1>3, <1>4, <1>5, <1>6
-----------------------------------------------------------------------------
(* The loop that clears the BSS has not ended while there is a cell to clear, *)
(* and where the BSS lies on one side of the sign it ends at its last one.    *)
LEMMA SignedOrder ==
  ASSUME TypeOK, pc = "bss", BssStart <= x0, x0 <= BssEnd
  PROVE  /\ ~PastBss => x0 < BssEnd
         /\ PastBss /\ OneSign => x0 = BssEnd
<1>1. /\ x0 \in Nat /\ BssStart \in Nat /\ BssEnd \in Nat /\ SignBit \in Nat
      /\ BssEnd < 2 * SignBit
  BY Layout, SMT DEF TypeOK
<1>2. CASE ~OnArm
  BY <1>1, <1>2, SMT DEF PastBss, Signed
<1>3. CASE OnArm
  <2>1. ~PastBss => x0 # BssEnd
    <3>1. Signed(x0) \in Int
      BY <1>1, <1>3, SMT DEF Signed
    <3>2. x0 = BssEnd => Signed(x0) = Signed(BssEnd)
      OBVIOUS
    <3>. QED  BY <3>1, <3>2, SMT DEF PastBss
  <2>2. ~PastBss => x0 < BssEnd
    BY <1>1, <2>1, SMT
  <2>3. PastBss /\ OneSign => x0 = BssEnd
    BY <1>1, <1>3, SMT DEF PastBss, Signed, OneSign
  <2>. QED  BY <2>2, <2>3
<1>. QED  BY <1>2, <1>3

LEMMA ClearCellKeepsInv == ASSUME Inv, ClearCell PROVE Inv'
<1>. USE DEF Inv
<1>1. TypeOK /\ cfg' = cfg /\ pc = "bss" /\ pc' = "bss" /\ x0' = x0 + 1
      /\ BssStart <= x0 /\ x0 <= BssEnd /\ ~PastBss
  BY DEF NoStrayWrite, ClearCell, Clearing
<1>2. x0 \in Nat /\ x0 < BssEnd /\ x0 \in Cells
  <2>1. x0 < BssEnd
    BY <1>1, SignedOrder
  <2>2. x0 \in Nat
    BY <1>1 DEF TypeOK
  <2>. QED  BY <1>1, <2>1, <2>2, Layout, SMT DEF Cells
<1>3. /\ \A a \in Cells : a # x0 => mem'[a] = mem[a]
      /\ mem'[x0] = Zero
      /\ mem' \in [Cells -> {"image", "ram", "zero"} \X Int]
  <2>1. mem \in [Cells -> {"image", "ram", "zero"} \X Int]
    BY <1>1 DEF TypeOK
  <2>2. mem' = [mem EXCEPT ![x0] = Zero]
    BY DEF ClearCell
  <2>3. Zero \in {"image", "ram", "zero"} \X Int
    BY SMT DEF Zero
  <2>. QED  BY <1>2, <2>1, <2>2, <2>3
<1>4. TypeOK'
  <2>1. {x4', x5', x6', x0'} \subseteq Nat
    BY <1>1, <1>2, SMT DEF TypeOK, ClearCell
  <2> QED  BY <1>1, <1>3, <2>1 DEF TypeOK, ClearCell
<1>5. NoStrayWrite'
  <2>. SUFFICES ASSUME NEW a \in Cells, a < Home \/ Home + SizeOf(cfg) <= a
       PROVE  mem'[a] = LoadedMem(cfg)[a]
    BY <1>1, <1>4 DEF NoStrayWrite, Home, HomeOf, SizeOf
  <2>1. a # x0
    BY <1>1, <1>2, Layout, SMT DEF Cells
  <2>. QED  BY <1>3, <2>1 DEF NoStrayWrite
<1>6. InStep' /\ Unwritten' /\ Handlers'
  BY <1>1 DEF InStep, Unwritten, Handlers
<1>7. Moved'
  <2>. SUFFICES ASSUME Apart, NEW i \in 0 .. cfg.content - 1
       PROVE  mem'[Home + i] = Image(i)
    BY <1>1 DEF Moved, HomeIntact, Apart, Home, There, HomeOf, ThereOf, RelocSize, SizeOf
  <2>1. Home + i \in Cells /\ Home + i # x0
    BY <1>1, <1>2, Layout, SMT DEF Cells
  <2>. QED  BY <1>1, <1>3, <2>1 DEF Moved, HomeIntact
<1>8. Clearing'
  <2>1. BssStart' = BssStart /\ BssEnd' = BssEnd /\ OneSign' = OneSign
    BY <1>1 DEF BssStart, BssEnd, BssStartOf, BssEndOf, HomeOf, OneSign, OnArm
  <2>2. BssStart <= x0 + 1 /\ x0 + 1 <= BssEnd
    BY <1>1, <1>2, Layout, SMT
  <2>3. ASSUME OneSign, NEW a \in BssStart .. (x0 + 1) - 1
        PROVE  mem'[a] = Zero
    <3>1. a \in Cells /\ (a = x0 \/ a \in BssStart .. x0 - 1)
      BY <1>2, Layout, <1>1, SMT DEF Cells
    <3>. QED  BY <1>1, <1>3, <2>3, <3>1 DEF Clearing
  <2>. QED  BY <1>1, <2>1, <2>2, <2>3 DEF Clearing
<1>. QED  BY <1>5, <1>6, <1>7, <1>8

LEMMA BssClearedKeepsInv == ASSUME Inv, BssCleared PROVE Inv'
<1>. USE DEF Inv
<1>1. TypeOK /\ cfg' = cfg /\ mem' = mem /\ pc = "bss" /\ PastBss
      /\ pc' = IF OnArm THEN "main" ELSE "vectors"
  BY DEF NoStrayWrite, BssCleared
<1>2. TypeOK'
  BY <1>1 DEF TypeOK, BssCleared
<1>3. NoStrayWrite'
  BY <1>1, <1>2, SameMemory
<1>4. InStep' /\ Unwritten' /\ Handlers'
  BY <1>1, SameHome DEF InStep, Unwritten, Handlers
<1>5. Moved'
  BY <1>1, SameHome DEF Moved
<1>6. Clearing'
  <2>1. OneSign => x0 = BssEnd /\ \A a \in BssStart .. x0 - 1 : mem[a] = Zero
    BY <1>1, SignedOrder DEF Clearing
  <2>. QED  BY <1>1, <2>1, SameHome DEF Clearing, BssClear
<1>. QED  BY <1>3, <1>4, <1>5, <1>6

LEMMA VectorsKeepInv == ASSUME Inv, InstallExceptionVectors PROVE Inv'
<1>. USE DEF Inv
<1>1. TypeOK /\ cfg' = cfg /\ mem' = mem /\ pc = "vectors" /\ pc' = "main" /\ vectors'
  BY DEF NoStrayWrite, InstallExceptionVectors
<1>2. TypeOK'
  BY <1>1 DEF TypeOK, InstallExceptionVectors
<1>3. NoStrayWrite'
  BY <1>1, <1>2, SameMemory
<1>4. InStep' /\ Unwritten' /\ Handlers'
  BY <1>1 DEF InStep, Unwritten, Handlers
<1>5. Moved' /\ Clearing'
  BY <1>1, SameHome DEF Moved, Clearing
<1>. QED  BY <1>3, <1>4, <1>5

LEMMA AstrayKeepsInv == ASSUME Inv, RunAstray PROVE Inv'
<1>. USE DEF Inv
<1>1. TypeOK /\ cfg' = cfg /\ mem' = mem /\ pc' = "lost"
  BY DEF NoStrayWrite, RunAstray
<1>2. TypeOK'
  BY <1>1 DEF TypeOK, RunAstray
<1>3. NoStrayWrite'
  BY <1>1, <1>2, SameMemory
<1>4. InStep' /\ Unwritten' /\ Moved' /\ Clearing' /\ Handlers'
  BY <1>1 DEF InStep, Unwritten, Moved, Clearing, Handlers
<1>. QED  BY <1>3, <1>4
-----------------------------------------------------------------------------
LEMMA NextKeepsInv == Inv /\ [Next]_vars => Inv'
<1>. SUFFICES ASSUME Inv, [Next]_vars
     PROVE  Inv'
  OBVIOUS
<1>1. CASE Running
  BY <1>1, EntryKeepsInv, CopyPairKeepsInv, ReloadKeepsInv, BranchKeepsInv,
     SetStackKeepsInv, ClearCellKeepsInv, BssClearedKeepsInv, VectorsKeepInv,
     AstrayKeepsInv
  DEF Running
<1>2. CASE UNCHANGED vars
  <2>1. TypeOK'
    BY <1>2 DEF vars, TypeOK, Inv, NoStrayWrite
  <2>2. NoStrayWrite'
    BY <1>2, <2>1, SameMemory DEF vars, Inv
  <2>3. BssStart' = BssStart /\ BssEnd' = BssEnd /\ Home' = Home /\ There' = There
    BY <1>2 DEF vars, BssStart, BssEnd, Home, There, BssStartOf, BssEndOf, HomeOf, ThereOf
  <2>4. InStep' /\ Unwritten'
    BY <1>2, <2>3 DEF vars, Inv, InStep, Unwritten
  <2>5. Moved' /\ Clearing' /\ Handlers'
    BY <1>2, <2>3, SameHome DEF vars, Inv, Moved, Clearing, Handlers
  <2>. QED  BY <2>2, <2>4, <2>5 DEF Inv
<1>. QED  BY <1>1, <1>2 DEF Next, Stopped

THEOREM Invariance == Spec => []Inv
<1>1. Inv /\ [Next]_vars => Inv'
  BY NextKeepsInv
<1>. QED  BY InitInv, <1>1, PTL DEF Spec

(* The variables of start-up keep their types: of what the linker script     *)
(* fixes only that the image, stack included, is a whole number of pairs and *)
(* fits into RAM at both its addresses.                                      *)
THEOREM TypeCorrect == Spec => []TypeOK
<1>1. Inv => TypeOK
  BY DEF Inv, NoStrayWrite
<1>. QED  BY Invariance, <1>1, PTL

(* The copying and the clearing loop of start-up write nothing outside the  *)
(* loader's home, wherever the loader was loaded: RAM keeps the kernel, the *)
(* device tree and whatever else the earlier bootloader has put there.      *)
THEOREM NothingElseWritten == Spec => []NoStrayWrite
<1>1. Inv => NoStrayWrite
  BY DEF Inv
<1>. QED  BY Invariance, <1>1, PTL

(* When main is called, a loader that was loaded at its home, its content    *)
(* below it or its size above it is whole there, its BSS is cleared unless   *)
(* an ARM build's reaches across the address whose sign changes, and on      *)
(* AArch64 exceptions come to its own handler.                               *)
THEOREM CleanStart == Spec => []MainStartsClean
<1>1. Inv => MainStartsClean
  BY DEF Inv, MainStartsClean, Moved, Clearing, Handlers
<1>. QED  BY Invariance, <1>1, PTL
=============================================================================
