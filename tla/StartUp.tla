------------------------------ MODULE StartUp -------------------------------
(***************************************************************************)
(* From the loader's first instruction to main(): the copy to the address  *)
(* it was linked for (reloc.S, built with CONFIG_POSITION_INDEPENDENT),    *)
(* then the stack, the BSS and the exception vectors (start.S).            *)
(*                                                                         *)
(* A cell is what one store writes, 8 bytes on AArch64 and 4 on ARM.  The  *)
(* image is numbered from _start on; what precedes it, the header and the  *)
(* relocating code itself, has negative numbers.  Where an earlier         *)
(* bootloader has put the image is part of the build cfg.                  *)
(***************************************************************************)
EXTENDS Integers

CONSTANTS
  Top,       (* the last cell of RAM                                        *)
  SignBit,   (* ARM: the first cell whose address is negative as an int     *)
  Builds     (* what is built and where it is loaded, see IsBuild           *)

Cells == 0 .. Top

(* Addresses as linked: _start, __bss_start, __bss_end; and _reloc_size,    *)
(* which counts from the header on although the copy starts at _start.      *)
HomeOf(b) == b.base + b.head
BssStartOf(b) == HomeOf(b) + b.content
BssEndOf(b) == BssStartOf(b) + b.bss
SizeOf(b) == b.stackEnd - b.base

(* Address of _start where the image was loaded. *)
ThereOf(b) == b.loaded + b.head

(* The end of the stack lies on a page and .text on the alignment of the    *)
(* exception vectors, so the image is a whole number of pairs of cells.     *)
IsBuild(b) ==
  /\ b.arch \in {"aarch64", "arm"} /\ b.pic \in BOOLEAN
  /\ {b.base, b.head, b.content, b.bss, b.stackEnd, b.loop, b.loaded} \subseteq Nat
  /\ b.loop <= b.head   (* from _rel_stack_base to _start *)
  /\ b.content > 0
  /\ BssEndOf(b) < b.stackEnd /\ SizeOf(b) % 2 = 0
  /\ HomeOf(b) + SizeOf(b) <= Top + 1 /\ ThereOf(b) + SizeOf(b) <= Top + 1
  /\ b.arch = "arm" => ~b.pic
  /\ ~b.pic => b.loaded = b.base

ASSUME StartUpAssumption ==
  /\ Top \in Nat /\ SignBit \in Nat /\ Top < 2 * SignBit
  /\ \A b \in Builds : IsBuild(b)

VARIABLES
  cfg,       (* the build                                                   *)
  pc,        (* the instructions that come next                             *)
  mem,       (* what every cell holds                                       *)
  x4, x5, x6,(* where the copy reads, where it writes, how much is left     *)
  x0,        (* where the BSS is cleared next                               *)
  vectors    (* exceptions come to the loader's own handler                 *)

vars == <<cfg, pc, mem, x4, x5, x6, x0, vectors>>

OnArm == cfg.arch = "arm"

Home == HomeOf(cfg)
There == ThereOf(cfg)
BssStart == BssStartOf(cfg)
BssEnd == BssEndOf(cfg)

RelocSizeToBss_Wrong == BssEnd - cfg.base
RelocSize == SizeOf(cfg)

Zero == <<"zero", 0>>
Image(i) == <<"image", i>>

(* RAM as the earlier bootloader leaves it. *)
LoadedMem(b) ==
  [a \in Cells |-> IF a - ThereOf(b) \in -b.head .. b.content - 1
                   THEN Image(a - ThereOf(b)) ELSE <<"ram", a>>]

InitWith(b) ==
  /\ cfg = b
  /\ pc = IF b.pic THEN "entry" ELSE "start"
  /\ mem = LoadedMem(b)
  /\ x4 = 0 /\ x5 = 0 /\ x6 = 0 /\ x0 = 0
  /\ vectors = FALSE

Init == \E b \in Builds : InitWith(b)
-----------------------------------------------------------------------------
(* reloc.S *)

(* An image that is where it belongs is not copied. *)
Entry ==
  /\ pc = "entry"
  /\ x4' = There
  /\ x5' = Home
  /\ x6' = IF There = Home THEN x6 ELSE RelocSize
  /\ pc' = IF There = Home THEN "branch" ELSE "copy"
  /\ UNCHANGED <<cfg, mem, x0, vectors>>

NextPair_Wrong == x5 + 1
NextPair == x5 + 2

(* ldp, stp, subs, b.ne: both cells are read before either is written.  The *)
(* size is counted down to exactly nothing; missed, the loop would go on    *)
(* until there is no memory.                                                *)
CopyPair ==
  /\ pc = "copy"
  /\ {x4 + 1, x5 + 1} \subseteq Cells
  /\ mem' = [mem EXCEPT ![x5] = mem[x4], ![x5 + 1] = mem[x4 + 1]]
  /\ x4' = x4 + 2
  /\ x5' = NextPair
  /\ x6' = x6 - 2
  /\ pc' = IF x6' = 0 THEN "reload" ELSE "copy"
  /\ UNCHANGED <<cfg, x0, vectors>>

Reload ==
  /\ pc = "reload"
  /\ x5' = Home
  /\ pc' = "branch"
  /\ UNCHANGED <<cfg, mem, x4, x6, x0, vectors>>

Branch ==
  /\ pc = "branch"
  /\ pc' = "start"
  /\ UNCHANGED <<cfg, mem, x4, x5, x6, x0, vectors>>
-----------------------------------------------------------------------------
(* start.S *)

SetStack ==
  /\ pc = "start"
  /\ x0' = BssStart
  /\ pc' = "bss"
  /\ UNCHANGED <<cfg, mem, x4, x5, x6, vectors>>

(* The comparison that ends the loop is one of signed integers. *)
Signed(a) == IF OnArm /\ a >= SignBit THEN a - 2 * SignBit ELSE a

PastBss == Signed(x0) >= Signed(BssEnd)

ClearCell ==
  /\ pc = "bss" /\ ~PastBss
  /\ mem' = [mem EXCEPT ![x0] = Zero]
  /\ x0' = x0 + 1
  /\ UNCHANGED <<cfg, pc, x4, x5, x6, vectors>>

BssCleared ==
  /\ pc = "bss" /\ PastBss
  /\ pc' = IF OnArm THEN "main" ELSE "vectors"
  /\ UNCHANGED <<cfg, mem, x4, x5, x6, x0, vectors>>

InstallExceptionVectors ==
  /\ pc = "vectors"
  /\ vectors' = TRUE
  /\ pc' = "main"
  /\ UNCHANGED <<cfg, mem, x4, x5, x6, x0>>
-----------------------------------------------------------------------------
(* The code that is running: the loop and its literals before the branch,  *)
(* the image after it.                                                     *)
LoopIntact == \A i \in -cfg.loop .. -1 : mem[There + i] = Image(i)

HomeIntact == \A i \in 0 .. cfg.content - 1 : mem[Home + i] = Image(i)

CodeIntact ==
  IF pc \in {"entry", "copy", "reload", "branch"} THEN LoopIntact ELSE HomeIntact

(* Code that has been overwritten may be run from the instruction cache as *)
(* it was, or be whatever it has become.                                   *)
RunAstray ==
  /\ pc \notin {"main", "lost"} /\ ~CodeIntact
  /\ pc' = "lost"
  /\ UNCHANGED <<cfg, mem, x4, x5, x6, x0, vectors>>

Stopped == pc \in {"main", "lost"} /\ UNCHANGED vars

Running ==
  \/ Entry \/ CopyPair \/ Reload \/ Branch
  \/ SetStack \/ ClearCell \/ BssCleared \/ InstallExceptionVectors
  \/ RunAstray

Next == Running \/ Stopped

Spec == Init /\ [][Next]_vars

(* Nothing stops the boot CPU. *)
FairSpec == Spec /\ WF_vars(Running)
-----------------------------------------------------------------------------
(* The variables have their types. *)
TypeOK ==
  /\ IsBuild(cfg)
  /\ pc \in {"entry", "copy", "reload", "branch", "start", "bss", "vectors",
             "main", "lost"}
  /\ mem \in [Cells -> {"image", "ram", "zero"} \X Int]
  /\ {x4, x5, x6, x0} \subseteq Nat
  /\ vectors \in BOOLEAN

(* Where the image may be loaded: at home, so far below it that the copy    *)
(* does not reach what it has still to read, or so far above it that the    *)
(* copy, stack included, ends before the code that makes it.                *)
Apart ==
  \/ There = Home
  \/ There + cfg.content <= Home
  \/ Home + RelocSize <= There - cfg.loop

(* The BSS does not reach across the address whose sign changes. *)
OneSign == ~ (OnArm /\ BssStart < SignBit /\ SignBit <= BssEnd)

BssClear == \A a \in BssStart .. BssEnd - 1 : mem[a] = Zero

(* When main runs, the loader is whole at the address it was linked for,    *)
(* with its BSS cleared, and exceptions come to its own handler on AArch64. *)
MainStartsClean ==
  pc = "main" /\ Apart =>
    /\ HomeIntact
    /\ OneSign => BssClear
    /\ OnArm \/ vectors

(* However far or near it was loaded, start-up writes nothing outside its   *)
(* home; its home being a header longer than the image: the copy starts at  *)
(* _start and is as long as if it started before the header.                *)
NoStrayWrite ==
  /\ TypeOK
  /\ \A a \in Cells :
       a < Home \/ Home + SizeOf(cfg) <= a => mem[a] = LoadedMem(cfg)[a]

(* A loader that is loaded far enough from home, or at home, gets to main:  *)
(* the copy ends, and no instruction it runs has been overwritten.          *)
ReachesMain == Apart ~> pc = "main"
=============================================================================
