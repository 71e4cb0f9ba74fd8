--------------------------- MODULE Handoff_proofs ---------------------------
(***************************************************************************)
(* Theorems about Handoff, for every memory, cache line and set of builds  *)
(* that HandoffAssumption allows: nothing is written outside the three     *)
(* windows, a build whose addresses fit together hands over intact, the    *)
(* image is in memory when it is executed, and the alignment check is put  *)
(* back.                                                                   *)
(***************************************************************************)
EXTENDS Handoff, TLAPS

(* What the code does before arch_load_kernel. *)
Before == {"early_init", "probe", "late_init", "open_fdt", "chosen",
           "initrd-start", "initrd-end"}

(* What is known of the phases apart from memory. *)
Control ==
  /\ pc \in Before => dt = "dtb"
  /\ pc \in Before \cup {"load", "payload"} => n = 0
  /\ pc \in {"payload", "decode", "restore", "check"} => cfg.decompress
  /\ pc = "decode" => Format # "RAW" /\ n <= cfg.maxSize
  /\ pc = "ramdisk" => ~cfg.noCopy /\ n <= cfg.ramdiskSize
  /\ pc = "ramdisk" /\ OnArm => n = 0
  /\ Decompressed => outSize <= cfg.maxSize
  /\ pc \in {"early_init", "probe", "late_init", "open_fdt", "chosen", "initrd-start"}
       => props = {}
  /\ pc = "initrd-end" => props = {<<"initrd-start", cfg.rdEntry>>}
  /\ dt = "fdt_buf" => props = {<<"initrd-start", cfg.rdEntry>>,
                                <<"initrd-end", RamdiskEnd>>}

(* Everything but what the windows cover is as the loader found it. *)
Outside == \A a \in Addr \ Windows : mem[a] = InitialMem(cfg)[a]

Untouched == \A a \in Addr \ FdtBuf : mem[a] = InitialMem(cfg)[a]

KernelAsBuilt ==
  \A i \in 0 .. cfg.kernelSize - 1 : mem[cfg.kernelAt + i] = <<"payload", i>>

RamdiskAsBuilt ==
  \A i \in 0 .. cfg.ramdiskSize - 1 : mem[cfg.ramdiskAt + i] = <<"ramdisk", i>>

(* The copy is at byte n: what is before it has arrived, what is not has *)
(* not been overwritten.                                                 *)
RamdiskHalf ==
  /\ \A i \in 0 .. n - 1 : mem[cfg.rdEntry + i] = <<"ramdisk", i>>
  /\ \A i \in n .. cfg.ramdiskSize - 1 : mem[cfg.ramdiskAt + i] = <<"ramdisk", i>>

(* A decoder that succeeds has made what was packed. *)
Trusted == Decompressed => cfg.sound \/ cfg.checked

KernelThere == Trusted => KernelIntact

AfterLoad == {"ramdisk", "sync", "jump", "kernel"}

Memory ==
  /\ pc \in Before \cup {"load", "payload"} => Untouched
  /\ pc \in {"load", "payload"} => DtIntact
  /\ Fits =>
       /\ pc \in {"decode", "restore", "check"} \cup AfterLoad => DtIntact /\ CodeIntact
       /\ pc = "decode" => KernelAsBuilt
       /\ pc \in {"decode", "restore", "check"} => RamdiskAsBuilt
       /\ pc = "ramdisk" => RamdiskHalf
       /\ pc \in {"sync", "jump", "kernel"} => RamdiskIntact
       /\ (pc = "restore" /\ loadRet = "OK") \/ pc \in {"check"} \cup AfterLoad
            => KernelThere

Inv == TypeOK /\ Control /\ Outside /\ Memory
-----------------------------------------------------------------------------
(* What the linker sees to, in the form the proofs use it. *)
LEMMA Layout ==
  ASSUME TypeOK
  PROVE  /\ Top \in Nat /\ Line \in Nat \ {0} /\ MagicAt \in Nat
         /\ cfg.decompress \in BOOLEAN /\ cfg.noCopy \in BOOLEAN
         /\ cfg.entry \in Nat /\ cfg.rdEntry \in Nat /\ cfg.maxSize \in Nat
         /\ cfg.kernelAt \in Nat /\ cfg.kernelSize \in Nat
         /\ cfg.dtbAt \in Nat /\ cfg.dtbSize \in Nat
         /\ cfg.ramdiskAt \in Nat /\ cfg.ramdiskSize \in Nat
         /\ cfg.fdtBufAt \in Nat /\ cfg.fdtBufSize \in Nat
         /\ cfg.sizeAt \in Nat /\ cfg.imageSize \in Nat
         /\ cfg.noCopy => cfg.ramdiskAt = cfg.rdEntry
         /\ cfg.code \subseteq Addr
BY HandoffAssumption DEF TypeOK, IsBuild

LEMMA Regions ==
  ASSUME TypeOK
  PROVE  /\ Kernel \subseteq Addr /\ Dtb \subseteq Addr /\ Ramdisk \subseteq Addr
         /\ FdtBuf \subseteq Addr /\ LoadWindow \subseteq Addr
         /\ RamdiskDest \subseteq Addr
         /\ Kernel \cap (cfg.code \cup Dtb \cup Ramdisk \cup FdtBuf) = {}
         /\ Dtb \cap (cfg.code \cup Ramdisk \cup FdtBuf) = {}
         /\ Ramdisk \cap (cfg.code \cup FdtBuf) = {}
         /\ FdtBuf \cap cfg.code = {}
BY DEF TypeOK, IsBuild, Kernel, Dtb, Ramdisk, FdtBuf, LoadWindow, RamdiskDest

LEMMA Offsets ==
  ASSUME NEW at \in Nat, NEW size \in Nat
  PROVE  /\ \A i \in 0 .. size - 1 : at + i \in Region(at, size)
         /\ \A a \in Region(at, size) : a \in Int /\ a - at \in 0 .. size - 1
BY SMT DEF Region

(* Memory as built, region by region. *)
LEMMA AsBuilt ==
  ASSUME TypeOK
  PROVE  /\ \A i \in 0 .. cfg.kernelSize - 1 :
              InitialMem(cfg)[cfg.kernelAt + i] = <<"payload", i>>
         /\ \A i \in 0 .. cfg.dtbSize - 1 :
              InitialMem(cfg)[cfg.dtbAt + i] = <<"dtb", i>>
         /\ \A i \in 0 .. cfg.ramdiskSize - 1 :
              InitialMem(cfg)[cfg.ramdiskAt + i] = <<"ramdisk", i>>
         /\ \A a \in cfg.code : InitialMem(cfg)[a] = <<"own", a>>
<1>1. \A a \in Addr : InitialMem(cfg)[a] =
        IF a \in Kernel THEN <<"payload", a - cfg.kernelAt>>
        ELSE IF a \in Dtb THEN <<"dtb", a - cfg.dtbAt>>
        ELSE IF a \in Ramdisk THEN <<"ramdisk", a - cfg.ramdiskAt>>
        ELSE <<"own", a>>
  BY DEF InitialMem, Kernel, Dtb, Ramdisk
<1>2. \A i \in 0 .. cfg.kernelSize - 1 :
        cfg.kernelAt + i \in Kernel /\ (cfg.kernelAt + i) - cfg.kernelAt = i
  BY Layout, SMT DEF Kernel, Region
<1>3. \A i \in 0 .. cfg.dtbSize - 1 :
        cfg.dtbAt + i \in Dtb /\ (cfg.dtbAt + i) - cfg.dtbAt = i
  BY Layout, SMT DEF Dtb, Region
<1>4. \A i \in 0 .. cfg.ramdiskSize - 1 :
        cfg.ramdiskAt + i \in Ramdisk /\ (cfg.ramdiskAt + i) - cfg.ramdiskAt = i
  BY Layout, SMT DEF Ramdisk, Region
<1>5. \A a \in cfg.code : a \in Addr /\ a \notin Kernel \cup Dtb \cup Ramdisk
  BY Layout, Regions
<1>6. \A i \in 0 .. cfg.kernelSize - 1 :
        InitialMem(cfg)[cfg.kernelAt + i] = <<"payload", i>>
  BY <1>1, <1>2, Regions
<1>7. \A i \in 0 .. cfg.dtbSize - 1 :
        InitialMem(cfg)[cfg.dtbAt + i] = <<"dtb", i>>
  BY <1>1, <1>3, Regions
<1>8. \A i \in 0 .. cfg.ramdiskSize - 1 :
        InitialMem(cfg)[cfg.ramdiskAt + i] = <<"ramdisk", i>>
  BY <1>1, <1>4, Regions
<1>9. \A a \in cfg.code : InitialMem(cfg)[a] = <<"own", a>>
  BY <1>1, <1>5
<1>. QED  BY <1>6, <1>7, <1>8, <1>9
-----------------------------------------------------------------------------
(* Types, and the facts about phases. *)
LEMMA SameBuild == Next => cfg' = cfg
BY DEF Next, Main, EarlyInit, ProbeAll, LateInit, Initcall, PatchDtb, PatchFails,
       OpenFdt, FindChosen, SetInitrdStart, SetInitrdEnd, SetInitrd, LoadKernel,
       CopyKernel, DisableAlignmentChecks, LoadRaw, RefusePayload, StartDecoder,
       DecodeByte, DecodeSucceeds, DecodeFails, RestoreAlignmentChecks, CheckMagic,
       LoadRamdisk, CopyRamdiskByte, RamdiskCopied, CopyRamdisk, Handover,
       SyncCaches, Jump, KernelReturns, Hang, Go, PayloadReturns, vars

LEMMA TypeStep == ASSUME TypeOK, Next PROVE TypeOK'
<1>. cfg' = cfg /\ IsBuild(cfg') /\ IsBuild(cfg)
  BY SameBuild DEF TypeOK
<1>. USE DEF TypeOK, Phases, Errors, Go, bootVars, loadVars, memVars
<1>1. CASE Main
  BY <1>1 DEF Main, EarlyInit, ProbeAll, LateInit, Initcall
<1>2. CASE PatchFails \/ FindChosen
  BY <1>2 DEF PatchFails, FindChosen, DtUnpatched
<1>3. CASE OpenFdt
  BY <1>3 DEF OpenFdt, Write
<1>4. CASE SetInitrdStart
  <2>1. cfg.rdEntry \in Nat
    BY Layout
  <2>. QED  BY <1>4, <2>1 DEF SetInitrdStart, SetInitrd, Write
<1>5. CASE SetInitrdEnd
  <2>1. RamdiskEnd \in Nat
    BY Layout, SMT DEF RamdiskEnd
  <2>. QED  BY <1>5, <2>1 DEF SetInitrdEnd, SetInitrd, Write
<1>6. CASE CopyKernel
  BY <1>6, Layout DEF CopyKernel, MemCpy, Write, AfterKernel
<1>7. CASE DisableAlignmentChecks
  <2>1. sctlrA' \in BOOLEAN /\ savedA' \in BOOLEAN
    BY <1>7, Zenon DEF DisableAlignmentChecks
  <2>. QED  BY <1>7, <2>1 DEF DisableAlignmentChecks
<1>8. CASE LoadRaw
  BY <1>8, Layout DEF LoadRaw, MemCpy, Write, PayloadReturns
<1>9. CASE RefusePayload \/ StartDecoder \/ DecodeSucceeds \/ DecodeFails
  BY <1>9 DEF RefusePayload, StartDecoder, DecodeSucceeds, DecodeFails, PayloadReturns
<1>10. CASE DecodeByte
  BY <1>10 DEF DecodeByte, Write
<1>11. CASE RestoreAlignmentChecks
  <2>1. sctlrA' \in BOOLEAN /\ savedA' \in BOOLEAN
    BY <1>11, Zenon DEF RestoreAlignmentChecks, RestoredA
  <2>. QED  BY <1>11, <2>1 DEF RestoreAlignmentChecks
<1>12. CASE CheckMagic
  BY <1>12 DEF CheckMagic, AfterKernel
<1>13. CASE CopyRamdiskByte
  BY <1>13 DEF CopyRamdiskByte, Write
<1>14. CASE RamdiskCopied
  BY <1>14 DEF RamdiskCopied
<1>15. CASE CopyRamdisk
  BY <1>15 DEF CopyRamdisk, MemCpy, Write
<1>16. CASE SyncCaches
  BY <1>16 DEF SyncCaches, SyncedBy
<1>17. CASE Jump \/ KernelReturns \/ Hang
  BY <1>17 DEF Jump, KernelReturns, Hang, vars
<1>. QED
  BY <1>1, <1>2, <1>3, <1>4, <1>5, <1>6, <1>7, <1>8, <1>9, <1>10, <1>11, <1>12,
     <1>13, <1>14, <1>15, <1>16, <1>17
  DEF Next, PatchDtb, LoadKernel, LoadRamdisk, Handover

LEMMA ControlStep == ASSUME TypeOK, Control, Next PROVE Control'
<1>. /\ cfg' = cfg /\ Format' = Format /\ Decompressed' = Decompressed
     /\ OnArm' = OnArm /\ RamdiskEnd' = RamdiskEnd
  BY SameBuild DEF Format, Decompressed, OnArm, RamdiskEnd
<1>0. /\ cfg.kernelSize \in Nat /\ cfg.maxSize \in Nat /\ cfg.ramdiskSize \in Nat
      /\ n \in Nat /\ cfg.decompress \in BOOLEAN
  BY Layout DEF TypeOK
<1>. USE DEF Control, Before, Go, bootVars, loadVars, memVars
<1>1. CASE Main \/ PatchDtb
  BY <1>1, <1>0 DEF Main, EarlyInit, ProbeAll, LateInit, Initcall, PatchDtb, PatchFails,
       OpenFdt, FindChosen, SetInitrdStart, SetInitrdEnd, SetInitrd, DtUnpatched
<1>2. CASE CopyKernel
  BY <1>2, <1>0 DEF CopyKernel, AfterKernel, Decompressed
<1>3. CASE DisableAlignmentChecks \/ StartDecoder
  BY <1>3, <1>0 DEF DisableAlignmentChecks, StartDecoder
<1>4. CASE LoadRaw \/ RefusePayload
  BY <1>4, <1>0 DEF LoadRaw, RefusePayload, PayloadReturns, Decompressed
<1>5. CASE DecodeByte
  <2>1. /\ pc = "decode" /\ pc' = "decode" /\ n' = n + 1 /\ outSize' = outSize
        /\ dt' = dt /\ props' = props
    BY <1>5 DEF DecodeByte
  <2>2. n < cfg.maxSize
    BY <1>5 DEF DecodeByte, RoomLeft
  <2>3. n' <= cfg.maxSize
    BY <1>0, <2>1, <2>2
  <2>. QED  BY <2>1, <2>3
<1>6. CASE DecodeSucceeds \/ DecodeFails
  BY <1>6, <1>0 DEF DecodeSucceeds, DecodeFails, PayloadReturns
<1>7. CASE RestoreAlignmentChecks \/ CheckMagic
  BY <1>7, <1>0 DEF RestoreAlignmentChecks, CheckMagic, AfterKernel
<1>8. CASE LoadRamdisk
  BY <1>8, <1>0, SMT DEF LoadRamdisk, CopyRamdiskByte, RamdiskCopied, CopyRamdisk
<1>9. CASE Handover \/ KernelReturns \/ Hang
  BY <1>9, <1>0 DEF Handover, SyncCaches, Jump, KernelReturns, Hang, vars
<1>. QED
  BY <1>1, <1>2, <1>3, <1>4, <1>5, <1>6, <1>7, <1>8, <1>9 DEF Next, LoadKernel
-----------------------------------------------------------------------------
(* Writes. *)

(* A step that writes nothing but W leaves what is outside W alone. *)
LEMMA OutsideKept ==
  ASSUME TypeOK, Outside, cfg' = cfg, NEW W \in SUBSET Windows,
         \A a \in Addr \ W : mem'[a] = mem[a]
  PROVE  Outside'
<1>1. Windows' = Windows /\ InitialMem(cfg)' = InitialMem(cfg)
  BY DEF Windows, LoadWindow, FdtBuf, RamdiskDest, Decompressed, Format, InitialMem
<1>. QED  BY <1>1 DEF Outside

(* What each step that writes leaves alone. *)
LEMMA WritesTree ==
  ASSUME OpenFdt \/ SetInitrdStart \/ SetInitrdEnd
  PROVE  /\ \A a \in Addr \ FdtBuf : mem'[a] = mem[a]
         /\ \A a \in Addr \cap FdtBuf : mem'[a] = <<"fdt", a - cfg.fdtBufAt>>
BY DEF OpenFdt, SetInitrdStart, SetInitrdEnd, SetInitrd, Write

LEMMA WritesKernel ==
  ASSUME CopyKernel \/ LoadRaw
  PROVE  \A a \in Addr \ Region(cfg.entry, cfg.kernelSize) : mem'[a] = mem[a]
BY DEF CopyKernel, LoadRaw, MemCpy, Write

LEMMA WritesImage ==
  ASSUME DecodeByte
  PROVE  \A a \in Addr \ {cfg.entry + n} : mem'[a] = mem[a]
BY DEF DecodeByte, Write

LEMMA WritesRamdisk ==
  /\ CopyRamdiskByte =>
       /\ \A a \in Addr \ {cfg.rdEntry + n} : mem'[a] = mem[a]
       /\ cfg.rdEntry + n \in Addr => mem'[cfg.rdEntry + n] = mem[cfg.ramdiskAt + n]
  /\ CopyRamdisk => \A a \in Addr \ RamdiskDest : mem'[a] = mem[a]
BY DEF CopyRamdiskByte, CopyRamdisk, MemCpy, Write, RamdiskDest

LEMMA ImageCell ==
  ASSUME TypeOK, Control, DecodeByte
  PROVE  cfg.entry + n \in LoadWindow
<1>1. cfg.entry \in Nat /\ cfg.maxSize \in Nat /\ n \in Nat /\ n < cfg.maxSize
  BY Layout DEF TypeOK, DecodeByte, RoomLeft
<1>2. Decompressed
  BY DEF Control, DecodeByte, Decompressed
<1>. QED  BY <1>1, <1>2, SMT DEF LoadWindow, Region

LEMMA RamdiskCell ==
  ASSUME TypeOK, CopyRamdiskByte
  PROVE  cfg.rdEntry + n \in RamdiskDest
BY Layout, SMT DEF TypeOK, CopyRamdiskByte, RamdiskDest, Region

LEMMA WritesNothing ==
  ASSUME TypeOK, Next,
         ~(OpenFdt \/ SetInitrdStart \/ SetInitrdEnd \/ CopyKernel \/ LoadRaw
             \/ DecodeByte \/ CopyRamdiskByte \/ CopyRamdisk)
  PROVE  mem' = mem
BY DEF Next, Main, EarlyInit, ProbeAll, LateInit, Initcall, PatchDtb, PatchFails,
       FindChosen, LoadKernel, DisableAlignmentChecks, RefusePayload, StartDecoder,
       DecodeSucceeds, DecodeFails, RestoreAlignmentChecks, CheckMagic,
       LoadRamdisk, RamdiskCopied, Handover, SyncCaches, Jump, KernelReturns, Hang,
       memVars, vars

LEMMA OutsideStep == ASSUME TypeOK, Control, Outside, Next PROVE Outside'
<1>. cfg' = cfg
  BY SameBuild
<1>1. CASE OpenFdt \/ SetInitrdStart \/ SetInitrdEnd
  BY <1>1, WritesTree, OutsideKept DEF Windows
<1>2. CASE CopyKernel \/ LoadRaw
  <2>1. ~Decompressed
    BY <1>2 DEF CopyKernel, LoadRaw, Decompressed
  <2>2. Region(cfg.entry, cfg.kernelSize) \subseteq Windows
    BY <2>1 DEF Windows, LoadWindow
  <2>. QED  BY <1>2, <2>2, WritesKernel, OutsideKept
<1>3. CASE DecodeByte
  BY <1>3, ImageCell, WritesImage, OutsideKept DEF Windows
<1>4. CASE CopyRamdiskByte \/ CopyRamdisk
  <2>1. RamdiskDest \subseteq Windows
    BY <1>4 DEF Windows, Control, CopyRamdiskByte, CopyRamdisk
  <2>2. CASE CopyRamdiskByte
    BY <2>1, <2>2, RamdiskCell, WritesRamdisk, OutsideKept
  <2>3. CASE CopyRamdisk
    BY <2>1, <2>3, WritesRamdisk, OutsideKept
  <2>. QED  BY <1>4, <2>2, <2>3
<1>5. CASE mem' = mem
  BY <1>5, OutsideKept
<1>. QED  BY <1>1, <1>2, <1>3, <1>4, <1>5, WritesNothing
-----------------------------------------------------------------------------
(* What the parts of Memory say of a memory that is as it was built, but for *)
(* fdt_buf.                                                                  *)
LEMMA FromUntouched ==
  ASSUME TypeOK, Untouched
  PROVE  KernelAsBuilt /\ RamdiskAsBuilt /\ CodeIntact /\ (dt = "dtb" => DtIntact)
<1>1. ASSUME NEW at \in Nat, NEW size \in Nat, Region(at, size) \subseteq Addr,
             Region(at, size) \cap FdtBuf = {}
      PROVE  \A i \in 0 .. size - 1 : mem[at + i] = InitialMem(cfg)[at + i]
  BY <1>1, Offsets DEF Untouched
<1>2. KernelAsBuilt
  <2>1. cfg.kernelAt \in Nat /\ cfg.kernelSize \in Nat
        /\ Region(cfg.kernelAt, cfg.kernelSize) \subseteq Addr
        /\ Region(cfg.kernelAt, cfg.kernelSize) \cap FdtBuf = {}
    BY Layout, Regions DEF Kernel
  <2>. QED  BY <2>1, <1>1, AsBuilt DEF KernelAsBuilt
<1>3. RamdiskAsBuilt
  <2>1. cfg.ramdiskAt \in Nat /\ cfg.ramdiskSize \in Nat
        /\ Region(cfg.ramdiskAt, cfg.ramdiskSize) \subseteq Addr
        /\ Region(cfg.ramdiskAt, cfg.ramdiskSize) \cap FdtBuf = {}
    BY Layout, Regions DEF Ramdisk
  <2>. QED  BY <2>1, <1>1, AsBuilt DEF RamdiskAsBuilt
<1>4. ASSUME dt = "dtb" PROVE DtIntact
  <2>1. cfg.dtbAt \in Nat /\ cfg.dtbSize \in Nat
        /\ Region(cfg.dtbAt, cfg.dtbSize) \subseteq Addr
        /\ Region(cfg.dtbAt, cfg.dtbSize) \cap FdtBuf = {}
    BY Layout, Regions DEF Dtb
  <2>. QED  BY <2>1, <1>1, <1>4, AsBuilt DEF DtIntact
<1>5. CodeIntact
  BY AsBuilt, Regions, Layout DEF Untouched, CodeIntact
<1>. QED  BY <1>2, <1>3, <1>4, <1>5

(* The places of which Memory speaks lie in the regions of the build. *)
LEMMA Places ==
  ASSUME TypeOK
  PROVE  /\ \A i \in 0 .. cfg.kernelSize - 1 : cfg.kernelAt + i \in Kernel
         /\ \A i \in 0 .. cfg.ramdiskSize - 1 : cfg.ramdiskAt + i \in Ramdisk
         /\ \A i \in 0 .. cfg.ramdiskSize - 1 : cfg.rdEntry + i \in RamdiskDest
         /\ \A i \in 0 .. cfg.dtbSize - 1 : cfg.dtbAt + i \in Dtb
         /\ \A i \in 0 .. cfg.fdtBufSize - 1 : cfg.fdtBufAt + i \in FdtBuf
BY Layout, Offsets DEF Kernel, Ramdisk, RamdiskDest, Dtb, FdtBuf

(* A step that writes W and leaves tree and code alone. *)
LEMMA TreeAndCodeKept ==
  ASSUME TypeOK, DtIntact, CodeIntact, cfg' = cfg, dt' = dt,
         NEW W, W \cap (cfg.code \cup DtInUse) = {},
         \A a \in Addr \ W : mem'[a] = mem[a]
  PROVE  DtIntact' /\ CodeIntact'
<1>1. CodeIntact'
  BY Layout DEF CodeIntact
<1>2. CASE dt = "dtb"
  <2>1. \A i \in 0 .. cfg.dtbSize - 1 : cfg.dtbAt + i \in Addr \ W
    BY <1>2, Places, Regions DEF DtInUse
  <2>. QED  BY <1>1, <1>2, <2>1 DEF DtIntact
<1>3. CASE dt # "dtb"
  <2>1. \A i \in 0 .. cfg.fdtBufSize - 1 : cfg.fdtBufAt + i \in Addr \ W
    BY <1>3, Places, Regions DEF DtInUse
  <2>. QED  BY <1>1, <1>3, <2>1 DEF DtIntact
<1>. QED  BY <1>2, <1>3

LEMMA KernelSourceKept ==
  ASSUME TypeOK, KernelAsBuilt, cfg' = cfg, NEW W, W \cap Kernel = {},
         \A a \in Addr \ W : mem'[a] = mem[a]
  PROVE  KernelAsBuilt'
<1>1. \A i \in 0 .. cfg.kernelSize - 1 : cfg.kernelAt + i \in Addr \ W
  BY Places, Regions
<1>. QED  BY <1>1 DEF KernelAsBuilt

LEMMA RamdiskSourceKept ==
  ASSUME TypeOK, RamdiskAsBuilt, cfg' = cfg, NEW W, W \cap Ramdisk = {},
         \A a \in Addr \ W : mem'[a] = mem[a]
  PROVE  RamdiskAsBuilt'
<1>1. \A i \in 0 .. cfg.ramdiskSize - 1 : cfg.ramdiskAt + i \in Addr \ W
  BY Places, Regions
<1>. QED  BY <1>1 DEF RamdiskAsBuilt

(* All of the loaded kernel lies in its window. *)
LEMMA KernelInWindow ==
  ASSUME TypeOK, Control, KernelIntact
  PROVE  \A i \in 0 .. outSize - 1 : cfg.entry + i \in LoadWindow
<1>1. outSize <= IF Decompressed THEN cfg.maxSize ELSE cfg.kernelSize
  BY Layout DEF Control, KernelIntact
<1>2. /\ cfg.entry \in Nat /\ cfg.maxSize \in Nat /\ cfg.kernelSize \in Nat
      /\ outSize \in Nat
  BY Layout DEF TypeOK
<1>3. CASE Decompressed
  BY <1>1, <1>2, <1>3, SMT DEF LoadWindow, Region
<1>4. CASE ~Decompressed
  BY <1>1, <1>2, <1>4, SMT DEF LoadWindow, Region
<1>. QED  BY <1>3, <1>4

LEMMA KernelKept ==
  ASSUME TypeOK, Control, KernelThere, cfg' = cfg, outSize' = outSize,
         NEW W, W \cap LoadWindow = {}, \A a \in Addr \ W : mem'[a] = mem[a]
  PROVE  KernelThere'
<1>1. Trusted' <=> Trusted
  BY DEF Trusted, Decompressed, Format
<1>2. ASSUME KernelIntact PROVE KernelIntact'
  <2>1. \A i \in 0 .. outSize - 1 : cfg.entry + i \in Addr \ W
    BY <1>2, KernelInWindow, Regions
  <2>. QED  BY <1>2, <2>1 DEF KernelIntact, Decompressed, Format
<1>. QED  BY <1>1, <1>2 DEF KernelThere

(* memcpy moves what it copies where it says, also over an overlap, if the   *)
(* ARM one is not asked to move it up.                                       *)
LEMMA CopiedWhole ==
  ASSUME NEW dst \in Nat, NEW from \in Nat, NEW size \in Nat,
         MemCpy(dst, from, size), Region(dst, size) \subseteq Addr,
         OnArm => Region(dst, size) \cap Region(from, size) = {} \/ dst <= from
  PROVE  \A i \in 0 .. size - 1 : mem'[dst + i] = mem[from + i]
<1>1. OnArm => Overtaken(dst, from, size) = {}
  <2>1. CASE dst <= from
    BY <2>1, SMT DEF Overtaken
  <2>2. CASE OnArm /\ ~(dst <= from)
    <3>1. ASSUME NEW a \in Overtaken(dst, from, size) PROVE FALSE
      <4>1. a \in dst .. dst + size - 1 /\ a - dst >= dst - from /\ from < dst
        BY <3>1 DEF Overtaken, Region
      <4>2. dst \in Region(dst, size) \cap Region(from, size)
        BY <4>1, SMT DEF Region
      <4>. QED  BY <4>2, <2>2
    <3>. QED  BY <3>1
  <2>. QED  BY <2>1, <2>2
<1>2. \A a \in Region(dst, size) : mem'[a] = mem[from + (a - dst)]
  BY <1>1 DEF MemCpy, Write
<1>3. \A i \in 0 .. size - 1 : dst + i \in Region(dst, size) /\ (dst + i) - dst = i
  BY SMT DEF Region
<1>. QED  BY <1>2, <1>3
-----------------------------------------------------------------------------
(* Memory, step by step. *)
LEMMA FitsKept ==
  ASSUME cfg' = cfg, dt' = dt
  PROVE  Fits' <=> Fits
BY DEF Fits, KernelFits, RamdiskFits, LoadWindow, RamdiskDest, DtInUse, Dtb,
       FdtBuf, Ramdisk, Kernel, Decompressed, Format, OnArm

LEMMA MemorySame ==
  ASSUME cfg' = cfg, dt' = dt, mem' = mem
  PROVE  /\ Untouched' <=> Untouched
         /\ DtIntact' <=> DtIntact
         /\ CodeIntact' <=> CodeIntact
         /\ KernelAsBuilt' <=> KernelAsBuilt
         /\ RamdiskAsBuilt' <=> RamdiskAsBuilt
         /\ RamdiskIntact' <=> RamdiskIntact
         /\ outSize' = outSize => (KernelThere' <=> KernelThere)
BY DEF Untouched, DtIntact, CodeIntact, KernelAsBuilt, RamdiskAsBuilt, RamdiskIntact,
       KernelThere, Trusted, KernelIntact, FdtBuf, Decompressed, Format

(* main, and the steps of the patch that write nothing. *)
LEMMA MemoryMain ==
  ASSUME Inv, Main \/ PatchFails \/ FindChosen, TypeOK'
  PROVE  Memory'
<1>1. pc \in Before /\ pc' \in Before \cup {"load", "hang"}
      /\ cfg' = cfg /\ mem' = mem /\ dt' = dt
  BY DEF Main, EarlyInit, ProbeAll, LateInit, Initcall, PatchFails, FindChosen,
         DtUnpatched, Before, Go, memVars, bootVars
<1>2. Untouched /\ DtIntact
  BY <1>1, FromUntouched DEF Inv, Memory, Control
<1>3. Untouched' /\ DtIntact'
  BY <1>1, <1>2, MemorySame
<1>. QED  BY <1>1, <1>3 DEF Memory, Before, AfterLoad

LEMMA MemoryTree ==
  ASSUME Inv, OpenFdt \/ SetInitrdStart \/ SetInitrdEnd
  PROVE  Memory'
<1>1. pc \in Before /\ pc' \in Before \cup {"load"} /\ cfg' = cfg
  BY DEF OpenFdt, SetInitrdStart, SetInitrdEnd, SetInitrd, Before, Go
<1>2. Untouched'
  BY <1>1, WritesTree DEF Inv, Memory, Untouched, FdtBuf, InitialMem
<1>3. pc' = "load" => DtIntact'
  <2>1. SUFFICES ASSUME pc' = "load" PROVE DtIntact'
    OBVIOUS
  <2>2. dt' = "fdt_buf"
    BY <2>1 DEF OpenFdt, SetInitrdStart, SetInitrdEnd, SetInitrd, Go
  <2>3. \A i \in 0 .. cfg.fdtBufSize - 1 :
          /\ cfg.fdtBufAt + i \in Addr \cap FdtBuf
          /\ (cfg.fdtBufAt + i) - cfg.fdtBufAt = i
    <3>1. \A i \in 0 .. cfg.fdtBufSize - 1 : (cfg.fdtBufAt + i) - cfg.fdtBufAt = i
      BY Layout, SMT DEF Inv
    <3>. QED  BY <3>1, Places, Regions DEF Inv
  <2>4. \A i \in 0 .. cfg.fdtBufSize - 1 : mem'[cfg.fdtBufAt + i] = <<"fdt", i>>
    BY <2>3, WritesTree
  <2>. QED  BY <1>1, <2>2, <2>4 DEF DtIntact
<1>. QED  BY <1>1, <1>2, <1>3 DEF Memory, Before, AfterLoad

(* The steps from the first look at the payload to the decoder's. *)
LEMMA MemoryDispatch ==
  ASSUME Inv, DisableAlignmentChecks \/ RefusePayload \/ StartDecoder
  PROVE  Memory'
<1>1. /\ pc \in {"load", "payload"} /\ cfg' = cfg /\ mem' = mem /\ dt' = dt
      /\ \/ pc' \in {"payload", "decode"}
         \/ pc' = "restore" /\ loadRet' # "OK"
  BY DEF DisableAlignmentChecks, RefusePayload, StartDecoder, PayloadReturns, Go,
         memVars, bootVars
<1>2. Untouched /\ DtIntact /\ CodeIntact /\ KernelAsBuilt /\ RamdiskAsBuilt
  BY <1>1, FromUntouched DEF Inv, Memory
<1>3. Untouched' /\ DtIntact' /\ CodeIntact' /\ KernelAsBuilt' /\ RamdiskAsBuilt'
  BY <1>1, <1>2, MemorySame
<1>. QED  BY <1>1, <1>3 DEF Memory, Before, AfterLoad

LEMMA KernelMoved ==
  ASSUME Inv, CopyKernel \/ LoadRaw, Fits
  PROVE  DtIntact' /\ CodeIntact' /\ RamdiskAsBuilt' /\ KernelThere'
<1>. DEFINE W == Region(cfg.entry, cfg.kernelSize)
<1>1. /\ pc \in {"load", "payload"} /\ cfg' = cfg /\ dt' = dt /\ ~Decompressed
      /\ MemCpy(cfg.entry, cfg.kernelAt, cfg.kernelSize) /\ outSize' = cfg.kernelSize
  BY DEF CopyKernel, LoadRaw, PayloadReturns, Go, bootVars, Decompressed
<1>2. DtIntact /\ CodeIntact /\ KernelAsBuilt /\ RamdiskAsBuilt
  BY <1>1, FromUntouched DEF Inv, Memory
<1>3. LoadWindow = W
  BY <1>1 DEF LoadWindow
<1>4. \A a \in Addr \ W : mem'[a] = mem[a]
  BY WritesKernel
<1>5. W \cap (cfg.code \cup DtInUse \cup Ramdisk) = {}
      /\ (OnArm => W \cap Kernel = {} \/ cfg.entry <= cfg.kernelAt)
  BY <1>3 DEF Fits, KernelFits
<1>6. DtIntact' /\ CodeIntact'
  BY <1>1, <1>2, <1>4, <1>5, TreeAndCodeKept DEF Inv
<1>7. RamdiskAsBuilt'
  BY <1>1, <1>2, <1>4, <1>5, RamdiskSourceKept DEF Inv
<1>8. \A i \in 0 .. cfg.kernelSize - 1 : mem'[cfg.entry + i] = mem[cfg.kernelAt + i]
  <2>1. /\ cfg.entry \in Nat /\ cfg.kernelAt \in Nat /\ cfg.kernelSize \in Nat
        /\ W \subseteq Addr
    BY <1>3, Layout, Regions DEF Inv
  <2>2. OnArm => \/ W \cap Region(cfg.kernelAt, cfg.kernelSize) = {}
                 \/ cfg.entry <= cfg.kernelAt
    BY <1>5 DEF Kernel
  <2>. QED  BY <2>1, <2>2, <1>1, CopiedWhole
<1>9. KernelThere'
  BY <1>1, <1>2, <1>8 DEF KernelThere, KernelIntact, KernelAsBuilt, Decompressed, Format
<1>. QED  BY <1>6, <1>7, <1>9

(* A ramdisk that is not copied is where it was built in; one that is, is *)
(* half copied before the first byte.                                     *)
LEMMA RamdiskReady ==
  ASSUME TypeOK, cfg' = cfg, RamdiskAsBuilt', n' = 0
  PROVE  RamdiskHalf' /\ (cfg.noCopy => RamdiskIntact')
<1>1. RamdiskHalf'
  BY SMT DEF RamdiskAsBuilt, RamdiskHalf
<1>2. cfg.noCopy => RamdiskIntact'
  BY Layout DEF RamdiskAsBuilt, RamdiskIntact
<1>. QED  BY <1>1, <1>2

LEMMA MemoryKernel ==
  ASSUME Inv, CopyKernel \/ LoadRaw, TypeOK'
  PROVE  Memory'
<1>1. cfg' = cfg /\ dt' = dt /\ n' = 0 /\ n = 0
      /\ \/ pc' = "restore"
         \/ pc' = "sync" /\ cfg.noCopy
         \/ pc' = "ramdisk"
  BY DEF CopyKernel, LoadRaw, PayloadReturns, Go, bootVars, AfterKernel, Inv, Control
<1>2. SUFFICES ASSUME Fits
      PROVE  /\ DtIntact' /\ CodeIntact' /\ KernelThere' /\ RamdiskAsBuilt'
             /\ RamdiskHalf' /\ (cfg.noCopy => RamdiskIntact')
  BY <1>1, FitsKept DEF Memory, Before, AfterLoad
<1>3. DtIntact' /\ CodeIntact' /\ KernelThere' /\ RamdiskAsBuilt'
  BY <1>2, KernelMoved
<1>. QED  BY <1>1, <1>3, RamdiskReady DEF Inv

LEMMA MemoryDecode ==
  ASSUME Inv, DecodeByte
  PROVE  Memory'
<1>1. pc = "decode" /\ pc' = "decode" /\ cfg' = cfg /\ dt' = dt /\ Decompressed
  BY DEF DecodeByte, Go, bootVars, Inv, Control, Decompressed
<1>2. SUFFICES ASSUME Fits
      PROVE  DtIntact' /\ CodeIntact' /\ KernelAsBuilt' /\ RamdiskAsBuilt'
  BY <1>1, FitsKept DEF Memory, Before, AfterLoad
<1>3. DtIntact /\ CodeIntact /\ KernelAsBuilt /\ RamdiskAsBuilt
  BY <1>1, <1>2 DEF Inv, Memory
<1>4. {cfg.entry + n} \cap (cfg.code \cup DtInUse \cup Ramdisk \cup Kernel) = {}
  BY <1>1, <1>2, ImageCell DEF Inv, Fits, KernelFits
<1>5. \A a \in Addr \ {cfg.entry + n} : mem'[a] = mem[a]
  BY WritesImage
<1>6. DtIntact' /\ CodeIntact'
  BY <1>1, <1>3, <1>4, <1>5, TreeAndCodeKept DEF Inv
<1>7. KernelAsBuilt'
  BY <1>1, <1>3, <1>4, <1>5, KernelSourceKept DEF Inv
<1>8. RamdiskAsBuilt'
  BY <1>1, <1>3, <1>4, <1>5, RamdiskSourceKept DEF Inv
<1>. QED  BY <1>6, <1>7, <1>8

(* A decoder that still reads a sound source, or whose format carries a     *)
(* check, succeeds with the image only.                                     *)
LEMMA MemoryDecoded ==
  ASSUME Inv, DecodeSucceeds \/ DecodeFails
  PROVE  Memory'
<1>1. pc = "decode" /\ pc' = "restore" /\ cfg' = cfg /\ dt' = dt /\ mem' = mem
      /\ Decompressed
  BY DEF DecodeSucceeds, DecodeFails, PayloadReturns, Go, bootVars, memVars, Inv,
         Control, Decompressed
<1>2. SUFFICES ASSUME Fits
      PROVE  /\ DtIntact' /\ CodeIntact' /\ RamdiskAsBuilt'
             /\ loadRet' = "OK" => KernelThere'
  BY <1>1, FitsKept DEF Memory, Before, AfterLoad
<1>3. DtIntact /\ CodeIntact /\ KernelAsBuilt /\ RamdiskAsBuilt
  BY <1>1, <1>2 DEF Inv, Memory
<1>4. DtIntact' /\ CodeIntact' /\ RamdiskAsBuilt'
  BY <1>1, <1>3, MemorySame
<1>5. ASSUME loadRet' = "OK", Trusted PROVE KernelIntact'
  <2>1. DecodeSucceeds
    BY <1>5 DEF DecodeFails, PayloadReturns
  <2>2. SourceSound \/ cfg.checked
    BY <1>1, <1>3, <1>5 DEF Trusted, SourceSound, KernelAsBuilt
  <2>3. ImageComplete /\ outSize' = n
    BY <2>1, <2>2 DEF DecodeSucceeds, PayloadReturns
  <2>. QED  BY <1>1, <2>3 DEF ImageComplete, KernelIntact, Decompressed, Format
<1>6. loadRet' = "OK" => KernelThere'
  <2>1. Trusted' <=> Trusted
    BY <1>1 DEF Trusted, Decompressed, Format
  <2>. QED  BY <1>5, <2>1 DEF KernelThere
<1>. QED  BY <1>4, <1>6

LEMMA MemoryReturn ==
  ASSUME Inv, RestoreAlignmentChecks
  PROVE  Memory'
<1>1. /\ pc = "restore" /\ cfg' = cfg /\ dt' = dt /\ mem' = mem /\ outSize' = outSize
      /\ pc' = "hang" \/ (pc' = "check" /\ loadRet = "OK")
  BY DEF RestoreAlignmentChecks, Go, bootVars, memVars
<1>2. SUFFICES ASSUME Fits, loadRet = "OK"
      PROVE  DtIntact' /\ CodeIntact' /\ RamdiskAsBuilt' /\ KernelThere'
  BY <1>1, FitsKept DEF Memory, Before, AfterLoad
<1>. QED  BY <1>1, <1>2, MemorySame DEF Inv, Memory

LEMMA MemoryCheck ==
  ASSUME Inv, CheckMagic
  PROVE  Memory'
<1>1. /\ pc = "check" /\ cfg' = cfg /\ dt' = dt /\ mem' = mem /\ outSize' = outSize
      /\ n' = 0
      /\ \/ pc' = "hang" \/ pc' = "ramdisk"
         \/ pc' = "sync" /\ cfg.noCopy
  BY DEF CheckMagic, AfterKernel, Go, bootVars, memVars
<1>2. SUFFICES ASSUME Fits
      PROVE  /\ DtIntact' /\ CodeIntact' /\ KernelThere'
             /\ RamdiskHalf' /\ (cfg.noCopy => RamdiskIntact')
  BY <1>1, FitsKept DEF Memory, Before, AfterLoad
<1>3. DtIntact' /\ CodeIntact' /\ RamdiskAsBuilt' /\ KernelThere'
  BY <1>1, <1>2, MemorySame DEF Inv, Memory
<1>. QED  BY <1>1, <1>3, RamdiskReady DEF Inv

(* The ramdisk's destination leaves alone what has to be left alone. *)
LEMMA RamdiskApart ==
  ASSUME TypeOK, Fits, ~cfg.noCopy
  PROVE  /\ RamdiskDest \cap (cfg.code \cup DtInUse \cup LoadWindow) = {}
         /\ RamdiskDest \cap Ramdisk = {} \/ cfg.rdEntry <= cfg.ramdiskAt
BY DEF Fits, RamdiskFits

LEMMA HalfKept ==
  ASSUME Inv, CopyRamdiskByte, Fits
  PROVE  RamdiskHalf'
<1>1. /\ pc = "ramdisk" /\ n < cfg.ramdiskSize /\ n' = n + 1 /\ cfg' = cfg
      /\ RamdiskHalf /\ ~cfg.noCopy
  BY DEF CopyRamdiskByte, Go, Inv, Memory, Control
<1>2. /\ cfg.rdEntry \in Nat /\ cfg.ramdiskAt \in Nat /\ cfg.ramdiskSize \in Nat
      /\ n \in Nat
  BY Layout DEF Inv, TypeOK
<1>3. \A a \in Addr \ {cfg.rdEntry + n} : mem'[a] = mem[a]
  BY WritesRamdisk
<1>4. mem'[cfg.rdEntry + n] = <<"ramdisk", n>>
  <2>1. cfg.rdEntry + n \in Addr
    BY RamdiskCell, Regions DEF Inv
  <2>2. mem[cfg.ramdiskAt + n] = <<"ramdisk", n>>
    <3>1. n \in n .. cfg.ramdiskSize - 1
      BY <1>1, <1>2, SMT
    <3>2. \A i \in n .. cfg.ramdiskSize - 1 : mem[cfg.ramdiskAt + i] = <<"ramdisk", i>>
      BY <1>1 DEF RamdiskHalf
    <3>. QED  BY ONLY <3>1, <3>2
  <2>. QED  BY <2>1, <2>2, WritesRamdisk
<1>5. ASSUME NEW i \in 0 .. n PROVE mem'[cfg.rdEntry + i] = <<"ramdisk", i>>
  <2>1. CASE i = n
    BY <1>4, <2>1
  <2>2. CASE i # n
    <3>1. i \in 0 .. n - 1 /\ i \in 0 .. cfg.ramdiskSize - 1
          /\ cfg.rdEntry + i # cfg.rdEntry + n
      BY <1>1, <1>2, <2>2, SMT
    <3>2. cfg.rdEntry + i \in Addr
      BY <3>1, Places, Regions DEF Inv
    <3>. QED  BY <1>1, <1>3, <3>1, <3>2 DEF RamdiskHalf
  <2>. QED  BY <2>1, <2>2
<1>6. ASSUME NEW i \in n + 1 .. cfg.ramdiskSize - 1
      PROVE  mem'[cfg.ramdiskAt + i] = <<"ramdisk", i>>
  <2>1. i \in n .. cfg.ramdiskSize - 1 /\ i \in 0 .. cfg.ramdiskSize - 1 /\ i > n
    BY <1>2, SMT
  <2>2. cfg.ramdiskAt + i \in Ramdisk /\ cfg.ramdiskAt + i \in Addr
    BY <2>1, Places, Regions DEF Inv
  <2>3. cfg.ramdiskAt + i # cfg.rdEntry + n
    <3>1. CASE RamdiskDest \cap Ramdisk = {}
      BY <2>2, <3>1, RamdiskCell DEF Inv
    <3>2. CASE cfg.rdEntry <= cfg.ramdiskAt
      BY <1>2, <2>1, <3>2, SMT
    <3>. QED  BY <1>1, <3>1, <3>2, RamdiskApart DEF Inv
  <2>. QED  BY <1>1, <1>3, <2>1, <2>2, <2>3 DEF RamdiskHalf
<1>7. n' - 1 = n
  BY <1>1, <1>2
<1>. QED  BY <1>1, <1>5, <1>6, <1>7 DEF RamdiskHalf

LEMMA MemoryRamdisk ==
  ASSUME Inv, CopyRamdiskByte \/ CopyRamdisk
  PROVE  Memory'
<1>1. /\ pc = "ramdisk" /\ ~cfg.noCopy
      /\ cfg' = cfg /\ dt' = dt /\ outSize' = outSize
      /\ CopyRamdiskByte => pc' = "ramdisk"
      /\ CopyRamdisk => pc' = "sync"
  BY DEF CopyRamdiskByte, CopyRamdisk, Go, bootVars, loadVars, Inv, Control
<1>2. SUFFICES ASSUME Fits
      PROVE  /\ DtIntact' /\ CodeIntact' /\ KernelThere'
             /\ CopyRamdiskByte => RamdiskHalf'
             /\ CopyRamdisk => RamdiskIntact'
  BY <1>1, FitsKept DEF Memory, Before, AfterLoad
<1>3. DtIntact /\ CodeIntact /\ KernelThere /\ RamdiskHalf
  BY <1>1, <1>2 DEF Inv, Memory, AfterLoad
<1>4. /\ RamdiskDest \cap (cfg.code \cup DtInUse \cup LoadWindow) = {}
      /\ RamdiskDest \cap Ramdisk = {} \/ cfg.rdEntry <= cfg.ramdiskAt
  BY <1>1, <1>2, RamdiskApart DEF Inv
<1>5. \A a \in Addr \ RamdiskDest : mem'[a] = mem[a]
  BY RamdiskCell, WritesRamdisk DEF Inv
<1>6. DtIntact' /\ CodeIntact'
  BY <1>1, <1>3, <1>4, <1>5, TreeAndCodeKept DEF Inv
<1>7. KernelThere'
  BY <1>1, <1>3, <1>4, <1>5, KernelKept DEF Inv
<1>8. CopyRamdiskByte => RamdiskHalf'
  BY <1>2, HalfKept
<1>9. ASSUME CopyRamdisk PROVE RamdiskIntact'
  <2>1. /\ OnArm /\ n = 0 /\ MemCpy(cfg.rdEntry, cfg.ramdiskAt, cfg.ramdiskSize)
    BY <1>1, <1>9 DEF CopyRamdisk, Inv, Control
  <2>2. \A i \in 0 .. cfg.ramdiskSize - 1 : mem[cfg.ramdiskAt + i] = <<"ramdisk", i>>
    BY <1>3, <2>1 DEF RamdiskHalf
  <2>3. \A i \in 0 .. cfg.ramdiskSize - 1 :
          mem'[cfg.rdEntry + i] = mem[cfg.ramdiskAt + i]
    BY <1>4, <2>1, Layout, Regions, CopiedWhole DEF Inv, RamdiskDest, Ramdisk
  <2>. QED  BY <1>1, <2>2, <2>3 DEF RamdiskIntact
<1>. QED  BY <1>6, <1>7, <1>8, <1>9

LEMMA MemoryHandover ==
  ASSUME Inv, RamdiskCopied \/ SyncCaches \/ Jump \/ KernelReturns \/ Hang
  PROVE  Memory'
<1>1. /\ cfg' = cfg /\ dt' = dt /\ mem' = mem /\ outSize' = outSize
      /\ \/ pc = "ramdisk" /\ n = cfg.ramdiskSize /\ pc' = "sync"
         \/ pc \in {"sync", "jump"} /\ pc' \in {"jump", "kernel"}
         \/ pc' = "hang"
  BY DEF RamdiskCopied, SyncCaches, Jump, KernelReturns, Hang, Go, bootVars, loadVars,
         memVars, vars
<1>2. SUFFICES ASSUME Fits, pc' # "hang"
      PROVE  DtIntact' /\ CodeIntact' /\ KernelThere' /\ RamdiskIntact'
  BY <1>1, FitsKept DEF Memory, Before, AfterLoad
<1>3. pc = "ramdisk" => RamdiskIntact
  BY <1>1, <1>2 DEF Inv, Memory, RamdiskHalf, RamdiskIntact
<1>4. DtIntact /\ CodeIntact /\ KernelThere /\ RamdiskIntact
  BY <1>1, <1>2, <1>3 DEF Inv, Memory, AfterLoad
<1>. QED  BY <1>1, <1>4, MemorySame
-----------------------------------------------------------------------------
LEMMA InitInv == Init => Inv
<1>. SUFFICES ASSUME NEW b \in Builds, InitWith(b)
     PROVE  Inv
  BY DEF Init
<1>1. IsBuild(b) /\ cfg = b
  BY HandoffAssumption DEF InitWith
<1>2. TypeOK
  <2>1. sctlrA \in BOOLEAN /\ savedA \in BOOLEAN
    BY Zenon DEF InitWith
  <2>. QED
    BY <1>1, <2>1 DEF InitWith, TypeOK, Phases, InitialMem
<1>3. Control
  BY <1>1, <1>2, Layout DEF InitWith, Control, Before
<1>4. Outside /\ Untouched
  BY <1>1 DEF InitWith, Outside, Untouched
<1>5. Memory
  BY <1>4 DEF InitWith, Memory, Before, AfterLoad
<1>. QED  BY <1>2, <1>3, <1>4, <1>5 DEF Inv

LEMMA StepInv == Inv /\ [Next]_vars => Inv'
<1>1. ASSUME Inv, Next PROVE Inv'
  <2>1. TypeOK'
    BY <1>1, TypeStep DEF Inv
  <2>2. Control'
    BY <1>1, ControlStep DEF Inv
  <2>3. Outside'
    BY <1>1, OutsideStep DEF Inv
  <2>4. Memory'
    BY <1>1, <2>1, MemoryMain, MemoryTree, MemoryDispatch, MemoryKernel, MemoryDecode,
       MemoryDecoded, MemoryReturn, MemoryCheck, MemoryRamdisk, MemoryHandover
    DEF Next, PatchDtb, LoadKernel, LoadRamdisk, Handover
  <2>. QED  BY <2>1, <2>2, <2>3, <2>4 DEF Inv
<1>2. ASSUME Inv, UNCHANGED vars PROVE Inv'
  <2>1. /\ cfg' = cfg /\ pc' = pc /\ mem' = mem /\ dt' = dt /\ n' = n
        /\ loadRet' = loadRet /\ outSize' = outSize
    BY <1>2 DEF vars
  <2>2. TypeOK'
    BY <1>2 DEF Inv, TypeOK, vars
  <2>3. Control'
    BY <1>2, <2>1 DEF Inv, Control, Decompressed, Format, OnArm, RamdiskEnd, vars
  <2>4. Outside'
    BY <1>2, <2>1, OutsideKept DEF Inv
  <2>5. RamdiskHalf' <=> RamdiskHalf
    BY <2>1 DEF RamdiskHalf
  <2>6. Memory'
    BY <1>2, <2>1, <2>5, MemorySame, FitsKept DEF Inv, Memory
  <2>. QED  BY <2>2, <2>3, <2>4, <2>6 DEF Inv
<1>. QED  BY <1>1, <1>2

(* The inductive invariant. *)
THEOREM Invariance == Spec => []Inv
BY InitInv, StepInv, PTL DEF Spec

(* The variables of the handoff have their types: code in main.c,            *)
(* boot-fdt.c and load-kernel.c of both architectures.                       *)
THEOREM TypeCorrect == Spec => []TypeOK
<1>1. Inv => TypeOK
  BY DEF Inv
<1>. QED  BY <1>1, Invariance, PTL

(* Until the kernel runs, arch_load_kernel and patch_dtb write nothing but   *)
(* the payload's window, the ramdisk's and fdt_buf, whatever the build's     *)
(* addresses and the payload.                                                *)
THEOREM StaysInWindows == Spec => []NoStrayWrite
<1>1. Inv => NoStrayWrite
  BY DEF Inv, Outside, NoStrayWrite
<1>. QED  BY <1>1, Invariance, PTL

(* A build whose addresses fit together hands over whole: the kernel gets    *)
(* its image, the ramdisk and the tree as they were built, and the loader's  *)
(* code has survived its own copies.                                         *)
THEOREM HandsOverIntact == Spec => []HandoffIntact
<1>1. Inv => HandoffIntact
  BY DEF Inv, Memory, AfterLoad, KernelThere, Trusted, HandoffIntact, AllIntact
<1>. QED  BY <1>1, Invariance, PTL

(* The kernel of an AArch64 build gets the tree as it was embedded, or one    *)
(* with both ends of the ramdisk, which is where they say.                    *)
THEOREM TellsInitrd == Spec => []InitrdToldTruly
<1>1. ASSUME Inv PROVE InitrdToldTruly
  <2>1. SUFFICES ASSUME ~OnArm, pc = "kernel", dt = "fdt_buf"
        PROVE  InitrdTold
    BY DEF InitrdToldTruly, InitrdTold
  <2>. DEFINE first == <<"initrd-start", cfg.rdEntry>>
              end == <<"initrd-end", cfg.rdEntry + cfg.ramdiskSize>>
  <2>2. props = {first, end}
    BY <1>1, <2>1 DEF Inv, Control, RamdiskEnd
  <2>3. /\ cfg.rdEntry \in Nat /\ cfg.ramdiskSize \in Nat
        /\ (cfg.rdEntry + cfg.ramdiskSize) - cfg.rdEntry = cfg.ramdiskSize
    BY <1>1, Layout, SMT DEF Inv
  <2>4. ASSUME Fits, NEW a \in cfg.rdEntry .. (cfg.rdEntry + cfg.ramdiskSize) - 1
        PROVE  mem[a] = <<"ramdisk", a - cfg.rdEntry>>
    <3>1. a - cfg.rdEntry \in 0 .. cfg.ramdiskSize - 1
          /\ cfg.rdEntry + (a - cfg.rdEntry) = a
      BY <2>3, SMT
    <3>2. RamdiskIntact
      BY <1>1, <2>1, <2>4 DEF Inv, Memory
    <3>. QED  BY <3>1, <3>2 DEF RamdiskIntact
  <2>5. first[1] = "initrd-start" /\ end[1] = "initrd-end"
        /\ first[2] = cfg.rdEntry /\ end[2] = cfg.rdEntry + cfg.ramdiskSize
    OBVIOUS
  <2>. QED  BY <2>2, <2>3, <2>4, <2>5 DEF InitrdTold
<1>. QED  BY <1>1, Invariance, PTL
-----------------------------------------------------------------------------
(* Whole lines. *)
LEMMA Lines ==
  ASSUME NEW L \in Nat \ {0}, NEW e \in Nat, NEW a \in Nat, e <= a
  PROVE  e \div L <= a \div L /\ (a \div L) * L <= a
<1>1. (a \div L) * L <= a
  BY SMT
<1>2. e \div L <= a \div L
  BY SMT
<1>. QED  BY <1>1, <1>2

(* What sync_exec_range has reached at the jump. *)
Clean == pc \in {"jump", "kernel"} /\ Decompressed /\ ~OnArm
           => Region(cfg.entry, outSize) \subseteq synced

LEMMA CleanStep == ASSUME Inv, Clean, [Next]_vars PROVE Clean'
<1>1. CASE SyncCaches
  <2>1. SUFFICES ASSUME Decompressed, ~OnArm, NEW a \in Region(cfg.entry, outSize)
        PROVE  a \in SyncedBy(cfg.entry, outSize)
    BY <1>1 DEF SyncCaches, Clean, Decompressed, Format, OnArm, Go, loadVars
  <2>2. /\ cfg.entry \in Nat /\ outSize \in Nat /\ a \in Nat
        /\ cfg.entry <= a /\ a < cfg.entry + outSize /\ outSize > 0
    BY Layout, SMT DEF Inv, TypeOK, Region
  <2>3. a \in LoadWindow
    BY <2>1, <2>2, Layout, SMT DEF Inv, Control, LoadWindow, Region
  <2>4. a \in Addr /\ Line \in Nat \ {0}
    BY <2>3, Layout, Regions DEF Inv
  <2>5. a \div Line \in Int /\ cfg.entry \div Line \in Int /\ (a \div Line) * Line \in Int
    BY <2>2, <2>4, SMT
  <2>6. cfg.entry \div Line <= a \div Line /\ (a \div Line) * Line <= a
    BY <2>2, <2>4, Lines
  <2>7. (a \div Line) * Line < cfg.entry + outSize
    BY <2>2, <2>5, <2>6
  <2>. QED  BY <2>2, <2>4, <2>5, <2>6, <2>7 DEF SyncedBy
<1>2. CASE Jump
  BY <1>2 DEF Jump, Clean, Decompressed, Format, OnArm, Go, memVars, loadVars
<1>3. CASE UNCHANGED vars
  BY <1>3 DEF vars, Clean, Decompressed, Format, OnArm
<1>4. CASE Next /\ ~SyncCaches /\ ~Jump
  <2>1. pc' \notin {"jump", "kernel"}
    BY <1>4 DEF Next, Main, EarlyInit, ProbeAll, LateInit, Initcall, PatchDtb, PatchFails,
       OpenFdt, FindChosen, SetInitrdStart, SetInitrdEnd, SetInitrd, LoadKernel,
       CopyKernel, DisableAlignmentChecks, LoadRaw, RefusePayload, StartDecoder,
       DecodeByte, DecodeSucceeds, DecodeFails, RestoreAlignmentChecks, CheckMagic,
       LoadRamdisk, CopyRamdiskByte, RamdiskCopied, CopyRamdisk, Handover,
       KernelReturns, Hang, Go, PayloadReturns, AfterKernel, vars
  <2>. QED  BY <2>1 DEF Clean
<1>. QED  BY <1>1, <1>2, <1>3, <1>4

(* No byte of a decompressed image is only in the data cache, or shadowed by *)
(* a stale instruction, when load-kernel.c jumps to it.                      *)
THEOREM ExecutesWhatWasWritten == Spec => []ImageSynced
<1>1. Init => Clean
  BY DEF Init, InitWith, Clean
<1>2. Clean => ImageSynced
  BY DEF Clean, ImageSynced
<1>. QED  BY <1>1, <1>2, CleanStep, Invariance, PTL DEF Spec
-----------------------------------------------------------------------------
(* The alignment check, for either value it may have had at entry. *)
Checked(v) ==
  /\ savedA = v
  /\ IF pc \in {"payload", "decode"} THEN sctlrA = (OnArm /\ v)
     ELSE pc # "restore" => sctlrA = v

LEMMA CheckedStep ==
  ASSUME TypeOK, NEW v \in BOOLEAN, Checked(v), [Next]_vars
  PROVE  Checked(v)'
<1>. OnArm' = OnArm
  BY SameBuild DEF OnArm, vars
<1>1. CASE DisableAlignmentChecks
  <2>1. pc = "load" /\ pc' = "payload"
    BY <1>1 DEF DisableAlignmentChecks, Go
  <2>2. savedA = v /\ sctlrA = v
    BY <2>1 DEF Checked
  <2>. QED  BY <1>1, <2>1, <2>2, Zenon DEF Checked, DisableAlignmentChecks
<1>2. CASE RestoreAlignmentChecks
  <2>1. pc' \in {"check", "hang"}
    BY <1>2 DEF RestoreAlignmentChecks, Go
  <2>2. savedA = v
    BY DEF Checked
  <2>3. savedA' = v /\ sctlrA' = v
    BY <1>2, <2>2 DEF RestoreAlignmentChecks, RestoredA
  <2>. QED  BY <2>1, <2>3 DEF Checked
<1>3. CASE UNCHANGED vars
  BY <1>3 DEF vars, Checked
<1>4. CASE Next /\ ~DisableAlignmentChecks /\ ~RestoreAlignmentChecks
  <2>1. sctlrA' = sctlrA /\ savedA' = savedA
    BY <1>4 DEF Next, Main, EarlyInit, ProbeAll, LateInit, Initcall, PatchDtb, PatchFails,
       OpenFdt, FindChosen, SetInitrdStart, SetInitrdEnd, SetInitrd, LoadKernel,
       CopyKernel, LoadRaw, RefusePayload, StartDecoder,
       DecodeByte, DecodeSucceeds, DecodeFails, CheckMagic,
       LoadRamdisk, CopyRamdiskByte, RamdiskCopied, CopyRamdisk, Handover,
       SyncCaches, Jump, KernelReturns, Hang, loadVars, vars
  <2>2. /\ pc' \in {"payload", "decode"} => pc \in {"payload", "decode"}
        /\ pc \in {"payload", "decode"} => pc' \in {"payload", "decode", "restore"}
        /\ pc # "restore"
    BY <1>4 DEF Next, Main, EarlyInit, ProbeAll, LateInit, Initcall, PatchDtb, PatchFails,
       OpenFdt, FindChosen, SetInitrdStart, SetInitrdEnd, SetInitrd, LoadKernel,
       CopyKernel, LoadRaw, RefusePayload, StartDecoder,
       DecodeByte, DecodeSucceeds, DecodeFails, CheckMagic,
       LoadRamdisk, CopyRamdiskByte, RamdiskCopied, CopyRamdisk, Handover,
       SyncCaches, Jump, KernelReturns, Hang, Go, PayloadReturns, AfterKernel, vars
  <2>. QED  BY <2>1, <2>2 DEF Checked
<1>. QED  BY <1>1, <1>2, <1>3, <1>4

(* SCTLR_EL1.A is clear exactly while a payload is loaded on AArch64, and     *)
(* restore_alignment_checks has put back what was there by any way out.       *)
THEOREM PutsCheckBack == Spec => AlignmentCheckKept
<1>. SUFFICES ASSUME NEW v \in BOOLEAN
     PROVE  Spec => (sctlrA = v => [](IF pc \in {"payload", "decode"}
                                      THEN sctlrA = (OnArm /\ v)
                                      ELSE pc # "restore" => sctlrA = v))
  BY DEF AlignmentCheckKept
<1>1. Init /\ sctlrA = v => Checked(v)
  BY DEF Init, InitWith, Checked
<1>2. Checked(v) => IF pc \in {"payload", "decode"} THEN sctlrA = (OnArm /\ v)
                    ELSE pc # "restore" => sctlrA = v
  BY DEF Checked
<1>3. TypeOK /\ Checked(v) /\ [Next]_vars => Checked(v)'
  BY CheckedStep
<1>. QED  BY <1>1, <1>2, <1>3, TypeCorrect, PTL DEF Spec
=============================================================================
