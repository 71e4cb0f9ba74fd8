------------------------------- MODULE Handoff ------------------------------
(***************************************************************************)
(* From main() to the first instruction of the kernel, on AArch64 and on   *)
(* ARM: the board's initcalls, the patched copy of the device tree, the    *)
(* kernel put at CONFIG_PAYLOAD_ENTRY, the ramdisk at                      *)
(* CONFIG_RAMDISK_ENTRY, and the jump.                                     *)
(*                                                                         *)
(* Memory is a line of cells.  The loader's own image (code, data, stack,  *)
(* the static fdt_buf, and the embedded kernel, dtb and ramdisk) lies in   *)
(* the RAM it writes to: nothing in the code compares the ranges, so what  *)
(* reaches the kernel depends on the build's addresses.  A build is the    *)
(* record cfg, drawn from the constant Builds.                             *)
(***************************************************************************)
EXTENDS Integers, Sequences

CONSTANTS
  Top,       (* the last address of RAM                                     *)
  Line,      (* the cache line size                                         *)
  MagicAt,   (* ARM64_IMAGE_MAGIC_OFFSET                                    *)
  Builds     (* the builds, see IsBuild                                     *)

Addr == 0 .. Top

Region(at, size) == at .. at + size - 1

(* The bytes a compressed payload begins with; anything else is taken for a *)
(* raw kernel, a compressed one whose magic is damaged included.            *)
Magic == [GZIP |-> <<31, 139>>, LZ4 |-> <<2, 33, 76, 24>>,
          XZ |-> <<253, 55, 122, 88, 90, 0>>]

HasMagic(head, magic) ==
  Len(head) >= Len(magic) /\ SubSeq(head, 1, Len(magic)) = magic

Detect(head) ==
  IF \E f \in DOMAIN Magic : HasMagic(head, Magic[f])
  THEN CHOOSE f \in DOMAIN Magic : HasMagic(head, Magic[f])
  ELSE "RAW"

Archs == {"aarch64", "arm"}

(* b names a build the linker can produce: its regions lie in RAM and those *)
(* of the loader do not overlap each other.  With noCopy, ramdiskAt is      *)
(* rdEntry, where an earlier bootloader has left the ramdisk.               *)
IsBuild(b) ==
  /\ b.arch \in Archs
  /\ b.decompress \in BOOLEAN   (* CONFIG_KERNEL_DECOMPRESS *)
  /\ b.noCopy \in BOOLEAN       (* CONFIG_RAMDISK_NO_COPY *)
  /\ b.libfdt \in BOOLEAN       (* CONFIG_LIBFDT *)
  /\ b.head \in Seq(0 .. 255)   (* how the payload begins *)
  /\ b.supported \in BOOLEAN    (* the decoder for it is compiled in *)
  /\ b.sound \in BOOLEAN        (* the payload is not corrupt *)
  /\ b.checked \in BOOLEAN      (* the payload carries a check of its text *)
  /\ b.isImage \in BOOLEAN      (* what it decompresses to is an arm64 Image *)
  /\ b.imageSize \in Nat \ {0}
  /\ {b.entry, b.rdEntry, b.maxSize, b.kernelAt, b.kernelSize, b.dtbAt,
      b.dtbSize, b.ramdiskAt, b.ramdiskSize, b.fdtBufAt, b.fdtBufSize}
       \subseteq Nat
  /\ b.noCopy => b.ramdiskAt = b.rdEntry
  /\ b.code \subseteq Addr      (* text, data and stack of the loader *)
  /\ b.sizeAt \in Nat           (* ARM: where the word ramdisk_size lies *)
  /\ \A r \in {Region(b.kernelAt, b.kernelSize), Region(b.dtbAt, b.dtbSize),
               Region(b.ramdiskAt, b.ramdiskSize),
               Region(b.fdtBufAt, b.fdtBufSize),
               Region(b.entry, b.kernelSize), Region(b.entry, b.maxSize),
               Region(b.rdEntry, b.ramdiskSize)} : r \subseteq Addr
  /\ Region(b.kernelAt, b.kernelSize) \cap
       (b.code \cup Region(b.dtbAt, b.dtbSize)
          \cup Region(b.ramdiskAt, b.ramdiskSize)
          \cup Region(b.fdtBufAt, b.fdtBufSize)) = {}
  /\ Region(b.dtbAt, b.dtbSize) \cap
       (b.code \cup Region(b.ramdiskAt, b.ramdiskSize)
          \cup Region(b.fdtBufAt, b.fdtBufSize)) = {}
  /\ Region(b.ramdiskAt, b.ramdiskSize) \cap
       (b.code \cup Region(b.fdtBufAt, b.fdtBufSize)) = {}
  /\ Region(b.fdtBufAt, b.fdtBufSize) \cap b.code = {}

ASSUME HandoffAssumption ==
  /\ Top \in Nat
  /\ Line \in Nat \ {0}
  /\ MagicAt \in Nat
  /\ \A b \in Builds : IsBuild(b)

VARIABLES
  cfg,       (* the build                                                   *)
  pc,        (* the phase that runs next                                    *)
  initRet,   (* what the last initcall returned                             *)
  mem,       (* what every cell holds                                       *)
  synced,    (* cells whose last write has reached the point of unification *)
             (* and whose stale instructions have been dropped              *)
  dt,        (* the pointer patch_dtb may redirect: "dtb" or "fdt_buf"      *)
  props,     (* the properties set under /chosen of fdt_buf                 *)
  sctlrA,    (* SCTLR_EL1.A: unaligned accesses fault                       *)
  savedA,    (* saved_sctlr                                                 *)
  n,         (* bytes the running copy or decoder has written               *)
  loadRet,   (* ret of kernel_payload_load, "NONE" before it returns        *)
  outSize    (* output_size                                                 *)

vars == <<cfg, pc, initRet, mem, synced, dt, props, sctlrA, savedA, n,
          loadRet, outSize>>

bootVars == <<initRet, dt, props>>
loadVars == <<sctlrA, savedA, n, loadRet, outSize>>
memVars  == <<mem, synced>>

Errors == {"INVALID", "NOSPACE", "UNSUPPORTED", "NOMEM"}

Phases == {"early_init", "probe", "late_init", "open_fdt", "chosen",
           "initrd-start", "initrd-end", "load", "payload", "decode",
           "restore", "check", "ramdisk", "sync", "jump", "kernel", "hang"}

Kernel  == Region(cfg.kernelAt, cfg.kernelSize)
Dtb     == Region(cfg.dtbAt, cfg.dtbSize)
Ramdisk == Region(cfg.ramdiskAt, cfg.ramdiskSize)
FdtBuf  == Region(cfg.fdtBufAt, cfg.fdtBufSize)

OnArm == cfg.arch = "arm"

Format == Detect(cfg.head)

(* Memory as the loader finds it once its BSS is cleared. *)
InitialMem(b) ==
  [a \in Addr |->
     IF a \in Region(b.kernelAt, b.kernelSize) THEN <<"payload", a - b.kernelAt>>
     ELSE IF a \in Region(b.dtbAt, b.dtbSize) THEN <<"dtb", a - b.dtbAt>>
     ELSE IF a \in Region(b.ramdiskAt, b.ramdiskSize)
          THEN <<"ramdisk", a - b.ramdiskAt>>
     ELSE <<"own", a>>]

(* The cells of W take the contents f gives them, and are in no cache but *)
(* the data cache.                                                        *)
Write(W, f(_)) ==
  /\ mem' = [a \in Addr |-> IF a \in W THEN f(a) ELSE mem[a]]
  /\ synced' = synced \ W

Go(phase) == pc' = phase /\ UNCHANGED cfg

InitWith(b) ==
  /\ cfg = b
  /\ pc = "early_init"
  /\ initRet = 0
  /\ mem = InitialMem(b)
  /\ synced = {}
  /\ dt = "dtb"
  /\ props = {}
  /\ sctlrA \in BOOLEAN
  /\ savedA = sctlrA
  /\ n = 0
  /\ loadRet = "NONE"
  /\ outSize = 0

Init == \E b \in Builds : InitWith(b)
-----------------------------------------------------------------------------
(* main *)

(* INITCALL: an initcall that is absent behaves as one that returns 0; any *)
(* other value hangs the loader.                                           *)
Initcall(phase, next) ==
  /\ pc = phase
  /\ initRet' \in {-1, 0, 1}
  /\ Go(IF initRet' = 0 THEN next ELSE "hang")
  /\ UNCHANGED <<memVars, loadVars, dt, props>>

EarlyInit == Initcall("early_init", "probe")

(* driver_probe_all ignores what the probes return. *)
ProbeAll ==
  /\ pc = "probe"
  /\ Go("late_init")
  /\ UNCHANGED <<memVars, loadVars, bootVars>>

LateInit == Initcall("late_init", IF cfg.libfdt THEN "open_fdt" ELSE "load")
-----------------------------------------------------------------------------
(* patch_dtb and ramdisk_handler_patch_dtb: whichever step fails, the boot *)
(* goes on with the dtb as it was embedded.                                *)

(* The definitions named _Wrong, here and below, are mistakes the runs are *)
(* known to notice; nothing uses them.                                     *)
DtUnpatchedBuf_Wrong == "fdt_buf"
DtUnpatched == dt

PatchFails ==
  /\ pc \in {"open_fdt", "chosen", "initrd-start", "initrd-end"}
  /\ dt' = DtUnpatched
  /\ Go("load")
  /\ UNCHANGED <<memVars, loadVars, initRet, props>>

(* fdt_open_into refuses a tree larger than the buffer before it writes. *)
OpenFdt ==
  /\ pc = "open_fdt"
  /\ cfg.dtbSize <= cfg.fdtBufSize
  /\ Write(FdtBuf, LAMBDA a : <<"fdt", a - cfg.fdtBufAt>>)
  /\ Go("chosen")
  /\ UNCHANGED <<loadVars, bootVars>>

FindChosen ==
  /\ pc = "chosen"
  /\ Go("initrd-start")
  /\ UNCHANGED <<memVars, loadVars, bootVars>>

SetInitrd(name, value, next) ==
  /\ pc = name
  /\ props' = props \cup {<<name, value>>}
  /\ Write(FdtBuf, LAMBDA a : <<"fdt", a - cfg.fdtBufAt>>)
  /\ Go(next)

(* ramdisk_end.  On AArch64 the linker makes the address of ramdisk_size   *)
(* the size; on ARM, ramdisk_size is a word that holds it, and its address *)
(* is taken all the same.                                                  *)
RamdiskEnd == cfg.rdEntry + (IF OnArm THEN cfg.sizeAt ELSE cfg.ramdiskSize)

SetInitrdStart ==
  /\ SetInitrd("initrd-start", cfg.rdEntry, "initrd-end")
  /\ UNCHANGED <<loadVars, initRet, dt>>

SetInitrdEnd ==
  /\ SetInitrd("initrd-end", RamdiskEnd, "load")
  /\ dt' = "fdt_buf"
  /\ UNCHANGED <<loadVars, initRet>>
-----------------------------------------------------------------------------
(* arch_load_kernel, kernel_payload_load *)

MemCpyUpwards_Wrong(dst, from, size) ==
  Write(Region(dst, size),
        LAMBDA a : mem[from + (IF from < dst THEN (a - dst) % (dst - from)
                                             ELSE a - dst)])

(* The cells that take what a copy upwards has itself already overwritten. *)
Overtaken(dst, from, size) ==
  {a \in Region(dst, size) : from < dst /\ a - dst >= dst - from}

(* The AArch64 memcpy copes with overlaps: the source is read as it was.    *)
(* The ARM one goes upwards in blocks, reading some of them ahead: of what  *)
(* it overtakes, any part may have been read in time.                       *)
MemCpy(dst, from, size) ==
  \E spoilt \in SUBSET (IF OnArm THEN Overtaken(dst, from, size) ELSE {}) :
    Write(Region(dst, size),
          LAMBDA a : IF a \in spoilt THEN <<"junk", 0>> ELSE mem[from + (a - dst)])

AfterKernel == IF cfg.noCopy THEN "sync" ELSE "ramdisk"

(* Without CONFIG_KERNEL_DECOMPRESS the payload is copied as it is. *)
CopyKernel ==
  /\ pc = "load"
  /\ ~cfg.decompress
  /\ MemCpy(cfg.entry, cfg.kernelAt, cfg.kernelSize)
  /\ outSize' = cfg.kernelSize
  /\ Go(AfterKernel)
  /\ UNCHANGED <<bootVars, sctlrA, savedA, n, loadRet>>

(* disable_alignment_checks; ARM leaves them as they are. *)
DisableAlignmentChecks ==
  /\ pc = "load"
  /\ cfg.decompress
  /\ savedA' = sctlrA
  /\ sctlrA' = (OnArm /\ sctlrA)
  /\ Go("payload")
  /\ UNCHANGED <<memVars, bootVars, n, loadRet, outSize>>

PayloadReturns(ret, size) ==
  /\ loadRet' = ret
  /\ outSize' = size
  /\ Go("restore")

(* A raw payload is not held to maxSize. *)
LoadRaw ==
  /\ pc = "payload"
  /\ cfg.entry # 0
  /\ Format = "RAW"
  /\ MemCpy(cfg.entry, cfg.kernelAt, cfg.kernelSize)
  /\ PayloadReturns("OK", cfg.kernelSize)
  /\ UNCHANGED <<bootVars, sctlrA, savedA, n>>

(* dst is NULL, or the decoder is not compiled in. *)
RefusePayload ==
  /\ pc = "payload"
  /\ \/ cfg.entry = 0 /\ PayloadReturns("INVALID", 0)
     \/ /\ cfg.entry # 0
        /\ Format # "RAW"
        /\ ~cfg.supported
        /\ PayloadReturns("UNSUPPORTED", 0)
  /\ UNCHANGED <<memVars, bootVars, sctlrA, savedA, n>>

StartDecoder ==
  /\ pc = "payload"
  /\ cfg.entry # 0
  /\ Format # "RAW"
  /\ cfg.supported
  /\ Go("decode")
  /\ UNCHANGED <<memVars, bootVars, loadVars>>

(* The decoder still reads what was embedded, and that is a sound payload. *)
SourceSound ==
  cfg.sound /\ \A i \in 0 .. cfg.kernelSize - 1 :
                 mem[cfg.kernelAt + i] = <<"payload", i>>

RoomLeftOneMore_Wrong == n <= cfg.maxSize
RoomLeft == n < cfg.maxSize

(* The decoder writes its next byte, below maxSize: the right one as long *)
(* as its source is sound, and who knows what from then on.               *)
DecodeByte ==
  /\ pc = "decode"
  /\ RoomLeft
  /\ SourceSound => n < cfg.imageSize
  /\ Write({cfg.entry + n},
           LAMBDA a : IF SourceSound THEN <<"image", n>> ELSE <<"junk", 0>>)
  /\ n' = n + 1
  /\ Go("decode")
  /\ UNCHANGED <<bootVars, sctlrA, savedA, loadRet, outSize>>

(* What is at dst is the image: all of it, and nothing else. *)
ImageComplete ==
  n = cfg.imageSize /\ \A i \in 0 .. n - 1 : mem[cfg.entry + i] = <<"image", i>>

(* A decoder accepts the complete image.  It can be made to accept anything *)
(* else only by an unsound source without a check over the text.            *)
DecodeSucceeds ==
  /\ pc = "decode"
  /\ Format = "LZ4" => n > 0
  /\ ImageComplete \/ (~cfg.checked /\ ~SourceSound)
  /\ PayloadReturns("OK", n)
  /\ UNCHANGED <<memVars, bootVars, sctlrA, savedA, n>>

(* Too big an image is refused, as NOSPACE by some decoders and as INVALID *)
(* by tinf.                                                                *)
DecodeFails ==
  /\ pc = "decode"
  /\ \/ /\ SourceSound /\ cfg.maxSize < cfg.imageSize
        /\ \E e \in {"INVALID", "NOSPACE"} : PayloadReturns(e, 0)
     \/ /\ ~SourceSound
        /\ \E e \in {"INVALID", "NOSPACE", "NOMEM"} : PayloadReturns(e, 0)
  /\ UNCHANGED <<memVars, bootVars, sctlrA, savedA, n>>

RestoredOnSuccess_Wrong == IF loadRet = "OK" THEN savedA ELSE sctlrA
RestoredA == savedA

(* restore_alignment_checks; a failure goes back to main, which hangs. *)
RestoreAlignmentChecks ==
  /\ pc = "restore"
  /\ sctlrA' = RestoredA
  /\ Go(IF loadRet = "OK" THEN "check" ELSE "hang")
  /\ UNCHANGED <<memVars, bootVars, savedA, n, loadRet, outSize>>

(* is_arm64_linux_image reads the magic from the decompressed bytes; junk *)
(* may hold it too.  ARM has no such check.                               *)
CheckMagic ==
  /\ pc = "check"
  /\ \/ /\ Format = "RAW" \/ OnArm
        /\ Go(AfterKernel)
     \/ /\ Format # "RAW" /\ ~OnArm
        /\ outSize > MagicAt
        /\ mem[cfg.entry + MagicAt] = <<"image", MagicAt>> => cfg.isImage
        /\ Go(AfterKernel)
     \/ /\ Format # "RAW" /\ ~OnArm
        /\ ~ (/\ outSize > MagicAt
              /\ mem[cfg.entry + MagicAt] = <<"image", MagicAt>>
              /\ cfg.isImage)
        /\ Go("hang")
  /\ n' = 0
  /\ UNCHANGED <<memVars, bootVars, sctlrA, savedA, loadRet, outSize>>

(* __optimized_memcpy goes upwards, a byte at a time, and knows nothing of *)
(* overlaps.                                                               *)
CopyRamdiskByte ==
  /\ pc = "ramdisk" /\ ~OnArm
  /\ n < cfg.ramdiskSize
  /\ Write({cfg.rdEntry + n}, LAMBDA a : mem[cfg.ramdiskAt + n])
  /\ n' = n + 1
  /\ Go("ramdisk")
  /\ UNCHANGED <<bootVars, sctlrA, savedA, loadRet, outSize>>

(* On ARM it is memcpy. *)
CopyRamdisk ==
  /\ pc = "ramdisk" /\ OnArm
  /\ MemCpy(cfg.rdEntry, cfg.ramdiskAt, cfg.ramdiskSize)
  /\ Go("sync")
  /\ UNCHANGED <<bootVars, loadVars>>

RamdiskCopied ==
  /\ pc = "ramdisk" /\ ~OnArm
  /\ n = cfg.ramdiskSize
  /\ Go("sync")
  /\ UNCHANGED <<memVars, bootVars, loadVars>>

Decompressed == cfg.decompress /\ Format # "RAW"

SyncedByUnrounded_Wrong(start, size) ==
  {a \in Addr : \E k \in 0 .. size :
     /\ start + k * Line < start + size
     /\ a \div Line = (start + k * Line) \div Line}

(* The cells sync_exec_range cleans: whole lines, from the one that holds *)
(* the first byte on, while their address is below the end.               *)
SyncedBy(start, size) ==
  {a \in Addr : /\ a \div Line >= start \div Line
                /\ (a \div Line) * Line < start + size
                /\ size > 0}

(* On ARM start.S has turned the caches off, and nothing is done here. *)
SyncCaches ==
  /\ pc = "sync"
  /\ synced' = IF Decompressed /\ ~OnArm
               THEN synced \cup SyncedBy(cfg.entry, outSize) ELSE synced
  /\ Go("jump")
  /\ UNCHANGED <<mem, bootVars, loadVars>>

Jump ==
  /\ pc = "jump"
  /\ Go("kernel")
  /\ UNCHANGED <<memVars, bootVars, loadVars>>

(* The kernel returned to uniLoader: main hangs. *)
KernelReturns ==
  /\ pc = "kernel"
  /\ Go("hang")
  /\ UNCHANGED <<memVars, bootVars, loadVars>>

Main == EarlyInit \/ ProbeAll \/ LateInit

PatchDtb == PatchFails \/ OpenFdt \/ FindChosen \/ SetInitrdStart \/ SetInitrdEnd

LoadKernel ==
  \/ CopyKernel \/ DisableAlignmentChecks \/ LoadRaw \/ RefusePayload
  \/ StartDecoder \/ DecodeByte \/ DecodeSucceeds \/ DecodeFails
  \/ RestoreAlignmentChecks \/ CheckMagic

LoadRamdisk == CopyRamdiskByte \/ RamdiskCopied \/ CopyRamdisk

Handover == SyncCaches \/ Jump

Hang == pc = "hang" /\ UNCHANGED vars

Next == Main \/ PatchDtb \/ LoadKernel \/ LoadRamdisk \/ Handover
          \/ KernelReturns \/ Hang

Spec == Init /\ [][Next]_vars
-----------------------------------------------------------------------------
(* The variables have their types. *)
TypeOK ==
  /\ IsBuild(cfg)
  /\ pc \in Phases
  /\ initRet \in {-1, 0, 1}
  /\ DOMAIN mem = Addr
  /\ synced \subseteq Addr
  /\ dt \in {"dtb", "fdt_buf"}
  /\ props \subseteq {"initrd-start", "initrd-end"} \X Nat
  /\ sctlrA \in BOOLEAN /\ savedA \in BOOLEAN
  /\ n \in Nat
  /\ loadRet \in Errors \cup {"NONE", "OK"}
  /\ outSize \in Nat

(* The documented window of the payload: CONFIG_KERNEL_DECOMPRESS_MAX_SIZE *)
(* bounds what a decoder may write; a raw image has no bound but its size. *)
LoadWindow == Region(cfg.entry, IF Decompressed THEN cfg.maxSize
                                                ELSE cfg.kernelSize)

RamdiskDest == Region(cfg.rdEntry, cfg.ramdiskSize)

Windows == LoadWindow \cup FdtBuf
             \cup (IF cfg.noCopy THEN {} ELSE RamdiskDest)

(* Until the kernel runs, whatever the build and the payload, memory outside *)
(* the payload's window, the ramdisk's and fdt_buf holds what it held.       *)
NoStrayWrite ==
  /\ TypeOK
  /\ \A a \in Addr \ Windows : mem[a] = InitialMem(cfg)[a]

DtInUse == IF dt = "dtb" THEN Dtb ELSE FdtBuf

(* The build's addresses fit together.  A raw kernel may be moved over its *)
(* own embedded copy (on ARM only downwards), and the ramdisk over the     *)
(* embedded kernel, which is no longer needed, or downwards over itself.   *)
KernelFits ==
  /\ LoadWindow \cap (cfg.code \cup DtInUse \cup Ramdisk) = {}
  /\ \/ LoadWindow \cap Kernel = {}
     \/ ~Decompressed /\ (OnArm => cfg.entry <= cfg.kernelAt)

RamdiskFits ==
  cfg.noCopy \/ /\ RamdiskDest \cap (cfg.code \cup DtInUse \cup LoadWindow) = {}
                /\ RamdiskDest \cap Ramdisk = {} \/ cfg.rdEntry <= cfg.ramdiskAt

Fits == KernelFits /\ RamdiskFits

KernelIntact ==
  IF Decompressed
  THEN /\ outSize = cfg.imageSize
       /\ \A i \in 0 .. outSize - 1 : mem[cfg.entry + i] = <<"image", i>>
  ELSE /\ outSize = cfg.kernelSize
       /\ \A i \in 0 .. outSize - 1 : mem[cfg.entry + i] = <<"payload", i>>

RamdiskIntact ==
  \A i \in 0 .. cfg.ramdiskSize - 1 : mem[cfg.rdEntry + i] = <<"ramdisk", i>>

DtIntact ==
  IF dt = "dtb"
  THEN \A i \in 0 .. cfg.dtbSize - 1 : mem[cfg.dtbAt + i] = <<"dtb", i>>
  ELSE \A i \in 0 .. cfg.fdtBufSize - 1 : mem[cfg.fdtBufAt + i] = <<"fdt", i>>

CodeIntact == \A a \in cfg.code : mem[a] = <<"own", a>>

AllIntact == KernelIntact /\ RamdiskIntact /\ DtIntact /\ CodeIntact

(* When the kernel gets control of a build whose addresses fit, the whole    *)
(* image, the ramdisk and the device tree are in memory as they were built,  *)
(* and the loader has not run over itself on the way.  A corrupt payload     *)
(* never gets there, unless its format carries no check (LZ4 does not).      *)
HandoffIntact ==
  pc = "kernel" /\ Fits /\ (Decompressed => cfg.sound \/ cfg.checked)
    => AllIntact

(* The kernel is given either the tree as it was embedded, or a tree that *)
(* tells it both ends of the ramdisk, and the ramdisk is there; a patch   *)
(* that failed half way is never handed over.                             *)
InitrdTold ==
  pc = "kernel" /\ dt = "fdt_buf" =>
    \E first, end \in props :
      /\ props = {first, end}
      /\ first[1] = "initrd-start" /\ end[1] = "initrd-end"
      /\ end[2] - first[2] = cfg.ramdiskSize
      /\ Fits => \A a \in first[2] .. end[2] - 1 : mem[a] = <<"ramdisk", a - first[2]>>

InitrdToldTruly == ~OnArm => InitrdTold

(* The same of ARM, where the loader says that it is "adding               *)
(* linux,initrd-end" from a pointer it calls ramdisk_end.                  *)
InitrdToldOnArm == OnArm => InitrdTold

(* A decompressed image is in memory, not only in the data cache, by the    *)
(* time it is executed, and no stale instruction of its range is left.      *)
ImageSynced ==
  pc = "kernel" /\ Decompressed /\ ~OnArm => Region(cfg.entry, outSize) \subseteq synced

(* On AArch64 the decoders, which access memory unaligned, run with         *)
(* SCTLR_EL1.A clear; and whatever they return, everything after them runs  *)
(* with it as it was when the loader was entered.                           *)
AlignmentCheckKept ==
  \A v \in BOOLEAN :
    sctlrA = v => [](IF pc \in {"payload", "decode"}
                     THEN sctlrA = (OnArm /\ v)
                     ELSE pc # "restore" => sctlrA = v)
=============================================================================
