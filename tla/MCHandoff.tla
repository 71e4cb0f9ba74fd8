------------------------------ MODULE MCHandoff -----------------------------
(***************************************************************************)
(* Builds of Handoff in a RAM of sixteen cells.  The loader lies in cells  *)
(* 4 to 11; the kernel and the ramdisk go to every address there is, so    *)
(* that every overlap of a destination with anything occurs.               *)
(***************************************************************************)
EXTENDS Handoff

MCTop == 15
MCLine == 2
MCMagicAt == 1

Addresses == 0 .. 14

(* Where the linker script puts things: code, kernel, dtb, ramdisk, fdt_buf *)
(* and stack, in this order.                                                *)
Loader == [kernelAt |-> 5, kernelSize |-> 2, dtbAt |-> 7, dtbSize |-> 1,
           ramdiskAt |-> 8, ramdiskSize |-> 2, fdtBufAt |-> 10,
           fdtBufSize |-> 1, code |-> {4, 11}, sizeAt |-> 4]

(* The same with a dtb that is too large for fdt_buf and no ramdisk. *)
LargeDtb == [Loader EXCEPT !.dtbSize = 2, !.ramdiskAt = 9, !.ramdiskSize = 1]

Raw == [head |-> <<77, 90>>, supported |-> TRUE, sound |-> TRUE,
        checked |-> FALSE, isImage |-> TRUE, imageSize |-> 2, maxSize |-> 0]

Lz4 == [head |-> Magic.LZ4 \o <<1>>, supported |-> TRUE, sound |-> TRUE,
        checked |-> FALSE, isImage |-> TRUE, imageSize |-> 2, maxSize |-> 3]

Payloads ==
  {Raw, Lz4,
   [Lz4 EXCEPT !.imageSize = 3],
   [Lz4 EXCEPT !.imageSize = 1],
   [Lz4 EXCEPT !.imageSize = 4],
   [Lz4 EXCEPT !.isImage = FALSE],
   [Lz4 EXCEPT !.supported = FALSE],
   [Lz4 EXCEPT !.sound = FALSE],
   [Lz4 EXCEPT !.head = Magic.GZIP, !.sound = FALSE, !.checked = TRUE],
   [Lz4 EXCEPT !.head = Magic.XZ, !.checked = TRUE],
   [Lz4 EXCEPT !.head = SubSeq(Magic.XZ, 1, 5), !.sound = FALSE],
   [Lz4 EXCEPT !.head = <<2, 33, 76, 25>>, !.sound = FALSE]}

Build(l, p, decompress, noCopy, libfdt, entry, rdEntry) ==
  [arch |-> "aarch64", sizeAt |-> l.sizeAt,
   decompress |-> decompress, noCopy |-> noCopy, libfdt |-> libfdt,
   head |-> p.head, supported |-> p.supported, sound |-> p.sound,
   checked |-> p.checked, isImage |-> p.isImage, imageSize |-> p.imageSize,
   maxSize |-> p.maxSize, entry |-> entry, rdEntry |-> rdEntry,
   kernelAt |-> l.kernelAt, kernelSize |-> l.kernelSize,
   dtbAt |-> l.dtbAt, dtbSize |-> l.dtbSize,
   ramdiskAt |-> IF noCopy THEN rdEntry ELSE l.ramdiskAt,
   ramdiskSize |-> l.ramdiskSize,
   fdtBufAt |-> l.fdtBufAt, fdtBufSize |-> l.fdtBufSize, code |-> l.code]

(* Every build that copies the ramdisk; and, around one address of the *)
(* kernel, those that do not, that lack libfdt, or have a large dtb.   *)
RawBuilds ==
  {Build(Loader, p, d, FALSE, TRUE, e, r) :
     p \in {Raw, Lz4}, d \in {FALSE}, e \in Addresses, r \in Addresses}
  \cup
  {Build(Loader, Raw, TRUE, FALSE, TRUE, e, r) : e \in Addresses, r \in Addresses}

PackedBuilds ==
  {Build(Loader, p, TRUE, FALSE, FALSE, e, r) :
     p \in Payloads \ {Raw}, e \in Addresses, r \in {0, 3, 5, 12, 14}}

OtherBuilds ==
  {Build(l, p, d, c, f, e, r) :
     l \in {Loader, LargeDtb}, p \in {Raw, Lz4}, d \in BOOLEAN, c \in BOOLEAN,
     f \in BOOLEAN, e \in {0, 1, 12}, r \in {0, 2, 3, 7, 12, 13, 14}}

(* The same for ARM, without the builds that differ only in what an arm64 *)
(* image is.                                                              *)
ArmBuilds ==
  {[b EXCEPT !.arch = "arm"] :
     b \in {c \in RawBuilds \cup OtherBuilds : ~c.noCopy}
          \cup {c \in PackedBuilds : c.rdEntry \in {0, 12, 14}}}

MCBuilds ==
  {b \in RawBuilds \cup PackedBuilds \cup OtherBuilds \cup ArmBuilds : IsBuild(b)}

OneArmBuild ==
  {[Build(Loader, Raw, FALSE, FALSE, TRUE, e, 0) EXCEPT !.arch = "arm"] :
     e \in {3, 12}}
=============================================================================
