# uniLoader in TLA+

uniLoader is a second-stage bootloader for ARMv7 and ARMv8 phones and for QEMU.
It is linked with a Linux kernel, a device tree and a ramdisk into one image.
An earlier bootloader starts that image as if it were the kernel; uniLoader
sets the board up, unpacks the kernel to its entry address, tells the device
tree where the ramdisk is, and jumps.

One CPU runs it, without interrupts and without an operating system. What is
hard about it is not concurrency in the usual sense:

* it moves large pieces of memory around while it lives in that memory itself;
* it decompresses payloads whose every byte may be wrong;
* it talks to hardware that runs on its own: a PMIC behind a bus controller
  that may be late, a power-management firmware behind a mailbox;
* whatever goes wrong, nobody is there: it hangs, or boots on with less.

## Inventory

| Part | Source | State it keeps | Operations | What makes it correct |
|---|---|---|---|---|
| Boot sequence | `main/main.c`, `main/boot.c`, `include/main/main.h`, `drivers/framework.c` | none but the program counter | `main`, `INITCALL`, `driver_probe_all`, `boot_kernel` | phases in order; a failed initcall never boots; a failed probe does not stop the boot |
| Device-tree patch | `main/boot-fdt.c`, `drivers/ramdisk-handler.c` | `fdt_buf`, the pointer `dt` | `patch_dtb`, `ramdisk_handler_patch_dtb` | the kernel gets the original tree or a completely patched one |
| libfdt (vendored) | `lib/libfdt/` | a tree inside a buffer | open, find, set, delete, splice | a failed edit leaves the tree as it was; no write past the buffer |
| Kernel handoff, AArch64 | `arch/aarch64/load-kernel.c` | `SCTLR_EL1.A`, caches, memory | load, check, copy the ramdisk, synchronise, jump | image, ramdisk and tree intact at the jump |
| Kernel handoff, ARM | `arch/arm/load-kernel.c` | memory | load, copy, jump | the same, with a `memcpy` that is not safe over overlaps |
| Payload dispatch | `lib/decompress/kernel.c` | none | `kernel_payload_load` | format by magic; the ceiling holds |
| LZ4 | `lib/decompress/lz4.c` | input and output position | stream loop, block loop | no access outside the buffers; exact output |
| gzip | `lib/decompress/gzip.c`, `tinf/` | bit reader, Huffman trees | inflate, CRC32 and ISIZE check | the same, and a wrong text is refused |
| XZ | `lib/decompress/xz.c`, `xz/` | decoder state machine, bump allocator | stream, LZMA2, BCJ | the same |
| Start-up and relocation | `arch/*/start.S`, `arch/aarch64/reloc.S` | registers, BSS | relocate, clear BSS, vectors, main | the code that runs on is the code that was linked |
| Memory primitives | `arch/*/memcpy.S`, `lib/unic/string.[ch]`, `lib/compiler-rt.c` | none | copy, move, set, compare | they do what C says, overlaps included where used |
| Console | `lib/console/console.c`, `arch/aarch64/exception.c` | the registered consoles, `print_buffer` | register, print, flush; an exception prints and stops | every line reaches every console, an exception's too |
| Framebuffer console | `lib/simplefb/` | cursor, colours | probe, draw, print | no pixel outside the screen |
| SPEEDY | `drivers/samsung/exynos-speedy.c`, `board/samsung/board-dreamlte.c` | the bus controller's registers | read, write with a timeout | a success is the success of this transfer, a value read is this register's |
| ACPM mailbox | `drivers/samsung/exynos-acpm.c`, `board/samsung/board-g0s.c` | mailbox registers | SPMI read, write, bulk | an answer is the answer to this request |
| MediaTek timer and MCU | `drivers/timer/mtk_cpuxgpt.c`, `drivers/mediatek/` | index/data registers | read-modify-write | no other bit changes |
| Boards and SoCs | `board/`, `soc/` | device registers | initcalls, UARTs, bit-banged I2C, watchdogs | per board |
| Host tooling | `scripts/`, Makefiles, Kconfig | - | build | out of scope |

How they interact: `main` calls the board's initcalls through `board_ops`, the
drivers through the linker-built table `__drivers_start`, then `boot_kernel`.
`patch_dtb` leaves the tree to boot with in the pointer it was given.
`arch_load_kernel` calls `kernel_payload_load`, which calls one decoder; the
decoder writes directly at `CONFIG_PAYLOAD_ENTRY`. All parts print through
`printk`. Nothing is shared otherwise, except the most important thing: RAM.

## How to run

In this directory, with TLC, the TLA+ community modules and TLAPS at hand:
`tlc -config MCLz4.cfg MCLz4RoundTrip` runs one model, `tlapm StartUp_proofs.tla`
checks one module's proofs. PROJECT.json lists the runs, maps every definition to the
lines it models, lists the hazards with the properties aimed at them, and names
for every property a mistake in the code that breaks it. Most of those mistakes
are the definitions whose names end in `_Wrong`, each beside the one it would
replace.

A specification is called `Spec`, with `Init` and `Next`. Two modules share their
proofs with another, and so have names of their own: `FbSpec` in `SimpleFb`
and `FdtSpec` in `FdtRw`.

## Modules

| Module | Models | Composed with |
|---|---|---|
| `PayloadDecoder` | abstract: what `kernel_payload_load` promises its caller | - |
| `Words` | words as sets of bits, for the two CRCs | - |
| `Lz4Legacy` | `lz4.c`, byte by byte | implements `PayloadDecoder` |
| `Lz4Legacy_proofs` | the theorems about it | extends `Lz4Legacy` |
| `MCLz4`, `MCLz4RoundTrip` | an encoder; whole, cut and malformed payloads | extend `Lz4Legacy` |
| `Inflate`, `Gzip`, `MCGzip` | tinf; the gzip container around it; payloads | implements `PayloadDecoder` |
| `Gzip_proofs` | the theorems about it, and those about `FdtRw` | extends `Gzip`, `FdtRw` |
| `Lzma2`, `Bcj`, `Xz`, `MCXz` | chunks and dictionary; branch filters; the XZ stream around them; an encoder | implements `PayloadDecoder` |
| `Xz_proofs` | the theorems about it | extends `Xz` |
| `Handoff`, `MCHandoff` | `main` to the jump, over memory; its builds | takes a decoder to be as `PayloadDecoder` says |
| `Handoff_proofs` | the theorems about it | extends `Handoff` |
| `StartUp`, `MCStartUp` | the first instruction to `main`, over memory; its builds | what it establishes is where Handoff begins |
| `StartUp_proofs` | the theorems about it | extends `StartUp` |
| `TreePatch` | abstract: a device tree that gets two properties | - |
| `FdtRw`, `MCFdtRw` | libfdt's part in the patch, over the blocks of a tree | implements `TreePatch` |
| `DeviceScript` | abstract: a PMIC set up access by access | - |
| `Speedy`, `MCSpeedy` | the SPEEDY driver, its caller, controller, PMIC | implements `DeviceScript` |
| `Speedy_proofs` | the theorems about it | extends `Speedy` |
| `Acpm`, `MCAcpm` | the ACPM driver, a board's calls, firmware, PMIC | implements `DeviceScript` |
| `Acpm_proofs` | the theorems about it | extends `Acpm` |
| `ExtI2c`, `MCExtI2c` | the herolte's I2C on two GPIO pins, and the slave | - |
| `Console`, `MCConsole` | printk, consoles, UART, exceptions | - |
| `Console_proofs` | the theorems about it, and those about `SimpleFb` | extends `Console`, `SimpleFb` |
| `SimpleFb`, `MCSimpleFb` | font scale, text layout, places of pixels in memory | - |
| `Boards` | the screens of all boards | used by `MCSimpleFb` |

### StartUp

Memory is a line of cells; a cell is what one store writes. `cfg` is a build:
header, image, BSS and stack, where they are linked to and where an earlier
bootloader put them. `Entry`, `CopyPair`, `Reload` and `Branch` are `reloc.S`,
with the registers `x4` to `x6` of its loop; `SetStack`, `ClearCell`,
`BssCleared` and `InstallExceptionVectors` are `start.S` of both architectures.
The code that runs lies in the memory that is copied over: when the cells of the
loop, or later those of the image, no longer hold what they should, `RunAstray`
may happen instead of the next instruction.

Run `startup` (31 399 states): images of three sizes with BSS of three, linked
to three places and loaded at each of 41, and ARM builds on either side of and
across the address whose sign changes. What the run settles:

* `Apart` says from where the copy works: at home, below home by no less than
  the image's content, above home by no less than what is copied (`RelocSize`,
  with the stack) and the loop that copies it. Nothing in the code checks this. Nearer below, the copy overwrites what it
  has still to read; nearer above, it overwrites the loop that makes it.
* The size counts from the header on, the copy starts at `_start`: it goes one
  header past the end of the stack. `NoStrayWrite` says so, and no less can be
  said.
* That the loop ends on exactly zero rests on the linker script: the stack ends
  on a page and `.text` starts on the alignment of the vectors. `IsBuild` has it
  as the parity of the size.
* On ARM, `blt` compares addresses as signed integers: a BSS across
  the middle of the address space is not cleared. `MainStartsClean` leaves such
  a build out (`OneSign`), so that it does not stand for this hazard; the run has
  builds on either side of that address, whose BSS is cleared.

Nothing is cleaned from the caches after the copy; the model takes a fetch to
see what the store wrote, as it does with the caches off. `ReachesMain`
assumes that the processor goes on (`WF(Running)`).

### Handoff

Memory is a function from sixteen addresses to what a cell holds: its owner and
the offset in it. That makes "the ramdisk is intact" a statement about cells,
and a copy over an overlap does what the loop in the code does. `cfg` is the
build: architecture, where the linker put kernel, tree, ramdisk, `fdt_buf` and
code, which options are on, how the payload begins and what it is. `pc` runs
through `main`, `boot_kernel`, `patch_dtb` with each call of libfdt, and
`arch_load_kernel`. `Detect` is the dispatch by magic: a compressed payload
whose magic is damaged counts as a raw kernel and is run, which is what the code
does and not a choice of the model. The decoder writes a byte a step and may
read its own output if the build lets it run over its source: from then on it
writes junk. `synced` is what the cache maintenance has reached; `sctlrA` the
alignment check.

An ARM build has no magic check of the image, no switch of the alignment check,
no cache maintenance (the caches are off), copies the ramdisk with `memcpy`
too, and that `memcpy` is not safe over an overlap from below: it goes upwards
in blocks and reads some of them ahead, so any of the cells it overtakes may be
spoilt.

Run `handoff` (191 228 states) takes every address for the kernel and every one
for the ramdisk, around a loader in the middle of memory, so that every kind of
overlap occurs, and twelve kinds of payload. `Fits` says when the addresses of a
build go together; the code checks nothing of the kind. `HandoffIntact` is that
such a build hands over intact. `AlignmentCheckKept` is temporal: the check is
off exactly while a payload is loaded.

Run `handoff_arm` shows a disagreement. `drivers/ramdisk-handler.c` takes the
address of `ramdisk_size` for its value. On AArch64 the linker makes that
address the size; on ARM it is a word that holds it. So the kernel is told an
end of the ramdisk that is the start plus an address (`InitrdToldOnArm`).

A remark that is no run: `INITCALL` hangs on any value but 0, and the comment
above it in `include/main/main.h` asks for a positive one.

### PayloadDecoder and its three implementations

`PayloadDecoder` has a payload, a ceiling and what is written: bytes are added
at the end and never past the ceiling, and the result is either an error or a
success with the number of bytes written, which for LZ4 is not none. `KeepsPromise` in each
of the three is that refinement. What Handoff lets a decoder do is what
`PayloadDecoder` allows.

**Lz4Legacy.** `src` and `dstSize` are the arguments, `ip`, `iend` and
`blockStart` the C pointers as offsets, `out` what lies at `dst`, `pc` the phase
of the loops. An action goes from one read of the input to the next:
`ReadToken`, `ExtendLiteral`, `CopyLiterals`, `ReadOffset`, `ExtendMatch`,
`CheckMatch` and `CopyMatchByte` are the body of `lz4_decode_block`,
`CheckMagic`, `NextMagic`, `EndOfStream`, `BadChunk`, `EnterBlock`, `LeaveBlock`
that of `kernel_decompress_lz4`. Every early return is a disjunct. Lengths have
the width of `size_t`, `SizeMax`, which TLC sets near the size of the payloads,
so that the overflow checks matter.

Run `lz4` (449 972 states) feeds three kinds of payload. Whole and cut ones are
what an encoder in `MCLz4` makes, under ceilings one below, at and one above the
size of the text, and cut anywhere; the text is defined without the decoder: a
match repeats what is before it with the period of its offset. Malformed ones
are all short blocks over the six byte values that reach different branches,
under block sizes that are right, too short and too long, and a real stream with
any byte replaced by any other. Half a byte has two bits here, so a byte has 16
values and a length is extended from 3 on: all loops run several times within 50
bytes. `Terminates` assumes that the processor goes on; nothing else runs.

**Inflate and Gzip.** One action is one turn of a loop of tinf, with the bytes
and bits it reads; a match is copied in one step, as a text with the period of
its distance. The loops inside a step (refilling the bit reader, walking down a
tree, the code lengths of a block) are recursive functions with a turn for each
argument. A walk goes through all fifteen lengths a code can have and stands
still once it has its symbol. The bit reader keeps its fields, `overflow` included. Every error
of inflate becomes INVALID, as `tinf_gzip_uncompress` makes it; that includes
output that does not fit, unless the trailer's size already says so. `UintMax`,
the width of the sizes, is 400, so that the sums in the header wrap within
reach. The CRC is computed as the code does, on sets of bits.

Run `gzip` (114 347 states) has data as zlib packs it (stored, fixed and dynamic
blocks, a flush, the longest match), under five headers; each with one byte
changed or cut off anywhere; and dynamic blocks put together bit by bit: every
choice of five small code lengths, trees too full, empty or with one code,
repetitions with nothing to repeat. `DamageNoticed` is what CRC and size are for.
`FixedTreesRight`, an assumption that TLC evaluates, compares the tables written
by hand with those the general construction gives.

**Lzma2, Bcj and Xz.** All input and all room are there at once (`XZ_SINGLE`)
and the output is the dictionary; `Lzma2` has the chunks with what each resets
and demands, the window through which the range decoder reads, with the copy of
the input's end it keeps, and the dictionary with its limits. The range
coder is abstracted: a symbol takes one byte or two and may leave the range so
small that the next `rc_normalize` takes another (`rc.due`): that of the next
symbol, or the one at the end of `lzma_main` (`Normalized`). The final code is
right if the bytes it was initialised with are zero. `Bcj` has the filters as
functions of a block. `Xz` has the stream around them, each field and CRC as
bytes.

Run `xz` (122 153 states) builds its payloads: every symbol after every other, every
order of up to three chunks of the six kinds, right and wrong, blocks with and
without sizes, checks and filters, and something after the stream; streams with
one byte changed, cut off, or with other blocks than the index lists.
`BuiltAsXzDoes` compares three of them with what xz itself writes.
`InRequired` is four: three bytes for a symbol and one for the normalization at
the end (20 and one in the code); the smallest dictionary is four (4096). Chunks
of symbols that take all of that are cut off at every byte, so that both ends of
the window are met and the last byte that is read is the payload's last. The
mutant for `MemorySafe` is a reserve one byte short. What the run settles: what
follows the first stream is ignored, so concatenated streams lose all but
the first; two blocks of equal sizes may change places unnoticed, since each
carries its own check; a check other than none or CRC32 is refused. Sizes of more than four
bytes are not told apart, and the allocator's exhaustion is left out: its
workspace is larger than the structures, which are allocated once.

### FdtRw and TreePatch

`TreePatch` has trees: nodes, properties, reserved memory. `FdtRw` has
`fdt_buf` as cells, a header and three blocks, and an action for each way that
`fdt_open_into`, `fdt_path_offset` and `fdt_setprop` go: moved as it is or
packed anew, resized or added, with the string found or added, and each lack of
space, also after the string has gone in. `MemMove` is the loop of
`__optimized_memmove`, cell by cell, since the splices overlap. `Subnode` and
`Property` are libfdt's searches, a tag a turn. A build's tree is taken to be
`Sound`: the reserved ranges have a terminator, the structure block is tags from
its first cell to its last, and no two blocks share a cell. That is what a device
tree compiler writes. The order of blocks and the gaps between them are open.
`Contents` reads
a tree off the cells, which is the refinement mapping: `KeepsTree` says that
every step of libfdt is a step on trees, or none. A cell is four bytes of the
structure block or a piece of a string, so the padding inside a cell does not
show. Handoff's `OpenFdt` and `SetInitrd` rest on this.

Run `fdt_rw` (9 092 states): `/chosen` first, last, behind a node of its name
one level down or with a unit address, with either property there already,
shorter or longer, behind a NOP or behind others, or no `/chosen` at all; names
in the strings block, missing, or the tail of another; blocks packed, with
gaps, or strings before structure; every size of buffer from two cells too few
to one more than `Worst`. `RoomEnough` is what the choice of
`CONFIG_FDT_BUF_SIZE` may rely on. Alignment is a choice of the build: nothing
in the source aligns `fdt_buf`, and where it is not aligned the patch fails.

### ExtI2c

A step is one access to a GPIO register. The slave sees the two wires move and
may answer or refuse every byte; its drive of SDA follows the clock at any time
up to one `ext_i2c_delay` later. That the driver reads the data register before it
writes it back is one step, since nothing else writes it. Run `ext_i2c` (372 states) starts from every
latch an idle bus may have. `WireAsSBoot` says what is heard on the bus is the
three bytes, framed; `NoFight` that master and slave never drive SDA against
each other while the clock is high. Two things the runs showed are part of the
properties' wording: after a refusal the master turns SDA to an output that
drives low while the clock is still high, so that an empty start and stop are
heard; and they do drive against each other while the clock is low, which is
harmless.

### Speedy, Acpm and DeviceScript

`DeviceScript` is what both drivers are for: accesses carried out in order and
once, none begun before the last is known to be done, nothing reported that did
not happen, and at most one in doubt after the driver gives up.

`Speedy` has a controller that owes nothing: it takes a command, finishes it at
any time, also after the driver's timeout, or loses it. The FIFOs and the
completion bit hold what an earlier bootloader left. `got` has what each access
returned; `ReadsOwn` says that a read returned what the PMIC's register held when
this read was carried out, and that a write was carried out before it returned.
`Returns` needs fairness of the driver alone (`WF(Driver)`). It is assumed that
no transfer is under way at entry. Run `speedy` (406 states) has the three LDOs
of the dreamlte, then reads and a write of the same and of other registers, and
a limit of four polls instead of 500000: more polls only add waiting.

`Acpm` has a request, a doorbell, an answer and a pending bit in shared
registers, with a request's halves and an answer's bytes as separate accesses.
`AnswerIsOwn` says that what a read returned is what the PMIC held when this
call was served, bulk reads lane by lane. The driver waits without a limit, so
`Returns` needs fairness of the firmware as well (`WF(Driver)`, `WF(Firmware)`):
it shows that no wake-up is lost between the doorbell and the pending bit; that
the wait has no limit is the code's choice, and firmware that stops hangs the
boot. The mailbox must be idle at entry: a pending bit left set would give every
call the answer of the one before, and the code does not clear it. Run `acpm`
(38 576 states): the calls of the g0s, then each call of the driver once, the
firmware refusing any of them.

### Console

`Boot` is a sequence of steps that reach the consoles; `depth` counts the
exceptions. A character carries the line it was read from, so that a line of
the exception in the middle of a line of the boot shows as such.
`StreamsOrderly` is what remains of order in the face of `print_buffer` being
shared: a line may be cut by an exception, and then the handler's lines follow,
never a tail of either. `AllShown` is about the flush before the jump, and asks
of a console only the lines that were printed after it had registered. Two
assumptions are about the boot: a console registers once
(`ConsoleAssumption`), since the board and a driver's probe each do it in
one place, and a flush follows the last line (`FlushAssumption`), as in
`arch_load_kernel` of AArch64. The run evaluates both for its boot.
`NotHeldUp` needs only that the processor goes on (`WF(Boots)`): the UART may
stop sending for good. Run `console` (52 450 states): two log levels, a FIFO of
two, two exceptions, the second inside the handler of the first.

### SimpleFb and Boards

`Newton` is a step of the integer square root, `DrawGlyph` and `StepNewline`
are turns of the text loop, `BytesOf` the bytes of the framebuffer a glyph's
pixels take. Run `simplefb` (134 909 states): the screens of all boards as their
sources give them, small ones at each side of each edge, and all sequences of
three messages (without carriage returns, which no caller passes) out of five, one of which is longer than any line of the small
screens and wraps on many of the boards'. `GlyphsWhole` says that glyphs lie on the screen, whole,
and their bytes in the framebuffer; it asks for a screen with room for the
prefix, a glyph and a line, since on a smaller one the loop draws outside.
`ReadsInOrder` says that, until the screen is cleared, no glyph overlaps the
one before it and each is right of it or on a lower line.

## What is proved

Eight modules hold theorems, about ten specifications. Each specification has
one inductive invariant (`Inv`; `FbInv` and `FdtInv` in the two that share a
module), shown to hold initially and to be kept by every action, one lemma or
step an action; what the runs check follows from it. Every safety property of
the runs `startup`, `handoff`, `speedy`, `acpm`, `console` and `simplefb` is
proved that way; of `lz4`, `gzip` and `xz` those that do not compare with a
text; and of `fdt_rw` the two about places and room.

**`Lz4Legacy_proofs`**, for all `Nibble`, `SizeMax`, `MinMatch`, `Magic`,
payloads and ceilings that `Lz4Assumption` allows (payloads are sequences of
bytes no longer than a `size_t` can say):

* `TypeCorrect`, `Safe`: `Spec => []TypeOK` and `Spec => []MemorySafe`;
* `ImplementsPromise`: `Spec => KeepsPromise`, that is, every step of the
  decoder is a step of `PayloadDecoder` or none.

`MemorySafe` alone is not inductive: that a match copy stays inside needs the
offset checked two actions earlier to be still within the block, that
`CopyLiterals` reads inside needs the length to have been extended without
wrapping, and that the result is `Len(out)` needs `ret` to be `RUNNING` in every
phase but the last. `Carried` collects those facts.

**`StartUp_proofs`**, for RAM of any size and every build that `IsBuild` allows:

* `CleanStart`: `Spec => []MainStartsClean`, of builds that are `Apart` and
  `OneSign`;
* `NothingElseWritten`: `Spec => []NoStrayWrite`, of all of them.

`MainStartsClean` says nothing before `main`. `Inv` adds that the three
registers of the copy run in step (`InStep`), that what is ahead of them is
still as loaded (`Unwritten`), that what is behind them is the image (`Moved`),
how far the BSS is cleared (`Clearing`) and which vectors are in force
(`Handlers`). `Apart` keeps a cell from being overwritten before it
has been read, and the loop from being overwritten while it runs.

**`Handoff_proofs`**, for memory and cache lines of any size and every set of
builds that `HandoffAssumption` allows, which asks of a build what the linker
sees to (`IsBuild`) and nothing about where kernel and ramdisk are sent:

* `HandsOverIntact`: `Spec => []HandoffIntact`, of builds that fit (`Fits`);
* `StaysInWindows`: `Spec => []NoStrayWrite`, of all of them;
* `TellsInitrd`, `ExecutesWhatWasWritten`, `PutsCheckBack`: the remaining
  properties of run `handoff`.

`HandoffIntact` speaks of the jump. `Inv` says for every phase which of the
pieces are in place: before the load all memory but `fdt_buf` is as built; then
tree and code, with the source of the kernel while it is read, the source of the
ramdisk until it is copied, the ramdisk half here and half there while it is,
and the loaded kernel from the moment the decoder has returned. Each write is
then one question, whether its target is disjoint from what is in place, and
`Fits` answers it. `AlignmentCheckKept` is a temporal formula about the value
found at entry; its proof carries that value as a constant through an invariant
of its own.

**`Gzip_proofs`**, first part, for payloads and destinations of any size, every
byte, and every `UintMax` that a header and a trailer fit in:

* `MemorySafety`: `Spec => []MemorySafe`;
* `PromiseKept`: `Spec => KeepsPromise`.

What makes `MemorySafe` hard is the walk down a Huffman tree: tinf's
`tinf_decode_symbol` has no test for the end of its table but two assertions
(`tinflate.c` 185 and 192), and `tinf/assert.h` compiles them to nothing. It
stays inside because of what was counted when the tree was built. The lemmas go that way:

* `GetBitsRight`, `RefillRight`: the bit reader gives a number below 2^n, keeps
  its tag below 2^bitcount, and never reads past `source_end`, overflow or not;
* `AvailableRight`, `TreeBuilt`: `tinf_build_tree` goes on only when the codes
  of all lengths fit and fill the space. What is left after each length
  (`left` in `GoodTree`) starts at one, doubles less the codes of that length,
  and is zero after the fifteenth. A tree with a single code is made good by the
  second code beside it (`OneCode`); `FixedTreesGood` is about the two tables
  written by hand;
* `SymbolFound`: a walk's offset stays below what is left, so that at the
  latest at the fifteenth length it falls among that length's codes, at a place
  that `before`, the sum of the counts up to there, keeps inside the table.

The invariant carries `GoodTree` and the largest symbol of each tree from
where a block begins to its every symbol and distance, the length and the distance
of a match from one action to the next, and `out` against `destLen`. For
`KeepsPromise` a match has to be added behind what is there, whatever its period.

**`Gzip_proofs`**, second part, for buffers of any size, every set of `Sound`
trees in any layout, and every list of properties:

* `NothingOutside`: `FdtSpec => []InsideBuffer`;
* `RoomIsEnough`: `FdtSpec => []RoomEnough`;
* `EditsChangeNothingElse`: `FdtSpec => NothingElse`, an action property stated
  beside the theorem, cell by cell: what `fdt_open_into` makes has the three
  blocks of the embedded tree, wherever they come to lie; a property that is set
  lies over the old one of its name or right behind the node's, names a place of
  the strings block that holds its name, and every other cell of the tree is
  what it was, in its place or moved by what the property grew; a call that
  fails leaves every cell of the tree as it was.

`MemMoveRight` says that `__optimized_memmove` moves what it is asked to, whichever
way source and target overlap. `InsideBuffer` is not inductive, because a
splice moves everything from a tag to the end, and where that tag is comes from
the tree itself. So `FdtInv` has the tree readable: the blocks are in order and
the cells behind the buffer untouched (`Buffer`), and there is a set of places
that are the tags of the block, each ending where the next begins (`WellTagged`),
with `/chosen` among them (`Located`). `SubnodeRight` and `PropertyRight` show
that a search ends at one of those places; `PropertyPut` and `PutRight` that a property put at
one, over an old one or between two, leaves the block tags from end to end
(`TagsPut`); `StringAdded` that a new string, and taking it out again, does not
touch them. The same lemmas say what becomes of the other cells (`Replaced`,
`Appended`); `NameFound` and `PlacesMoved` follow the name through the splice
that moves the strings block, `TakenBack` through the roll-back. For
`RoomEnough` the invariant has that the tree so far ends no later than the
embedded one did, plus what the properties set so far may take (`Needs`).

The two parts are in one module since both are about loops, and rest on the same
lemmas about recursive functions: `LeastNumber`, `UpTo` and `Recursion`.

**`Xz_proofs`**, for payloads and ceilings of any size, every set of filters, and
every `InRequired` above three (21 in the code, 4 in the run):

* `StaysInside`: `Spec => []MemorySafe`;
* `KeepsItsPromise`: `Spec => KeepsPromise`.

`MemorySafe` is about the moment a symbol is decoded (`WindowHolds` asks for
all `InRequired` bytes) and the one after (`TakenWasThere`, for what was read and
what the last normalization will read); what makes it right is spread over three modules and many actions. `Decoder` says where the copy of the
input's end and the window lie in each phase of a chunk (`CopyKept`, `Window`):
what is in the copy is all that is left of the chunk, or else the payload is at
its end. `Room`
is how far the dictionary may grow, `ChunkReady` that a chunk of symbols comes
with dictionary and properties, `RepThere` that the latest distance lies in the
dictionary, or will be reset before it is used. `Stream` ties the phases of the
stream to those of the chunks. For the promise, the filters matter: they change
bytes already written, and `Final` is the part that none will change any more;
the proof shows that a filter gives back as many bytes as it takes.

**`Speedy_proofs`**, for every script, limit of polls, PMIC and left-over:

* `ReadsWhatIsThere`: `Spec => []ReadsOwn`;
* `KeepsItsPromise`: `Spec => KeepsPromise`, the refinement of `DeviceScript`.

`Inv` has for each phase of the driver where the transfer may have got to: not
begun, in the command register, on the bus, finished, or lost. Once the
driver has cleared it, the completion bit stays clear until this very transfer
sets it, and the FIFO holds at most this read's byte: a stale bit or byte would
break that. After a timeout it stays open how far the transfer has got, and
nothing else begins.

**`Acpm_proofs`**, for every script of well-formed calls, every PMIC and any
alphabet of bytes with zero in it:

* `ReadsItsOwnAnswer`: `Spec => []AnswerIsOwn`;
* `KeepsItsPromise`: `Spec => KeepsPromise`.

`Inv` follows a request through registers that both sides write: laid down,
rung, taken, carried out, told, raised. `UnpackPack` is the lemma about lanes:
eight bytes laid into two registers come out as they went in, for any number
of them.

**`Console_proofs`**, first part, for every boot the two assumptions allow, every set of log
levels, and lines, FIFO, limit of polls and number of exceptions of any size:

* `KeepsOrder`: `Spec => []StreamsOrderly`;
* `ShowsAll`: `Spec => []AllShown`.

The invariant has to say how far each console has got at every place an
exception may strike. `Shown` compares a console's place among those registered
with the place printk has come to: those before it have the line whole, this one
has it up to the character before, those after it end with the line before
(`Before`, `Complete`). A console that has given up is left out for good; one
that registers late starts from nothing. `Flushed` says when the UART is known
to be empty. An exception begins a new depth, at which nothing has been shown.

**`Console_proofs`**, second part, for screens, fonts and messages of any size:

* `RootExact`: `FbSpec => []ScaleExact`;
* `NothingCut`: `FbSpec => []GlyphsWhole`, given `PixelsFit`: a pixel's stride is
  no less than the bytes its format takes. It is so on every board (`Boards`);
  the driver takes both from the board and compares nothing;
* `NothingOverlaps`: `FbSpec => []ReadsInOrder`.

For the root, `FbInv` has that each estimate is no less than the root, in whole
numbers, and that when the estimates stop to fall the last one is not more. For
the text it has where the next glyph goes relative to the newest (`Onward`), in
the middle of a line, after a wrap, a newline or a clear, and between messages.

Proofs about screens use that width and height squared, and the
framebuffer's size, fit an `int`, as `SimpleFbAssumption` says; it is what the
code's own arithmetic needs.

### Recursion

The induction theorems of the library take an operator as a parameter, which the
provers cannot instantiate. What can be said without one is induction over a
set: if 0 is in `S`, and every number up to n whose predecessor is, then all
are (`UpTo`, from `LeastNumber`). And a recursive function over 0 .. n exists
and unfolds, if every turn stays within one set of values (`Recursion`). With
these two a loop that a model has as a recursive function can be proved about,
as long as the invariant of the loop is itself first-order: "after k turns the
first k cells are moved", "after k lengths this much is left".

## What is only model-checked

* Round trips and damage (`RoundTrip`, `CutNeverForges`, `WholeDecoded`,
  `DamageNoticed`): they compare with a text, an encoder or a checksum that a
  recursive definition computes, with no closed form that a loop invariant could
  be stated in.
* `KeepsTree` of libfdt: `Contents` reads a whole tree off the cells, again by a
  recursive definition over a path, and the theorem would compare two such
  readings before and after a splice. What is proved in its stead is the same of
  the cells themselves, `NothingElse`; that a tree whose cells differ in one
  property reads as one that differs in that property is what TLC shows.
* The bit-banged I2C: its model has no parameter, and TLC has visited every
  state of it, from every latch, whatever the slave answers. There is nothing
  more general to prove.
* Liveness (`Terminates`, `Returns`, `NotHeldUp`, `ReachesMain`): fairness and
  ENABLED are out of the prover's reach.

## Plan

What was planned to be modelled is modelled, and what was planned to be proved
is proved, the decoders' `MemorySafe` and the loop of `__optimized_memmove` with
it. What is worth trying next is the rest of `KeepsTree`: with `NothingElse` for
the cells and `WellTagged` for the tags, what is left is that reading a tree
commutes with a splice at a tag.

## Not modelled

* The MediaTek timer and MCU and the boards that write single registers: one
  fixed sequence of writes each, between which that of the p682lpn polls its bus
  and its watchdog, here with a limit and there without. Several of those boards
  poll a UART without one, which is `Acpm`'s hazard with less in it; the register
  read of the p682lpn tests bit 31 of a 16-bit variable, so that it never waits,
  and what the hardware then returns cannot be known from the source.
* String functions, compiler helpers and formatting: pure functions that a unit
  test covers. The font and the colours: data.
* Of libfdt: what the loader never calls (`fdt_sw.c`, deletion, overlays),
  trees of versions before 17 and malformed ones. A tree is linked in, and
  nobody checks it.
* How deep exceptions may nest before the stack is used up: depends on the
  compiler's frames.
* Of XZ: the probabilities of the range coder, and running out of workspace.
* kconfig and the build: run on the host. Together with the font, libfdt's
  headers and the formatter they are most of the lines of the repository.
