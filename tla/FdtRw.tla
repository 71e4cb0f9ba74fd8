-------------------------------- MODULE FdtRw --------------------------------
(***************************************************************************)
(* The part of libfdt that ramdisk_handler_patch_dtb calls, over the       *)
(* blocks of a flattened tree: fdt_open_into, fdt_path_offset("/chosen")   *)
(* and fdt_setprop with its splices and its roll-back.                     *)
(*                                                                         *)
(* A buffer is a function from addresses to cells.  A tag is one cell,     *)
(* with its name, or with the length and the name offset of a property;    *)
(* the words of a value follow in cells of their own.  A string is some    *)
(* pieces and a NUL, a cell each, so that one may be the tail of another.  *)
(***************************************************************************)
EXTENDS Integers, SequencesExt

CONSTANTS
  Header,    (* cells of the header, and the alignment of blocks            *)
  Guard,     (* cells after fdt_buf that belong to somebody else            *)
  Edits,     (* the properties, in order: name and value                    *)
  Patches    (* the builds: dtb, size of fdt_buf, alignment of each         *)

Nul     == <<"nul">>
Foreign == <<"foreign">>
NotFound == -1

(* A tree in memory: its cells, and what its header says. *)
End(f) == f.stringsOff + f.stringsSize

IsTree(f) ==
  /\ f \in [cells : {f.cells}, rsvOff : Nat, structOff : Nat, structSize : Nat,
            stringsOff : Nat, stringsSize : Nat, total : Nat]
  /\ DOMAIN f.cells = 0 .. f.total - 1
  /\ f.structOff + f.structSize <= f.total /\ End(f) <= f.total

(* What a tree is read by: the tags of its structure block. *)
Tag(f, off) == f.cells[f.structOff + off]

(* fdt_next_tag: past the tag, and past the value of a property *)
NextTag(f, off) == off + 1 + (IF Tag(f, off)[1] = "prop" THEN Tag(f, off)[2] ELSE 0)

(* Where the tags of the block are, from its first cell on *)
Tags(f) ==
  LET at[k \in 0 .. f.structSize] ==
        IF k = 0 THEN 0
        ELSE LET off == at[k - 1]
             IN  IF off < f.structSize THEN NextTag(f, off) ELSE off
  IN  {at[k] : k \in 0 .. f.structSize} \ {f.structSize}

(* Each tag ends where the next one is, and the last at the end. *)
WellTagged(f, tags) ==
  /\ 0 \in tags /\ tags \subseteq 0 .. f.structSize - 1
  /\ \A t \in tags :
       /\ Tag(f, t)[1] = "prop" => Tag(f, t)[2] \in Nat
       /\ NextTag(f, t) \in tags \cup {f.structSize}
       /\ \A u \in tags : u > t => u >= NextTag(f, t)

(* The entries of the reserved ranges, their terminator with them *)
RsvSize(f) ==
  1 + CHOOSE k \in 0 .. f.total : /\ f.cells[f.rsvOff + k] = Nul
                                  /\ \A j \in 0 .. k - 1 : f.cells[f.rsvOff + j] # Nul

Packed(d) == Header + RsvSize(d) + d.structSize + d.stringsSize

(* The trees a build embeds: the reserved ranges have an end, the structure *)
(* block is tags from end to end, and no cell is in two blocks, so that the *)
(* blocks without the gaps between them are no longer than the tree.        *)
Sound(f) ==
  /\ IsTree(f)
  /\ \E k \in 0 .. f.total - f.rsvOff - 1 : f.cells[f.rsvOff + k] = Nul
  /\ WellTagged(f, Tags(f))
  /\ Packed(f) <= f.total

ASSUME FdtAssumption ==
  /\ Header \in Nat \ {0} /\ Guard \in Nat
  /\ Edits \in Seq(ToSet(Edits)) /\ Edits # <<>>
  /\ \A e \in ToSet(Edits) :
       e.name \in Seq(ToSet(e.name)) /\ e.value \in Seq(ToSet(e.value))
  /\ \A b \in Patches : b.size \in Nat
  /\ \A d \in {b.dtb : b \in Patches} : Sound(d)

VARIABLES
  cfg,       (* the build                                                   *)
  call,      (* the call that comes next, or how it has all ended           *)
  fdt,       (* the tree in fdt_buf; Guard cells more than its total        *)
  chosen,    (* dtb_chosen_offset                                           *)
  set,       (* properties set so far                                       *)
  err        (* the error returned                                          *)

fdtVars == <<cfg, call, fdt, chosen, set, err>>

Empty(size) ==
  [cells |-> [a \in 0 .. size + Guard - 1 |-> IF a < size THEN Nul ELSE Foreign],
   rsvOff |-> 0, structOff |-> 0, structSize |-> 0, stringsOff |-> 0,
   stringsSize |-> 0, total |-> size]

FdtInit ==
  /\ cfg \in Patches
  /\ call = "open" /\ fdt = Empty(cfg.size)
  /\ chosen = NotFound /\ set = 0 /\ err = "NONE"
-----------------------------------------------------------------------------
(* Moving memory *)

MoveUpwards_Wrong(dst, src) == TRUE
MoveUpwards(dst, src) == src > dst

(* __optimized_memmove, after k cells of n *)
MemMove(cells, dst, src, n) ==
  LET moved[k \in 0 .. n] ==
        IF k = 0 THEN cells
        ELSE LET j      == IF MoveUpwards(dst, src) THEN k - 1 ELSE n - k
                 before == moved[k - 1]
             IN  [before EXCEPT ![dst + j] = before[src + j]]
  IN  moved[n]

(* Cells written over others, and past them when there are too many *)
Overlay(cells, new) ==
  [a \in DOMAIN cells \cup DOMAIN new |-> IF a \in DOMAIN new THEN new[a] ELSE cells[a]]

(* A copy from another buffer, of blocks that do not overlap. *)
CopyIn(cells, dst, from, src, n) ==
  Overlay(cells, [a \in dst .. dst + n - 1 |-> from[src + (a - dst)]])
-----------------------------------------------------------------------------
(* fdt_open_into, with fdt_num_mem_rsv and one more for RsvSize *)

Misordered(f) ==
  \/ f.rsvOff < Header
  \/ f.structOff < f.rsvOff + RsvSize(f)
  \/ f.stringsOff < f.structOff + f.structSize
  \/ f.total < End(f)

OpenFails(e) ==
  /\ err' = e /\ call' = "failed"
  /\ UNCHANGED <<cfg, fdt, chosen, set>>

OpenMisaligned ==
  /\ call = "open" /\ ~cfg.dtbAligned
  /\ OpenFails("ALIGNMENT")

(* What the header of the copy says of its size: the whole buffer *)
NewTotal_Wrong(d) == d.total
NewTotal(d) == cfg.size

(* fdt_move, and a larger total size *)
OpenMove ==
  /\ call = "open" /\ cfg.dtbAligned /\ ~Misordered(cfg.dtb)
  /\ cfg.dtb.total <= cfg.size
  /\ fdt' = [cfg.dtb EXCEPT
               !.cells = CopyIn(fdt.cells, 0, cfg.dtb.cells, 0, cfg.dtb.total),
               !.total = NewTotal(cfg.dtb)]
  /\ call' = "path"
  /\ UNCHANGED <<cfg, chosen, set, err>>

PackedStructOff(d) == Header + RsvSize(d)

(* fdt_packblocks_; fdt_buf and the dtb do not overlap. *)
OpenReorder ==
  /\ call = "open" /\ cfg.dtbAligned /\ Misordered(cfg.dtb)
  /\ Packed(cfg.dtb) <= cfg.size
  /\ LET d       == cfg.dtb
         struct  == PackedStructOff(d)
         strings == struct + d.structSize
         c1 == CopyIn(fdt.cells, Header, d.cells, d.rsvOff, RsvSize(d))
         c2 == CopyIn(c1, struct, d.cells, d.structOff, d.structSize)
         c3 == CopyIn(c2, strings, d.cells, d.stringsOff, d.stringsSize)
     IN  fdt' = [d EXCEPT !.cells = c3, !.rsvOff = Header, !.structOff = struct,
                          !.stringsOff = strings, !.total = NewTotal(d)]
  /\ call' = "path"
  /\ UNCHANGED <<cfg, chosen, set, err>>

(* An ordered tree is held to its total size, padding included. *)
OpenNoSpace ==
  /\ call = "open" /\ cfg.dtbAligned
  /\ cfg.size < IF Misordered(cfg.dtb) THEN Packed(cfg.dtb) ELSE cfg.dtb.total
  /\ OpenFails("NOSPACE")
-----------------------------------------------------------------------------
(* Walking the structure block *)

(* One turn of the loop over a node's subnodes, fdt_next_node with the depth *)
(* below the root, and the node the loop looks for, fdt_nodename_eq_ with or *)
(* without a unit address                                                    *)
ChildDepth_Wrong(depth) == TRUE
ChildDepth(depth) == depth = 0

IsSubnode(f, base, at) ==
  /\ at.off < f.structSize /\ Tag(f, at.off)[1] = "begin"
  /\ ChildDepth(at.depth) /\ Tag(f, at.off)[2].base = base

Deeper(tag) == CASE tag[1] = "begin" -> 1 [] tag[1] = "end_node" -> -1 [] OTHER -> 0

NextNode(f, base, at) ==
  IF \/ at.off >= f.structSize \/ Tag(f, at.off)[1] = "end"
     \/ at.depth < 0 \/ IsSubnode(f, base, at)
  THEN at
  ELSE [off |-> NextTag(f, at.off), depth |-> at.depth + Deeper(Tag(f, at.off))]

(* fdt_subnode_offset_namelen of the root *)
Subnode(f, base) ==
  LET at[k \in 0 .. f.structSize] ==
        IF k = 0 THEN [off |-> NextTag(f, 0), depth |-> 0]
        ELSE NextNode(f, base, at[k - 1])
      last == at[f.structSize]
  IN  IF IsSubnode(f, base, last) THEN last.off ELSE NotFound

(* fdt_get_string *)
StringAt(f, nameoff) ==
  LET at(k) == f.cells[f.stringsOff + nameoff + k]
      left  == 0 .. f.stringsSize - nameoff - 1
  IN  IF \E k \in left : at(k) = Nul
      THEN [k \in 1 .. CHOOSE n \in left : /\ at(n) = Nul
                                           /\ \A j \in 0 .. n - 1 : at(j) # Nul
              |-> at(k - 1)]
      ELSE <<>>

(* fdt_get_property_namelen_: the properties of a node come before anything *)
(* but a NOP.                                                               *)
NextProperty(f, name, off) ==
  IF /\ off < f.structSize
     /\ \/ Tag(f, off)[1] = "nop"
        \/ Tag(f, off)[1] = "prop" /\ StringAt(f, Tag(f, off)[3]) # name
  THEN NextTag(f, off) ELSE off

Property(f, node, name) ==
  LET at[k \in 0 .. f.structSize] ==
        IF k = 0 THEN NextTag(f, node) ELSE NextProperty(f, name, at[k - 1])
      last == at[f.structSize]
  IN  IF last < f.structSize /\ Tag(f, last)[1] = "prop" THEN last ELSE NotFound

(* fdt_find_string_len_: the first place in the block where the string ends *)
(* as s does                                                                *)
StringPlaces(f, s) ==
  {p \in 0 .. f.stringsSize - (Len(s) + 1) :
     /\ \A k \in 1 .. Len(s) : f.cells[f.stringsOff + p + k - 1] = s[k]
     /\ f.cells[f.stringsOff + p + Len(s)] = Nul}

FindChosen ==
  /\ call = "path"
  /\ IF ~cfg.bufAligned
     THEN err' = "ALIGNMENT" /\ call' = "failed" /\ UNCHANGED chosen
     ELSE /\ chosen' = Subnode(fdt, "chosen")
          /\ IF chosen' = NotFound
             THEN err' = "NOTFOUND" /\ call' = "failed"
             ELSE call' = "set" /\ UNCHANGED err
  /\ UNCHANGED <<cfg, fdt, set>>
-----------------------------------------------------------------------------
(* fdt_setprop *)

SpliceFitsOneMore_Wrong(f, old, new) == End(f) - old + new <= f.total + 1
SpliceFits(f, old, new) == End(f) - old + new <= f.total

(* fdt_splice_ at p, in the middle of what is there *)
Splice(f, p, old, new) ==
  [f EXCEPT !.cells = MemMove(@, p + new, p + old, End(f) - (p + old))]

(* fdt_splice_struct_ *)
SpliceStruct(f, off, old, new) ==
  [Splice(f, f.structOff + off, old, new) EXCEPT
     !.structSize = @ + new - old, !.stringsOff = @ + new - old]

Write(f, at, words) ==
  [f EXCEPT !.cells = Overlay(@, [a \in at .. at + Len(words) - 1 |-> words[a - at + 1]])]

(* fdt_splice_string_ and the string: at the end, nothing is moved *)
AddString(f, s) ==
  [Write(f, End(f), s \o <<Nul>>) EXCEPT !.stringsSize = @ + Len(s) + 1]

HasString(f, s) == StringPlaces(f, s) # {}

(* fdt_find_add_string_ *)
WithString(f, s) == IF HasString(f, s) THEN f ELSE AddString(f, s)

NameOff(f, s) == CHOOSE p \in StringPlaces(f, s) : \A q \in StringPlaces(f, s) : p <= q

Edit  == Edits[set + 1]
Words == Len(Edit.value)
Found == Property(fdt, chosen, Edit.name)

NextEdit ==
  /\ set' = set + 1
  /\ call' = IF set + 1 = Len(Edits) THEN "ok" ELSE "set"
  /\ UNCHANGED <<cfg, chosen, err>>

SetFails(f) ==
  /\ fdt' = f
  /\ err' = "NOSPACE" /\ call' = "failed"
  /\ UNCHANGED <<cfg, chosen, set>>

OldLength_Wrong == 0
OldLength == Tag(fdt, Found)[2]

(* fdt_resize_property_ *)
Resize ==
  /\ call = "set" /\ Found # NotFound
  /\ SpliceFits(fdt, OldLength, Words)
  /\ LET f    == SpliceStruct(fdt, Found + 1, OldLength, Words)
         head == <<"prop", Words, Tag(fdt, Found)[3]>>
     IN  fdt' = Write(f, f.structOff + Found, <<head>> \o Edit.value)
  /\ NextEdit

ResizeFails ==
  /\ call = "set" /\ Found # NotFound
  /\ ~SpliceFits(fdt, OldLength, Words)
  /\ SetFails(fdt)

StringFits ==
  HasString(fdt, Edit.name) \/ SpliceFits(fdt, 0, Len(Edit.name) + 1)

Named == WithString(fdt, Edit.name)

(* fdt_add_property_: right after the node's name *)
Add ==
  /\ call = "set" /\ Found = NotFound
  /\ StringFits /\ SpliceFits(Named, 0, 1 + Words)
  /\ LET f    == SpliceStruct(Named, chosen + 1, 0, 1 + Words)
         head == <<"prop", Words, NameOff(Named, Edit.name)>>
     IN  fdt' = Write(f, f.structOff + (chosen + 1), <<head>> \o Edit.value)
  /\ NextEdit

AddStringFails ==
  /\ call = "set" /\ Found = NotFound
  /\ ~StringFits
  /\ SetFails(fdt)

RolledBackWholeBlock_Wrong == [Named EXCEPT !.stringsSize = 0]
(* fdt_del_last_string_, when the string is a new one *)
RolledBack ==
  IF HasString(fdt, Edit.name) THEN Named
  ELSE [Named EXCEPT !.stringsSize = @ - (Len(Edit.name) + 1)]

AddFails ==
  /\ call = "set" /\ Found = NotFound
  /\ StringFits /\ ~SpliceFits(Named, 0, 1 + Words)
  /\ SetFails(RolledBack)

Ended == call \in {"ok", "failed"} /\ UNCHANGED fdtVars

FdtNext ==
  \/ OpenMisaligned \/ OpenMove \/ OpenReorder \/ OpenNoSpace \/ FindChosen
  \/ Resize \/ ResizeFails \/ Add \/ AddStringFails \/ AddFails \/ Ended

FdtSpec == FdtInit /\ [][FdtNext]_fdtVars
-----------------------------------------------------------------------------
(* The tree a buffer holds, read off its cells from first to last: where   *)
(* the reader is, and how many words of a value are still to come          *)
Read(f, t, c) ==
  IF t.left > 0
  THEN [t EXCEPT !.left = @ - 1, !.list[Len(t.list)].value = Append(@, c)]
  ELSE IF c[1] = "begin"
  THEN [t EXCEPT !.path = Append(@, c[2]), !.nodes = Append(@, Append(t.path, c[2]))]
  ELSE IF c[1] = "end_node" /\ t.path # <<>>
  THEN [t EXCEPT !.path = Front(@)]
  ELSE IF c[1] = "prop"
  THEN [t EXCEPT !.left = c[2],
                 !.list = Append(@, [node |-> t.path, value |-> <<>>,
                                     name |-> StringAt(f, c[3])])]
  ELSE [t EXCEPT !.sound = @ /\ c[1] \in {"nop", "end"}]

Only(S) == CHOOSE x \in S : TRUE

Contents(f) ==
  LET start == [path |-> <<>>, left |-> 0, nodes |-> <<>>, list |-> <<>>, sound |-> TRUE]
      read[k \in 0 .. f.structSize] ==
        IF k = 0 THEN start
        ELSE Only({Read(f, t, Tag(f, k - 1)) : t \in {read[k - 1]}})
  IN  Only({[nodes |-> t.nodes, props |-> ToSet(t.list),
             sound |-> t.sound /\ t.path = <<>> /\ t.left = 0,
             reserved |-> [j \in 1 .. RsvSize(f) |-> f.cells[f.rsvOff + j - 1]]] :
              t \in {read[f.structSize]}})

NoFdt == [nodes |-> <<>>, props |-> {}, sound |-> FALSE, reserved |-> <<>>]

(* The variables have their types, and the blocks of an opened tree are in  *)
(* the order fdt_rw_probe_ asks for before each edit.                       *)
FdtTypeOK ==
  /\ IsTree(cfg.dtb) /\ cfg.size \in Nat
  /\ call \in {"open", "path", "set", "ok", "failed"}
  /\ chosen \in {NotFound} \cup 0 .. fdt.structSize
  /\ set \in 0 .. Len(Edits)
  /\ err \in {"NONE", "NOSPACE", "NOTFOUND", "ALIGNMENT"}
  /\ fdt.structSize > 0 =>
       /\ Header <= fdt.rsvOff /\ fdt.rsvOff < fdt.structOff
       /\ fdt.structOff + fdt.structSize <= fdt.stringsOff
       /\ End(fdt) <= fdt.total

(* Whatever the size of the buffer and the tree, no copy and no splice of   *)
(* libfdt writes past the end of fdt_buf.                                   *)
InsideBuffer ==
  /\ FdtTypeOK
  /\ DOMAIN fdt.cells = 0 .. cfg.size + Guard - 1
  /\ \A a \in cfg.size .. cfg.size + Guard - 1 : fdt.cells[a] = Foreign

Patching == INSTANCE TreePatch
  WITH Nothing <- NoFdt,
       original <- Contents(cfg.dtb),
       tree <- IF fdt.structSize = 0 THEN NoFdt ELSE Contents(fdt),
       result <- IF call \in {"ok", "failed"} THEN call ELSE "running"

(* The tree that ramdisk_handler_patch_dtb makes is the one it was given,   *)
(* with the two properties at /chosen and nothing else changed, in any      *)
(* layout; and a call that fails has not changed the tree, however far      *)
(* fdt_add_property_ got before it.                                         *)
KeepsTree == Patching!Spec

(* What the first n properties take at most, when they and their names are new *)
Needs[n \in 0 .. Len(Edits)] ==
  IF n = 0 THEN 0
  ELSE Needs[n - 1] + (1 + Len(Edits[n].value)) + (Len(Edits[n].name) + 1)

Worst == Needs[Len(Edits)]

(* A buffer larger than the tree by that much is always large enough: a tree *)
(* in any order, with any of the strings and properties, is patched or       *)
(* refused for another reason.                                               *)
RoomEnough ==
  cfg.size >= cfg.dtb.total + Worst => err # "NOSPACE"
=============================================================================
