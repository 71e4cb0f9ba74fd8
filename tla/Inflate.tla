------------------------------ MODULE Inflate -------------------------------
(***************************************************************************)
(* tinf_uncompress() of src/lib/decompress/tinf/tinflate.c: the bit        *)
(* reader, the two Huffman trees, and the three kinds of blocks, with the  *)
(* code's own widths and tables.  One action stands for one turn of a loop *)
(* of the code; the bytes and bits one turn reads are read in that step.   *)
(*                                                                         *)
(* tinf_gzip_uncompress() calls it and looks at what it leaves: module     *)
(* Gzip, which extends this one.                                           *)
(***************************************************************************)
EXTENDS Integers, SequencesExt, Words

VARIABLES
  src,       (* the payload                                                 *)
  destLen,   (* *destLen, the room at dst                                   *)
  pc,        (* the phase that runs next                                    *)
  sourceEnd, (* offset of d->source_end                                     *)
  d,         (* the bit reader: source, tag, bitcount, overflow             *)
  bfinal,    (* the block being read is the last                            *)
  hlit, hdist,
  lengths,   (* the code lengths read so far, of both trees                 *)
  lt, dt,    (* d->ltree and d->dtree                                       *)
  length,    (* of the match being read or copied                           *)
  offs,      (* how far back it starts                                      *)
  out        (* the bytes written at dst                                    *)

treeVars  == <<hlit, hdist, lengths>>
matchVars == <<length, offs>>
blockVars == <<sourceEnd, d, bfinal, treeVars, lt, dt, matchVars>>

(* src[i], counted from 0 as in C. *)
At(i) == src[i + 1]

Le16(i) == At(i) + 256 * At(i + 1)

(* The definitions named _Wrong, here and below, are mistakes the runs are *)
(* known to notice; nothing uses them.  This one: <= where the code has <. *)
RoomOneMore_Wrong == destLen - Len(out) + 1

Room == destLen - Len(out)
-----------------------------------------------------------------------------
(* 2^n, as far as the reader shifts. *)
Pow2[n \in 0 .. 32] == IF n = 0 THEN 1 ELSE 2 * Pow2[n - 1]

(* The bit reader.  Everything it returns is a record that holds the reader *)
(* afterwards in the field d.                                              *)

(* A byte is loaded ahead. *)
BytesNeeded_Wrong(r, num) == IF r.bitcount >= num THEN 0
                             ELSE (num - r.bitcount + 7) \div 8 + 1

(* How often the loop of tinf_refill runs. *)
BytesNeeded(r, num) == IF r.bitcount >= num THEN 0
                       ELSE (num - r.bitcount + 7) \div 8

(* Past the end the bits are zeros, and overflow is set. *)
Refill(r, num) ==
  LET needed == BytesNeeded(r, num)
      loaded == IF needed > sourceEnd - r.source THEN sourceEnd - r.source
                                                 ELSE needed
      tag[i \in 0 .. loaded] ==
        IF i = 0 THEN r.tag
        ELSE tag[i - 1] + At(r.source + i - 1) * Pow2[r.bitcount + 8 * (i - 1)]
  IN [source   |-> r.source + loaded,
      tag      |-> tag[loaded],
      bitcount |-> r.bitcount + 8 * needed,
      overflow |-> r.overflow \/ loaded < needed]

(* tinf_getbits, and tinf_getbits_base *)
GetBits(r, num, base) ==
  LET f == Refill(r, num)
  IN [bits |-> base + (f.tag % Pow2[num]),
      d |-> [f EXCEPT !.tag = @ \div Pow2[num], !.bitcount = @ - num]]

(* The symbol of a walk that left the tables: WalkStays says there is none. *)
Lost == -1

(* The walk of tinf_decode_symbol after len bits of a code: sym is what it *)
(* found, NotYet before.  It reads counts[len] and, once, symbols.         *)
NotYet == -2

DecodeSymbol(r, t) ==
  LET walk[len \in 0 .. 16] ==
        IF len = 0 THEN [sym |-> NotYet, base |-> 0, offs |-> 0, d |-> r]
        ELSE LET w == walk[len - 1] IN
             IF w.sym # NotYet THEN w
             ELSE IF len = 16 THEN [w EXCEPT !.sym = Lost]
             ELSE LET b == GetBits(w.d, 1, 0)
                      o == 2 * w.offs + b.bits
                      at == w.base + o
                  IN IF o < t.counts[len]
                     THEN [sym |-> IF at < Len(t.symbols) THEN t.symbols[at + 1]
                                                          ELSE Lost,
                           base |-> w.base, offs |-> o, d |-> b.d]
                     ELSE [sym |-> NotYet, base |-> w.base + t.counts[len],
                           offs |-> o - t.counts[len], d |-> b.d]
  IN walk[16]
-----------------------------------------------------------------------------
(* The trees. *)

(* Codes left at each length if every shorter one is used as counted. *)
Available(counts, len) ==
  LET left[i \in 0 .. 16] == IF i = 0 THEN 1
                             ELSE 2 * (left[i - 1] - counts[i - 1])
  IN left[len]

CompleteAny_Wrong(counts, codes) ==
  \A i \in 0 .. 15 : counts[i] <= Available(counts, i)

(* Not over-subscribed, and complete; or a single code of one bit; or none. *)
Complete(counts, codes) ==
  /\ \A i \in 0 .. 15 : counts[i] <= Available(counts, i)
  /\ codes > 1 => Available(counts, 16) = 0
  /\ codes = 1 => counts[1] = 1

(* The symbols that have a code, and those among some whose code has l bits. *)
Coded(lens) == {s \in 0 .. Len(lens) - 1 : lens[s + 1] # 0}

OfLength(lens, S, l) == {s \in S : lens[s + 1] = l}

(* The numbers of a set, upwards. *)
Upwards(S) ==
  [k \in 1 .. Cardinality(S) |->
     CHOOSE s \in S : Cardinality({u \in S : u < s}) = k - 1]

NoTree == [ok |-> FALSE, counts |-> [l \in 0 .. 15 |-> 0], symbols |-> <<>>,
           maxSym |-> -1]

(* tinf_build_tree for the code lengths lens, of the symbols 0, 1, ...  A   *)
(* single code gets a sibling, which no valid stream uses.                 *)
BuildTree(lens) ==
  LET coded  == Coded(lens)
      codes  == Cardinality(coded)
      counts == [l \in 0 .. 15 |->
                   IF l = 0 THEN 0 ELSE Cardinality(OfLength(lens, coded, l))]
      maxSym == Max({-1} \cup coded)
  IN IF ~Complete(counts, codes) THEN NoTree
     ELSE IF codes = 1
     THEN [ok |-> TRUE, counts |-> [counts EXCEPT ![1] = 2],
           symbols |-> <<maxSym, maxSym + 1>>, maxSym |-> maxSym]
     ELSE [ok |-> TRUE, counts |-> counts, maxSym |-> maxSym,
           symbols |-> FlattenSeq([l \in 1 .. 15 |->
                                     Upwards(OfLength(lens, coded, l))])]

(* tinf_build_fixed_trees *)
FixedLtree ==
  [ok |-> TRUE,
   counts |-> [l \in 0 .. 15 |-> CASE l = 7 -> 24 [] l = 8 -> 152
                                   [] l = 9 -> 112 [] OTHER -> 0],
   symbols |-> [i \in 1 .. 24 |-> 255 + i] \o [i \in 1 .. 144 |-> i - 1]
                 \o [i \in 1 .. 8 |-> 279 + i] \o [i \in 1 .. 112 |-> 143 + i],
   maxSym |-> 285]

FixedDtree ==
  [ok |-> TRUE,
   counts |-> [l \in 0 .. 15 |-> IF l = 5 THEN 32 ELSE 0],
   symbols |-> [i \in 1 .. 32 |-> i - 1],
   maxSym |-> 29]

Clcidx == <<16, 17, 18, 0, 8, 7, 9, 6, 10, 5, 11, 4, 12, 3, 13, 2, 14, 1, 15>>

LengthBits == <<0, 0, 0, 0, 0, 0, 0, 0, 1, 1, 1, 1, 2, 2, 2, 2, 3, 3, 3, 3,
                4, 4, 4, 4, 5, 5, 5, 5, 0, 127>>

LengthBase == <<3, 4, 5, 6, 7, 8, 9, 10, 11, 13, 15, 17, 19, 23, 27, 31, 35,
                43, 51, 59, 67, 83, 99, 115, 131, 163, 195, 227, 258, 0>>

DistBits == [i \in 1 .. 30 |-> IF i <= 2 THEN 0 ELSE (i - 3) \div 2]

DistBase == <<1, 2, 3, 4, 5, 7, 9, 13, 17, 25, 33, 49, 65, 97, 129, 193, 257,
              385, 513, 769, 1025, 1537, 2049, 3073, 4097, 6145, 8193, 12289,
              16385, 24577>>
-----------------------------------------------------------------------------
(* tinf_uncompress: what it leaves is the phase, and the bytes in out.      *)

Start(start, end) ==
  /\ sourceEnd' = end
  /\ d' = [source |-> start, tag |-> 0, bitcount |-> 0, overflow |-> FALSE]
  /\ pc' = "block"

(* An error of either kind; Gzip does not tell them apart. *)
Refuse == pc' = "error" /\ UNCHANGED <<blockVars, out>>

BlockStart ==
  /\ pc = "block"
  /\ LET final == GetBits(d, 1, 0)
         type == GetBits(final.d, 2, 0)
     IN /\ bfinal' = (final.bits = 1)
        /\ d' = type.d
        /\ pc' = CASE type.bits = 0 -> "stored" [] type.bits = 1 -> "fixed"
                   [] type.bits = 2 -> "sizes" [] OTHER -> "error"
  /\ UNCHANGED <<sourceEnd, treeVars, lt, dt, matchVars, out>>

(* while (!bfinal), and the check for an overflow after the last block. *)
BlockEnd ==
  /\ pc = "end"
  /\ pc' = IF ~bfinal THEN "block" ELSE IF d.overflow THEN "error" ELSE "done"
  /\ UNCHANGED <<blockVars, out>>

StoredLength == Le16(d.source)

StoredFits ==
  /\ sourceEnd - d.source >= 4
  /\ Le16(d.source + 2) = 65535 - StoredLength
  /\ sourceEnd - d.source - 4 >= StoredLength
  /\ Room >= StoredLength

(* What is left of the byte that held the block's header is dropped. *)
Stored ==
  /\ pc = "stored"
  /\ \/ ~StoredFits /\ Refuse
     \/ /\ StoredFits
        /\ out' = out \o SubSeq(src, d.source + 5, d.source + 4 + StoredLength)
        /\ d' = [d EXCEPT !.source = @ + 4 + StoredLength, !.tag = 0,
                          !.bitcount = 0]
        /\ pc' = "end"
        /\ UNCHANGED <<sourceEnd, bfinal, treeVars, lt, dt, matchVars>>

Fixed ==
  /\ pc = "fixed"
  /\ lt' = FixedLtree
  /\ dt' = FixedDtree
  /\ pc' = "symbol"
  /\ UNCHANGED <<sourceEnd, d, bfinal, treeVars, matchVars, out>>

(* tinf_decode_trees: the reader, and the lengths of the code that the     *)
(* lengths are coded in, after n of them have been read.                   *)
CodeLengths(r, n) ==
  LET read[i \in 0 .. 19] ==
        IF i = 0 THEN [d |-> r, lens |-> [s \in 1 .. 19 |-> 0]]
        ELSE LET before == read[i - 1]
                 b == GetBits(before.d, 3, 0)
             IN [d |-> b.d,
                 lens |-> [before.lens EXCEPT ![Clcidx[i] + 1] = b.bits]]
  IN read[n]

(* The three sizes before them, and all of these lengths. *)
Sizes(r) ==
  LET l == GetBits(r, 5, 257)
      t == GetBits(l.d, 5, 1)
      c == GetBits(t.d, 4, 4)
      read == CodeLengths(c.d, c.bits)
  IN [hlit |-> l.bits, hdist |-> t.bits, lens |-> read.lens, d |-> read.d]

TreeSizes ==
  /\ pc = "sizes"
  /\ LET sizes == Sizes(d)
         tree  == BuildTree(sizes.lens)
         valid == sizes.hlit <= 286 /\ sizes.hdist <= 30 /\ tree.ok /\ tree.maxSym # -1
     IN \/ ~valid /\ Refuse
        \/ /\ valid
           /\ hlit' = sizes.hlit
           /\ hdist' = sizes.hdist
           /\ d' = sizes.d
           /\ lt' = tree
           /\ lengths' = <<>>
           /\ pc' = "lengths"
           /\ UNCHANGED <<sourceEnd, bfinal, dt, matchVars, out>>

(* A repetition with nothing before it to repeat. *)
RepeatsNothing(sym) == sym = 16 /\ lengths = <<>>

(* What a symbol of that code, read by r, stands for. *)
Run(sym, r) ==
  CASE sym = 16 -> LET b == GetBits(r, 2, 3)
                   IN [d |-> b.d, lens |-> [i \in 1 .. b.bits |->
                         IF lengths = <<>> THEN 0 ELSE Last(lengths)]]
    [] sym = 17 -> LET b == GetBits(r, 3, 3)
                   IN [d |-> b.d, lens |-> [i \in 1 .. b.bits |-> 0]]
    [] sym = 18 -> LET b == GetBits(r, 7, 11)
                   IN [d |-> b.d, lens |-> [i \in 1 .. b.bits |-> 0]]
    [] OTHER -> [d |-> r, lens |-> <<sym>>]

LengthRun ==
  /\ pc = "lengths"
  /\ Len(lengths) < hlit + hdist
  /\ LET s == DecodeSymbol(d, lt)
         run == Run(s.sym, s.d)
         bad == \/ s.sym > lt.maxSym
                \/ RepeatsNothing(s.sym)
                \/ Len(run.lens) > hlit + hdist - Len(lengths)
     IN \/ bad /\ Refuse
        \/ /\ ~bad
           /\ lengths' = lengths \o run.lens
           /\ d' = run.d
           /\ UNCHANGED <<pc, sourceEnd, bfinal, hlit, hdist, lt, dt, matchVars,
                          out>>

BuildTrees ==
  /\ pc = "lengths"
  /\ Len(lengths) = hlit + hdist
  /\ LET l == BuildTree(SubSeq(lengths, 1, hlit))
         t == BuildTree(SubSeq(lengths, hlit + 1, hlit + hdist))
         good == lengths[257] # 0 /\ l.ok /\ t.ok
     IN \/ ~good /\ Refuse
        \/ /\ good
           /\ lt' = l
           /\ dt' = t
           /\ pc' = "symbol"
           /\ UNCHANGED <<sourceEnd, d, bfinal, treeVars, matchVars, out>>

(* tinf_inflate_block_data: a symbol of the first tree is a byte, the end  *)
(* of the block, or the length of a match.  Whether the reader has run out *)
(* is looked at here, and not again before the match is copied.            *)
Symbol ==
  /\ pc = "symbol"
  /\ LET s == DecodeSymbol(d, lt)
         noMatch == s.sym > lt.maxSym \/ s.sym - 257 > 28 \/ dt.maxSym = -1
         len == GetBits(s.d, LengthBits[s.sym - 256], LengthBase[s.sym - 256])
     IN \/ s.d.overflow /\ Refuse
        \/ /\ s.sym \in 0 .. 255 /\ ~s.d.overflow
           /\ \/ Room = 0 /\ Refuse
              \/ /\ Room > 0
                 /\ out' = Append(out, s.sym)
                 /\ d' = s.d
                 /\ UNCHANGED <<pc, sourceEnd, bfinal, treeVars, lt, dt,
                                matchVars>>
        \/ /\ s.sym = 256 /\ ~s.d.overflow
           /\ d' = s.d
           /\ pc' = "end"
           /\ UNCHANGED <<sourceEnd, bfinal, treeVars, lt, dt, matchVars, out>>
        \/ s.sym > 256 /\ ~s.d.overflow /\ noMatch /\ Refuse
        \/ /\ s.sym > 256 /\ ~s.d.overflow /\ ~noMatch
           /\ length' = len.bits
           /\ d' = len.d
           /\ pc' = "distance"
           /\ UNCHANGED <<sourceEnd, bfinal, treeVars, lt, dt, offs, out>>

(* The match starts at a byte that is there, and ends in the room. *)
MatchFits(o) == o <= Len(out) /\ length <= Room

Distance ==
  /\ pc = "distance"
  /\ LET s == DecodeSymbol(d, dt)
         o == GetBits(s.d, DistBits[s.sym + 1], DistBase[s.sym + 1])
         coded == s.sym <= dt.maxSym /\ s.sym <= 29
     IN \/ ~coded /\ Refuse
        \/ coded /\ ~MatchFits(o.bits) /\ Refuse
        \/ /\ coded /\ MatchFits(o.bits)
           /\ offs' = o.bits
           /\ d' = o.d
           /\ pc' = "copy"
           /\ UNCHANGED <<sourceEnd, bfinal, treeVars, lt, dt, length, out>>

(* dest[i] = dest[i - offs], upwards: a match longer than its distance *)
(* repeats what it has itself written.                                 *)
CopyMatch ==
  /\ pc = "copy"
  /\ out' = out \o [i \in 1 .. length |->
                      out[Len(out) - offs + 1 + ((i - 1) % offs)]]
  /\ pc' = "symbol"
  /\ UNCHANGED blockVars

(* The symbol that the next step decodes is found inside the tables. *)
WalkStays ==
  /\ pc = "lengths" /\ Len(lengths) < hlit + hdist
       => DecodeSymbol(d, lt).sym # Lost
  /\ pc = "symbol" => DecodeSymbol(d, lt).sym # Lost
  /\ pc = "distance" => DecodeSymbol(d, dt).sym # Lost

Block == \/ BlockStart \/ BlockEnd \/ Stored \/ Fixed \/ TreeSizes \/ LengthRun
         \/ BuildTrees \/ Symbol \/ Distance \/ CopyMatch
=============================================================================
