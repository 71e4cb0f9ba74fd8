------------------------------ MODULE MCFdtRw -------------------------------
(***************************************************************************)
(* Trees with /chosen in different places, with none, and with other nodes *)
(* of that name; with and without the properties that are to be set; in    *)
(* every layout; in a buffer from too small to just larger than needed.    *)
(***************************************************************************)
EXTENDS FdtRw

MCHeader == 2
MCGuard == 3

Piece(p) == <<"piece", p>>

First  == <<Piece("initrd-start")>>
Second == <<Piece("initrd-end")>>
Other  == <<Piece("bootargs")>>
Longer == <<Piece("my-"), Piece("initrd-end")>>

Value(w, n) == [j \in 1 .. n |-> <<"word", w, j>>]

MCEdits == <<[name |-> First, value |-> Value("start", 2)],
             [name |-> Second, value |-> Value("end", 2)]>>

Name(base, unit) == [base |-> base, unit |-> unit]

(* The parts of a structure block, with a name where its offset will be *)
Node(name, inside) ==
  <<<<"begin", name>>>> \o inside \o <<<<"end_node">>>>
Prop(name, n) == <<<<"prop", n, name>>>> \o Value("old", n)
Nop == <<<<"nop">>>>

Plain == Name("chosen", "")

ChosenInside ==
  {<<>>, Prop(Other, 1), Prop(First, 1), Nop \o Prop(First, 3) \o Prop(Other, 1),
   Prop(Second, 2) \o Prop(First, 2), Prop(Longer, 1),
   Node(Name("soc", ""), Prop(First, 1))}

Children ==
  {Node(Plain, c) : c \in ChosenInside}
    \cup {Node(Name("soc", ""), Node(Plain, Prop(First, 1))) \o Node(Plain, c) :
            c \in {<<>>, Prop(Other, 1)}}
    \cup {Prop(First, 1) \o Node(Name("chosen", "0"), Prop(Other, 0)) \o Node(Plain, <<>>),
          Node(Name("soc", ""), Node(Plain, <<>>)),
          <<>>}

Struct(c) == Node(Name("", ""), c) \o <<<<"end">>>>

(* Strings: those of the names used, a further one, or one that ends as *)
(* another does.                                                        *)
Names(s) == LET props == SelectSeq(s, LAMBDA c : c[1] = "prop")
            IN  {props[j][3] : j \in DOMAIN props}

Tables(s) ==
  {SetToSeq(Names(s)), SetToSeq(Names(s) \cup {Longer, First})}

Strings(table) ==
  FoldLeft(LAMBDA acc, n : acc \o n \o <<Nul>>, <<>>, table)

OffsetIn(table, n) ==
  LET k == CHOOSE j \in DOMAIN table : table[j] = n
  IN  Len(Strings(SubSeq(table, 1, k - 1)))

Resolved(s, table) ==
  [j \in DOMAIN s |-> IF s[j][1] = "prop"
                      THEN <<"prop", s[j][2], OffsetIn(table, s[j][3])>> ELSE s[j]]

Heads == <<<<"header">>, <<"header">>>>
Pad == <<<<"pad">>>>

(* Blocks in order, with or without gaps, or in the other order *)
Layout(kind, rsv, s, t) ==
  LET at   == CASE kind = "packed"  -> Heads \o rsv \o s \o t
                [] kind = "gaps"    -> Heads \o rsv \o Pad \o s \o Pad \o t \o Pad
                [] kind = "strings" -> Heads \o rsv \o t \o s
      rOff == MCHeader
      sOff == rOff + Len(rsv) + CASE kind = "packed" -> 0 [] kind = "gaps" -> 1
                                  [] kind = "strings" -> Len(t)
      tOff == CASE kind = "packed" -> sOff + Len(s) [] kind = "gaps" -> sOff + Len(s) + 1
                [] kind = "strings" -> rOff + Len(rsv)
  IN  [cells |-> [a \in 0 .. Len(at) - 1 |-> at[a + 1]],
       rsvOff |-> rOff, structOff |-> sOff, structSize |-> Len(s),
       stringsOff |-> tOff, stringsSize |-> Len(t), total |-> Len(at)]

Reserved == {<<Nul>>, <<<<"rsv", 1>>, Nul>>}

Dtbs ==
  UNION {{Layout(kind, rsv, Resolved(Struct(c), t), Strings(t)) :
            kind \in {"packed", "gaps", "strings"}, rsv \in Reserved,
            t \in Tables(Struct(c))} : c \in Children}

MCPatches ==
  {[dtb |-> d, size |-> d.total + more, dtbAligned |-> TRUE, bufAligned |-> TRUE] :
     d \in Dtbs, more \in -2 .. 11}
  \cup {[dtb |-> d, size |-> d.total + 11, dtbAligned |-> a, bufAligned |-> ~a] :
     d \in Dtbs, a \in BOOLEAN}
=============================================================================
