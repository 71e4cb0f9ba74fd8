----------------------------- MODULE TreePatch ------------------------------
(***************************************************************************)
(* What patching a device tree for a ramdisk is meant to be.  A tree has   *)
(* its nodes in document order, its properties, its reserved memory, and   *)
(* whether it can be read to its end.  A copy of the original takes the    *)
(* two properties at the node /chosen, one after the other; a step that    *)
(* fails changes nothing, and ends it.                                     *)
(***************************************************************************)
EXTENDS Naturals, Sequences

CONSTANTS
  Edits,     (* the properties to set, as records of name and value         *)
  Nothing    (* no tree                                                     *)

VARIABLES
  original,  (* the tree, or Nothing when it has no /chosen                 *)
  tree,      (* the copy                                                    *)
  set,       (* how many properties have been set                           *)
  result

vars == <<original, tree, set, result>>

Init == tree = Nothing /\ set = 0 /\ result = "running"

Copy ==
  /\ result = "running" /\ tree = Nothing
  /\ tree' = original
  /\ UNCHANGED <<original, set, result>>

(* The first child of the root that is called chosen, whatever its unit. *)
IsChosen(path) == Len(path) = 2 /\ path[2].base = "chosen"

Chosen == LET nodes == original.nodes
          IN  nodes[CHOOSE j \in DOMAIN nodes :
                      /\ IsChosen(nodes[j])
                      /\ \A h \in 1 .. j - 1 : ~IsChosen(nodes[h])]

HasChosen == \E j \in DOMAIN original.nodes : IsChosen(original.nodes[j])

(* The property gets its value, in place of the one it may have had. *)
With(t, edit) ==
  [t EXCEPT !.props =
     {p \in @ : <<p.node, p.name>> # <<Chosen, edit.name>>}
       \cup {[node |-> Chosen, name |-> edit.name, value |-> edit.value]}]

Set ==
  /\ result = "running" /\ tree # Nothing /\ set < Len(Edits) /\ HasChosen
  /\ tree' = With(tree, Edits[set + 1])
  /\ set' = set + 1
  /\ result' = IF set + 1 = Len(Edits) THEN "ok" ELSE "running"
  /\ UNCHANGED original

Fail ==
  /\ result = "running" /\ set < Len(Edits)
  /\ result' = "failed"
  /\ UNCHANGED <<original, tree, set>>

Next == Copy \/ Set \/ Fail

Spec == Init /\ [][Next]_vars
=============================================================================
