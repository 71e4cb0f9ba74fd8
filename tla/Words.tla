------------------------------- MODULE Words -------------------------------
(***************************************************************************)
(* Unsigned words as the set of the places of their ones, which is how the *)
(* checksums of the decoders are computed here: exclusive or is then the   *)
(* symmetric difference, and no number outgrows TLC's.                     *)
(***************************************************************************)
EXTENDS Naturals

Byte == 0 .. 255

BitsOf == [byte \in Byte |-> {b \in 0 .. 7 : (byte \div 2 ^ b) % 2 = 1}]

Xor(a, b) == (a \ b) \cup (b \ a)

(* a >> n *)
Shifted(w, n) == {b - n : b \in {x \in w : x >= n}}
=============================================================================
