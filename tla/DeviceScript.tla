---------------------------- MODULE DeviceScript ----------------------------
(***************************************************************************)
(* What a board's setup of its power-management chip is meant to be: a     *)
(* script of N register accesses.  The chip carries them out one at a      *)
(* time, in order and once each; none is begun before the one before it is *)
(* known to be done; and nothing is reported that has not happened.        *)
(*                                                                         *)
(* A driver may give up.  Then the access it gave up on may or may not     *)
(* have been carried out, may even be carried out later, but none after it *)
(* ever is.                                                                *)
(***************************************************************************)
EXTENDS Integers

CONSTANT N

VARIABLES
  applied,   (* accesses the chip has carried out                           *)
  acked,     (* accesses the board knows to have been carried out           *)
  result     (* of the whole script                                         *)

vars == <<applied, acked, result>>

Init == applied = 0 /\ acked = 0 /\ result = "running"

Apply ==
  /\ applied = acked /\ applied < N
  /\ applied' = applied + 1
  /\ UNCHANGED <<acked, result>>

Acknowledge ==
  /\ result = "running" /\ acked < applied
  /\ acked' = acked + 1
  /\ UNCHANGED <<applied, result>>

Succeed ==
  /\ result = "running" /\ acked = N
  /\ result' = "ok"
  /\ UNCHANGED <<applied, acked>>

GiveUp ==
  /\ result = "running" /\ acked < N
  /\ result' = "failed"
  /\ UNCHANGED <<applied, acked>>

Next == Apply \/ Acknowledge \/ Succeed \/ GiveUp

Spec == Init /\ [][Next]_vars
=============================================================================
