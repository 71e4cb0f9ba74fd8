------------------------------ MODULE MCSpeedy ------------------------------
(* The three LDOs of the dreamlte board, at the offsets and with the values *)
(* its table computes; then a read of one of them, and of one register the  *)
(* loader has not written, before and after writing it.                     *)
EXTENDS Speedy

EnableMask == 192    (* S2MPS17_ENABLE_MASK, 3 << 6 *)

(* Microvolts, from a minimum in steps, below the mask. *)
Ldo(offset, voltage, min, step) ==
  [read |-> FALSE, offset |-> offset, val |-> EnableMask + (voltage - min) \div step]

Ldos ==
  <<Ldo(62, 2800000, 1800000, 25000),
    Ldo(95, 1850000, 700000, 25000),
    Ldo(96, 3000000, 1800000, 25000)>>

ReadOf(offset) == [read |-> TRUE, offset |-> offset, val |-> 0]

MCScript ==
  Ldos \o <<ReadOf(95), ReadOf(0), [read |-> FALSE, offset |-> 0, val |-> 2], ReadOf(0)>>

MCChip == [o \in {0, 62, 95, 96} |-> IF o = 0 THEN 1 ELSE 7]

MCStale == {0, 255}

(* The voltages are within the chip's six bits and are what was asked for. *)
ASSUME VoltagesFit ==
  /\ \A j \in DOMAIN Ldos : Ldos[j].val < 256
  /\ (Ldos[1].val - EnableMask) * 25000 + 1800000 = 2800000
  /\ (Ldos[2].val - EnableMask) * 25000 + 700000 = 1850000
  /\ (Ldos[3].val - EnableMask) * 25000 + 1800000 = 3000000
=============================================================================
