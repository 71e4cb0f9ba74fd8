--------------------------- MODULE PayloadDecoder ---------------------------
(***************************************************************************)
(* What kernel_payload_load() promises its caller, arch_load_kernel(), for *)
(* a compressed payload, whatever the payload holds: the decoder writes a  *)
(* growing run of bytes from dst on, never more than dst_size of them, and *)
(* then returns once.  *out_size is stored only on success, and then it is *)
(* the number of bytes that were written.  The LZ4 decoder never reports    *)
(* success for nothing; the others do when that is what the payload holds. *)
(* A failure may leave a partial image behind: the caller must not use it. *)
(***************************************************************************)
EXTENDS Naturals, Sequences

CONSTANTS
  Errors,    (* the negative members of enum kernel_payload_error           *)
  OK,        (* KERNEL_PAYLOAD_OK                                           *)
  Running,   (* the value of ret before the decoder has returned            *)
  MayBeEmpty (* an empty result is a success                                *)

VARIABLES
  dstSize,   (* the dst_size the caller passed                              *)
  out,       (* the bytes written at dst so far                             *)
  ret,       (* the value returned                                          *)
  outSize    (* *out_size; 0 is the caller's initial value                  *)

decoderVars == <<dstSize, out, ret, outSize>>

Init ==
  /\ dstSize \in Nat
  /\ out = <<>>
  /\ ret = Running
  /\ outSize = 0

(* More bytes appear after the ones already there. *)
Produce ==
  /\ ret = Running
  /\ Len(out') > Len(out)
  /\ Len(out') <= dstSize
  /\ \A i \in 1..Len(out) : out'[i] = out[i]
  /\ UNCHANGED <<dstSize, ret, outSize>>

Succeed ==
  /\ ret = Running
  /\ out # <<>> \/ MayBeEmpty
  /\ ret' = OK
  /\ outSize' = Len(out)
  /\ UNCHANGED <<dstSize, out>>

Fail ==
  /\ ret = Running
  /\ ret' \in Errors
  /\ UNCHANGED <<dstSize, out, outSize>>

Next == Produce \/ Succeed \/ Fail

Spec == Init /\ [][Next]_decoderVars
=============================================================================
