-------------------------------- MODULE Acpm --------------------------------
(***************************************************************************)
(* The mailbox to the power-management firmware of newer Exynos chips:     *)
(* the driver's SPMI calls (acpm_ipc_send_data_async, then                 *)
(* acpm_ipc_send_data_wait), a board that makes a script of them, and the  *)
(* firmware with the PMIC behind it.                                       *)
(*                                                                         *)
(* Requests and answers share four registers.  A request lies in SR0 and   *)
(* SR1, the bytes of a bulk write in SR2 and SR3; an answer lies in SR3,   *)
(* the bytes of a bulk read in SR0 and SR1.                                *)
(***************************************************************************)
EXTENDS Integers, Sequences

CONSTANTS
  Script,    (* the calls the board makes                                   *)
  Reg,       (* the registers of the PMIC                                   *)
  Byte       (* their values                                                *)

Funcs == {"read", "write", "bulk_read", "bulk_write"}

(* data is what a write carries; count what a bulk read asks for.  More *)
(* than eight bytes have no place in two registers.                     *)
IsRequest(r) ==
  /\ r.func \in Funcs /\ r.reg \in Reg /\ r.data \in Seq(Byte)
  /\ r.count \in 1 .. 8 /\ r.reg .. r.reg + r.count - 1 \subseteq Reg
  /\ r.func \in {"write", "bulk_write"} => Len(r.data) = r.count
  /\ r.func \in {"read", "write"} => r.count = 1

ASSUME AcpmAssumption ==
  /\ Reg \subseteq Nat /\ 0 \in Byte /\ Byte \subseteq 0 .. 255
  /\ Len(Script) \in Nat
  /\ \A j \in 1 .. Len(Script) : IsRequest(Script[j])

VARIABLES
  pc, k,     (* the register access that comes next, and of which call      *)
  reply,     (* what was read from SR3                                      *)
  got,       (* what the calls have given to the board                      *)
  sr,        (* SR0 to SR3                                                  *)
  doorbell,  (* INTGR0: a request is there                                  *)
  pending,   (* INTSR1: an answer is there                                  *)
  fw, job,   (* what the firmware does, and for which request               *)
  pmic,      (* the PMIC's registers                                        *)
  log        (* what the firmware has served                                *)

apVars  == <<pc, k, reply, got>>
fwVars  == <<fw, job, pmic, log>>
boxVars == <<sr, doorbell, pending>>
vars == <<apVars, fwVars, boxVars>>

Call == Script[k]

(* What a register holds: one half of a request, four bytes, or an answer. *)
Request0(r) == <<"request", r.reg>>
Request1(r) == <<"request", r.func, r.count, r.data>>
Bytes(f)    == <<"bytes", f>>
Answer(ok, dest) == <<"answer", ok, dest>>

(* set_bulk_protocol, read_bulk_protocol: byte i of a buffer is lane i of *)
(* the first word, or lane i - 4 of the second.                           *)
Pack(buf, first) ==
  Bytes([lane \in 0 .. 3 |->
           IF first + lane < Len(buf) THEN buf[first + lane + 1] ELSE 0])

SecondWord_Wrong == 5
SecondWord == 4

Unpack(count, low, high) ==
  [j \in 1 .. count |-> IF j <= 4 THEN low[2][j - 1] ELSE high[2][j - 1 - 4]]

(* The mailbox is idle when the loader starts, whatever it last carried. *)
Init ==
  /\ pc = "call" /\ k = 1 /\ reply = Answer(TRUE, 0) /\ got = <<>>
  /\ sr = [a \in 0 .. 3 |-> IF a = 3 THEN Answer(TRUE, 0) ELSE Pack(<<>>, 0)]
  /\ doorbell = FALSE /\ pending = FALSE
  /\ fw = "idle" /\ job = <<>> /\ log = <<>>
  /\ pmic = [r \in Reg |-> 0]
-----------------------------------------------------------------------------
(* The driver *)

Begin ==
  /\ pc = "call" /\ k <= Len(Script)
  /\ pc' = IF Call.func = "bulk_write" THEN "put2" ELSE "put0"
  /\ UNCHANGED <<k, reply, got, fwVars, boxVars>>

Return ==
  /\ pc = "call" /\ k > Len(Script)
  /\ pc' = "return"
  /\ UNCHANGED <<k, reply, got, fwVars, boxVars>>

Put(at, register, value, next) ==
  /\ pc = at
  /\ sr' = [sr EXCEPT ![register] = value]
  /\ pc' = next
  /\ UNCHANGED <<k, reply, got, fwVars, doorbell, pending>>

(* spmi_bulk_write lays its bytes down first, *)
PutBytes ==
  \/ Put("put2", 2, Pack(Call.data, 0), "put3")
  \/ Put("put3", 3, Pack(Call.data, SecondWord), "put0")

(* acpm_ipc_send_data_async the command, and only then rings. *)
PutCommand ==
  \/ Put("put0", 0, Request0(Call), "put1")
  \/ Put("put1", 1, Request1(Call), "ring")

Ring ==
  /\ pc = "ring"
  /\ doorbell' = TRUE
  /\ pc' = "wait"
  /\ UNCHANGED <<k, reply, got, fwVars, sr, pending>>

(* Clears the bit on every turn of the loop, not after it. *)
AwaitClearing_Wrong ==
  /\ pc = "wait"
  /\ pc' \in {"wait"} \cup (IF pending THEN {"clear"} ELSE {})
  /\ pending' = FALSE
  /\ UNCHANGED <<k, reply, got, fwVars, sr, doorbell>>

(* acpm_ipc_send_data_wait waits without a limit. *)
Await ==
  /\ pc = "wait" /\ pending
  /\ pc' = "clear"
  /\ UNCHANGED <<k, reply, got, fwVars, boxVars>>

PendingCleared_Wrong == pending
PendingCleared == FALSE

Clear ==
  /\ pc = "clear"
  /\ pending' = PendingCleared
  /\ pc' = "answer"
  /\ UNCHANGED <<k, reply, got, fwVars, sr, doorbell>>

EndCall(data) ==
  /\ got' = Append(got, data)
  /\ k' = k + 1
  /\ pc' = "call"

(* SR3.  A read takes the byte of the answer even if the call was refused; *)
(* only a bulk read looks at what the call returned.                       *)
ReadAnswer ==
  /\ pc = "answer"
  /\ reply' = sr[3]
  /\ \/ Call.func = "read" /\ EndCall(<<reply'[3]>>)
     \/ Call.func \in {"write", "bulk_write"} /\ EndCall(<<>>)
     \/ Call.func = "bulk_read" /\ ~reply'[2] /\ EndCall(<<>>)
     \/ /\ Call.func = "bulk_read" /\ reply'[2]
        /\ pc' = "bytes"
        /\ UNCHANGED <<k, got>>
  /\ UNCHANGED <<fwVars, boxVars>>

(* SR0 and SR1 *)
ReadBytes ==
  /\ pc = "bytes"
  /\ EndCall(Unpack(Call.count, sr[0], sr[1]))
  /\ UNCHANGED <<reply, fwVars, boxVars>>

Finished == pc = "return" /\ UNCHANGED vars

Driver ==
  \/ Begin \/ Return \/ PutBytes \/ PutCommand \/ Ring \/ Await \/ Clear
  \/ ReadAnswer \/ ReadBytes
-----------------------------------------------------------------------------
(* The firmware *)

Accept ==
  /\ fw = "idle" /\ doorbell
  /\ job' = <<sr[0], sr[1], sr[2], sr[3]>>
  /\ doorbell' = FALSE
  /\ fw' = "serve"
  /\ UNCHANGED <<apVars, pmic, log, sr, pending>>

JobFunc  == job[2][2]
JobReg   == job[1][2]
JobCount == job[2][3]

Written ==
  IF JobFunc = "write" THEN job[2][4] ELSE Unpack(JobCount, job[3], job[4])

Target == JobReg .. JobReg + JobCount - 1

(* The PMIC carries the access out, or refuses it. *)
Serve ==
  /\ fw = "serve"
  /\ \E ok \in BOOLEAN :
       /\ pmic' = IF ok /\ JobFunc \in {"write", "bulk_write"}
                  THEN [r \in Reg |-> IF r \in Target
                                      THEN Written[r - JobReg + 1] ELSE pmic[r]]
                  ELSE pmic
       /\ log' = Append(log, [func |-> JobFunc, reg |-> JobReg, ok |-> ok,
                              data |-> [j \in 1 .. JobCount |->
                                          pmic'[JobReg + j - 1]]])
  /\ fw' = "reply"
  /\ UNCHANGED <<apVars, boxVars, job>>

Served == log[Len(log)]

Reply ==
  /\ fw = "reply"
  /\ sr' = [a \in 0 .. 3 |->
              IF a = 3 THEN Answer(Served.ok, IF Served.ok THEN Served.data[1] ELSE 0)
              ELSE IF a < 2 /\ Served.func = "bulk_read" /\ Served.ok
                   THEN Pack(Served.data, 4 * a)
              ELSE sr[a]]
  /\ fw' = "interrupt"
  /\ UNCHANGED <<apVars, doorbell, pending, job, pmic, log>>

Interrupt ==
  /\ fw = "interrupt"
  /\ pending' = TRUE
  /\ fw' = "idle"
  /\ UNCHANGED <<apVars, sr, doorbell, job, pmic, log>>

Firmware == Accept \/ Serve \/ Reply \/ Interrupt

Next == Driver \/ Firmware \/ Finished

Spec == Init /\ [][Next]_vars

(* The boot CPU runs on, and the firmware owes an answer in the end.  The *)
(* driver's wait has no limit: without the second nothing would return.   *)
FairSpec == Spec /\ WF_vars(Driver) /\ WF_vars(Firmware)
-----------------------------------------------------------------------------
(* The variables have their types. *)
TypeOK ==
  /\ pc \in {"call", "put2", "put3", "put0", "put1", "ring", "wait", "clear",
             "answer", "bytes", "return"}
  /\ k \in 1 .. Len(Script) + 1
  /\ Len(got) = k - 1
  /\ reply[1] = "answer" /\ reply[2] \in BOOLEAN /\ reply[3] \in Byte
  /\ \A a \in 0 .. 3 : sr[a][1] \in {"request", "bytes", "answer"}
  /\ doorbell \in BOOLEAN /\ pending \in BOOLEAN
  /\ fw \in {"idle", "serve", "reply", "interrupt"}
  /\ pmic \in [Reg -> Byte]

(* What the board meant, and what of it the firmware has been asked for: -1 *)
(* when that is anything but the beginning of the script.                   *)
AsAsked(j) ==
  /\ log[j].func = Script[j].func /\ log[j].reg = Script[j].reg
  /\ Len(log[j].data) = Script[j].count
  /\ log[j].ok /\ log[j].func \in {"write", "bulk_write"}
       => log[j].data = Script[j].data

ServedInOrder ==
  IF Len(log) <= Len(Script) /\ \A j \in 1 .. Len(log) : AsAsked(j)
  THEN Len(log) ELSE -1

Promise == INSTANCE DeviceScript
  WITH N <- Len(Script), applied <- ServedInOrder, acked <- k - 1,
       result <- IF pc = "return" THEN "ok" ELSE "running"

(* Every call is served once, in order and with its own register and bytes, *)
(* and no call returns before it is served: no answer is taken twice, none  *)
(* is left over for the next call, no request overwrites one that has not   *)
(* been read.                                                               *)
KeepsPromise == Promise!Spec

(* What a read gives to the board is what the PMIC's registers held when    *)
(* this very call was served, each byte of a bulk read in its place.        *)
AnswerIsOwn ==
  /\ TypeOK
  /\ \A j \in 1 .. k - 1 :
       /\ j <= Len(log)
       /\ log[j].func \in {"read", "bulk_read"} /\ log[j].ok
            => got[j] = log[j].data

(* Firmware that answers each request, however late, is enough for every    *)
(* call to return: no answer is wiped out by the driver before it has been  *)
(* seen, and no doorbell goes unheard.                                      *)
Returns == <>(pc = "return")
=============================================================================
