------------------------------- MODULE Speedy -------------------------------
(***************************************************************************)
(* The LDOs of the dreamlte board, set through the SPEEDY bus: the caller  *)
(* s2mps17_setup, the driver, the bus controller and the PMIC.  The board  *)
(* only writes; a script may also read, as any caller of the driver may.   *)
(*                                                                         *)
(* The controller runs on its own.  It may finish a transfer after the     *)
(* driver has stopped waiting for it, or never; it may lose one and raise  *)
(* only error bits, which the driver does not look at.                     *)
(***************************************************************************)
EXTENDS Integers, Sequences, FiniteSetsExt

CONSTANTS
  Script,     (* the accesses: read or write, offset, value to be written   *)
  PollLimit,  (* how often INT_STATUS is read                               *)
  Stale,      (* what an earlier bootloader may have left in the FIFOs      *)
  Chip        (* what the PMIC's registers held before: offset to value     *)

Transfers == [read : BOOLEAN, offset : DOMAIN Chip, val : Nat]

ASSUME SpeedyAssumption ==
  /\ Chip \in [DOMAIN Chip -> Nat]
  /\ Script \in Seq(Transfers)
  /\ PollLimit \in Nat
  /\ Stale \subseteq Nat

VARIABLES
  pc,         (* the register access that the driver makes next             *)
  k,          (* i of s2mps17_setup                                         *)
  timeout,    (* polls that are left                                        *)
  ret,        (* what the driver has returned                               *)
  got,        (* what each access has returned: a read a value              *)
  cmd,        (* CMD, until the controller takes it: a set of at most one   *)
  fifo,       (* the TX FIFO                                                *)
  rx,         (* the RX FIFO                                                *)
  bus,        (* the transfer on the bus: a set of at most one              *)
  done,       (* SPEEDY_TRANSFER_DONE of INT_STATUS                         *)
  log         (* the accesses the PMIC has carried out, a read's with what  *)
              (* the register held                                          *)

driverVars == <<pc, k, timeout, ret, got>>
busVars    == <<cmd, fifo, rx, bus, done, log>>
vars == <<driverVars, busVars>>

LeftOver == {<<>>} \cup {<<v>> : v \in Stale}

(* The controller is idle when the loader starts; its FIFOs and its status *)
(* are as the last transfer has left them.                                 *)
Init ==
  /\ pc = "call" /\ k = 1 /\ timeout = 0 /\ ret = 0 /\ got = <<>>
  /\ cmd = {} /\ bus = {} /\ log = <<>>
  /\ fifo \in LeftOver /\ rx \in LeftOver
  /\ done \in BOOLEAN
-----------------------------------------------------------------------------
(* s2mps17_setup: the next LDO, unless all are set. *)
Setup ==
  /\ pc = "call"
  /\ pc' = IF k <= Len(Script) THEN "reset" ELSE "return"
  /\ UNCHANGED <<k, timeout, ret, got, busVars>>

AfterReset_Wrong(f) == f
AfterReset(f) == <<>>

(* speedy_fifo_reset, and the FIFOs' trigger levels *)
FifoReset ==
  /\ pc = "reset"
  /\ fifo' = AfterReset(fifo) /\ rx' = AfterReset(rx)
  /\ pc' = "clear"
  /\ UNCHANGED <<k, timeout, ret, got, cmd, bus, done, log>>

(* speedy_int_clear, after the interrupts have been chosen *)
IntClear ==
  /\ pc = "clear"
  /\ done' = FALSE
  /\ pc' = "cmd"
  /\ UNCHANGED <<k, timeout, ret, got, cmd, fifo, rx, bus, log>>

(* The command of a read is all there is to send. *)
ReadCmd ==
  /\ pc = "cmd" /\ Script[k].read
  /\ cmd' = {[read |-> TRUE, offset |-> Script[k].offset]}
  /\ timeout' = PollLimit
  /\ pc' = "poll"
  /\ UNCHANGED <<k, ret, got, fifo, rx, bus, done, log>>

(* The command of a write goes before its data. *)
WriteCmd ==
  /\ pc = "cmd" /\ ~Script[k].read
  /\ cmd' = {[read |-> FALSE, offset |-> Script[k].offset]}
  /\ pc' = "data"
  /\ UNCHANGED <<k, timeout, ret, got, fifo, rx, bus, done, log>>

TxData == Script[k].val

WriteData ==
  /\ pc = "data"
  /\ fifo' = Append(fifo, TxData)
  /\ timeout' = PollLimit
  /\ pc' = "poll"
  /\ UNCHANGED <<k, ret, got, cmd, rx, bus, done, log>>

PollsLeftStuck_Wrong == timeout
PollsLeft == timeout - 1

Expired == timeout = 0

Poll ==
  /\ pc = "poll" /\ ~Expired
  /\ timeout' = PollsLeft
  /\ pc' = IF done THEN "ack" ELSE "poll"
  /\ UNCHANGED <<k, ret, got, busVars>>

AckClear ==
  /\ pc = "ack"
  /\ done' = FALSE
  /\ IF Script[k].read
     THEN pc' = "rx" /\ UNCHANGED <<k, ret>>
          /\ UNCHANGED got
     ELSE pc' = "call" /\ k' = k + 1 /\ ret' = 0
          /\ got' = Append(got, <<>>)
  /\ UNCHANGED <<timeout, cmd, fifo, rx, bus, log>>

(* An empty FIFO reads as nothing. *)
ReadData ==
  /\ pc = "rx"
  /\ got' = Append(got, <<IF rx = <<>> THEN 0 ELSE Head(rx)>>)
  /\ rx' = IF rx = <<>> THEN rx ELSE Tail(rx)
  /\ ret' = 0
  /\ k' = k + 1
  /\ pc' = "call"
  /\ UNCHANGED <<timeout, cmd, fifo, bus, done, log>>

AfterFailureGoOn_Wrong == k' = k + 1 /\ pc' = "call"
AfterFailure == k' = k /\ pc' = "return"

(* The caller stops at the first transfer that is not known to be done. *)
TimeOut ==
  /\ pc = "poll" /\ Expired
  /\ ret' = -1
  /\ AfterFailure
  /\ UNCHANGED <<timeout, got, busVars>>

(* dreamlte_late_init returns 0 in either case: the boot goes on. *)
Booting == pc = "return" /\ UNCHANGED vars

Driver ==
  \/ Setup \/ FifoReset \/ IntClear \/ ReadCmd \/ WriteCmd \/ WriteData \/ Poll
  \/ AckClear \/ ReadData \/ TimeOut
-----------------------------------------------------------------------------
(* The controller and the PMIC *)

(* The register as the accesses so far have left it. *)
Held(offset) ==
  LET writes == {j \in DOMAIN log : ~log[j].read /\ log[j].offset = offset}
  IN  IF writes = {} THEN Chip[offset] ELSE log[Max(writes)].val

TakeRead ==
  \E c \in cmd :
    /\ c.read /\ bus = {}
    /\ bus' = {[read |-> TRUE, offset |-> c.offset, val |-> 0]}
    /\ cmd' = {}
    /\ UNCHANGED <<driverVars, fifo, rx, done, log>>

TakeWrite ==
  \E c \in cmd :
    /\ ~c.read /\ fifo # <<>> /\ bus = {}
    /\ bus' = {[read |-> FALSE, offset |-> c.offset, val |-> Head(fifo)]}
    /\ cmd' = {}
    /\ fifo' = Tail(fifo)
    /\ UNCHANGED <<driverVars, rx, done, log>>

CarriedOut(t) == IF t.read THEN [t EXCEPT !.val = Held(t.offset)] ELSE t

(* What was read is in the FIFO when the transfer is reported done. *)
Finish ==
  \E t \in bus :
    /\ log' = Append(log, CarriedOut(t))
    /\ rx' = IF t.read THEN Append(rx, Held(t.offset)) ELSE rx
    /\ done' = TRUE
    /\ bus' = {}
    /\ UNCHANGED <<driverVars, cmd, fifo>>

(* A transfer that ends in an error: the PMIC may have carried it out. *)
Lose ==
  \E t \in bus :
    /\ log' \in {log, Append(log, CarriedOut(t))}
    /\ bus' = {}
    /\ UNCHANGED <<driverVars, cmd, fifo, rx, done>>

Controller == TakeRead \/ TakeWrite \/ Finish \/ Lose

Next == Driver \/ Controller \/ Booting

Spec == Init /\ [][Next]_vars

(* The processor runs on; the controller owes nothing. *)
FairSpec == Spec /\ WF_vars(Driver)
-----------------------------------------------------------------------------
(* The variables have their types. *)
TypeOK ==
  /\ pc \in {"call", "reset", "clear", "cmd", "data", "poll", "ack", "rx", "return"}
  /\ k \in 1 .. Len(Script) + 1
  /\ timeout \in 0 .. PollLimit
  /\ ret \in {0, -1}
  /\ got \in Seq(Seq(Nat)) /\ Len(got) = k - 1
  /\ cmd \subseteq [read : BOOLEAN, offset : DOMAIN Chip]
  /\ \A c, d \in cmd : c = d
  /\ fifo \in Seq(Nat) /\ rx \in Seq(Nat)
  /\ bus \subseteq Transfers /\ \A t, u \in bus : t = u
  /\ done \in BOOLEAN
  /\ log \in Seq(Transfers)

(* The driver returns the values the PMIC has answered, one read each: not  *)
(* what a bootloader left in the FIFO, nor the answer to an earlier read.   *)
ReadsOwn ==
  /\ TypeOK
  /\ \A j \in 1 .. k - 1 :
       /\ j <= Len(log)
       /\ got[j] = IF Script[j].read THEN <<log[j].val>> ELSE <<>>

(* The access that the script asks for. *)
AsAsked(t, a) == t.read = a.read /\ t.offset = a.offset /\ (t.read \/ t.val = a.val)

(* -1 when the PMIC has carried out anything but the script. *)
Applied ==
  IF Len(log) <= Len(Script) /\ \A j \in DOMAIN log : AsAsked(log[j], Script[j])
  THEN Len(log) ELSE -1

Promise == INSTANCE DeviceScript
  WITH N <- Len(Script), applied <- Applied, acked <- k - 1,
       result <- IF pc # "return" THEN "running"
                 ELSE IF ret = 0 THEN "ok" ELSE "failed"

(* The registers are accessed in order, each as asked and once; a success is *)
(* the success of this very transfer, not of one before it nor of what a   *)
(* bootloader left; and after a transfer that timed out, at most that one  *)
(* is still carried out.                                                   *)
KeepsPromise == Promise!Spec

(* Whatever the controller does, or if it does nothing, the boot goes on. *)
Returns == <>(pc = "return")
=============================================================================
