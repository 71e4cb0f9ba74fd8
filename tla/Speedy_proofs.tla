--------------------------- MODULE Speedy_proofs ---------------------------
(***************************************************************************)
(* Theorems about Speedy, for every script, every limit of polls and every *)
(* PMIC: the registers are accessed as the script asks, one access after   *)
(* the other, whatever the controller does and whenever it does it; and a  *)
(* read returns what its own access found.                                 *)
(***************************************************************************)
EXTENDS Speedy, TLAPS, WellFoundedInduction

(* Where a transfer may have got to, once its command is written. *)
Asked == Script[k]

Idle == cmd = {} /\ bus = {}

Commanded ==
  /\ cmd = {[read |-> Asked.read, offset |-> Asked.offset]} /\ bus = {}
  /\ Len(log) = k - 1 /\ ~done /\ rx = <<>>

Waiting == Commanded /\ (~Asked.read => fifo = <<TxData>>)

OnBus ==
  /\ cmd = {} /\ bus # {} /\ \A t \in bus : AsAsked(t, Asked)
  /\ Len(log) = k - 1 /\ ~done /\ rx = <<>>

Finished ==
  /\ Idle /\ Len(log) = k
  /\ Asked.read => rx = <<log[k].val>>

Lost == Idle /\ Len(log) \in {k - 1, k} /\ ~done

InFlight == Waiting \/ OnBus \/ (Finished /\ done) \/ Lost

(* What is known in each phase of the driver. *)
Phase ==
  /\ pc \in {"reset", "clear", "cmd", "data", "poll", "ack", "rx"} => k <= Len(Script)
  /\ pc # "return" => ret = 0
  /\ pc \in {"call", "reset", "clear", "cmd"} => Idle /\ Len(log) = k - 1
  /\ pc \in {"clear", "cmd"} => fifo = <<>> /\ rx = <<>>
  /\ pc = "cmd" => ~done
  /\ pc = "data" => Commanded /\ ~Asked.read /\ fifo = <<>>
  /\ pc = "poll" => InFlight
  /\ pc \in {"ack", "rx"} => Finished
  /\ pc = "rx" => Asked.read
  /\ pc = "return" => IF ret = 0 THEN k = Len(Script) + 1 /\ Idle /\ Len(log) = k - 1
                      ELSE k <= Len(Script) /\ InFlight

(* The PMIC has carried out a beginning of the script. *)
LogRight == \A j \in 1 .. Len(log) : j <= Len(Script) /\ AsAsked(log[j], Script[j])

Inv == ReadsOwn /\ Phase /\ LogRight
-----------------------------------------------------------------------------
(* A set of natural numbers that is not empty has a least one, *)
LEMMA LeastNumber ==
  ASSUME NEW S, S \subseteq Nat, S # {}
  PROVE  \E m \in S : \A y \in S : m <= y
<1>1. PICK m \in S : \A y \in S : ~ (<<y, m>> \in OpToRel(<, Nat))
  BY NatLessThanWellFounded, WFMin
<1>2. ASSUME NEW y \in S PROVE m <= y
  <2>1. m \in Nat /\ y \in Nat
    OBVIOUS
  <2>2. ~ (y < m)
    BY <1>1, <2>1 DEF OpToRel
  <2>. QED  BY <2>1, <2>2
<1>. QED  BY <1>2

(* and one that is bounded has a greatest. *)
LEMMA MaxInside ==
  ASSUME NEW n \in Nat, NEW S, S \subseteq 1 .. n, S # {}
  PROVE  Max(S) \in S
<1>. DEFINE T == {n - i : i \in S}
<1>0. \A i \in S : i \in 1 .. n
  OBVIOUS
<1>1. T \subseteq Nat /\ T # {}
  <2>1. \A i \in 1 .. n : n - i \in Nat
    OBVIOUS
  <2>. QED  BY <1>0, <2>1
<1>2. PICK m \in T : \A y \in T : m <= y
  BY <1>1, LeastNumber
<1>3. PICK i \in S : m = n - i
  OBVIOUS
<1>4. ASSUME NEW y \in S PROVE i >= y
  <2>1. y \in 1 .. n /\ i \in 1 .. n
    BY <1>0
  <2>2. n - y \in T
    OBVIOUS
  <2>3. n - i <= n - y
    BY <1>2, <1>3, <2>2
  <2>. QED  BY <2>1, <2>3
<1>. QED  BY <1>4 DEF Max

(* What a register holds is a number. *)
LEMMA HeldNumber ==
  ASSUME TypeOK, NEW o \in DOMAIN Chip
  PROVE  Held(o) \in Nat
<1>. DEFINE writes == {j \in DOMAIN log : ~log[j].read /\ log[j].offset = o}
<1>1. CASE writes = {}
  BY <1>1, SpeedyAssumption DEF Held
<1>2. CASE writes # {}
  <2>1. Len(log) \in Nat /\ writes \subseteq 1 .. Len(log) /\ DOMAIN log = 1 .. Len(log)
    BY DEF TypeOK
  <2>2. Max(writes) \in writes
    BY <1>2, <2>1, MaxInside
  <2>3. \A j \in DOMAIN log : log[j].val \in Nat
    <3>1. \A j \in DOMAIN log : log[j] \in Transfers
      BY DEF TypeOK
    <3>. QED  BY <3>1 DEF Transfers
  <2>4. Held(o) = log[Max(writes)].val
    BY <1>2 DEF Held
  <2>. QED  BY <2>1, <2>2, <2>3, <2>4
<1>. QED  BY <1>1, <1>2

LEMMA CarriedOutTyped ==
  ASSUME TypeOK, NEW t \in bus
  PROVE  /\ t \in Transfers /\ CarriedOut(t) \in Transfers
         /\ t.read => CarriedOut(t).val = Held(t.offset)
         /\ \A a : AsAsked(t, a) => AsAsked(CarriedOut(t), a)
<1>1. t \in Transfers
  BY DEF TypeOK
<1>2. Held(t.offset) \in Nat
  BY <1>1, HeldNumber DEF Transfers
<1>. QED  BY <1>1, <1>2 DEF Transfers, CarriedOut, AsAsked

(* The access that is asked for. *)
LEMMA AskedTyped == ASSUME k \in 1 .. Len(Script) PROVE Asked \in Transfers
BY SpeedyAssumption DEF Asked

LEMMA InitInv == Init => Inv
<1>. SUFFICES ASSUME Init PROVE Inv
  OBVIOUS
<1>1. fifo \in Seq(Nat) /\ rx \in Seq(Nat)
  <2>1. \A v \in Stale : <<v>> \in Seq(Nat)
    BY SpeedyAssumption
  <2>2. <<>> \in Seq(Nat)
    OBVIOUS
  <2>3. \A f \in LeftOver : f \in Seq(Nat)
    BY <2>1, <2>2 DEF LeftOver
  <2>. QED  BY <2>3 DEF Init
<1>2. TypeOK
  BY <1>1, SpeedyAssumption DEF Init, TypeOK
<1>3. Phase /\ LogRight
  BY DEF Init, Phase, LogRight, Idle
<1>. QED  BY <1>2, <1>3 DEF Init, Inv, ReadsOwn

(* One action at a time. *)
LEMMA TypeStep == ASSUME Inv, Next PROVE TypeOK'
<1>. USE DEF Inv, ReadsOwn
<1>1. k \in Nat /\ Len(Script) \in Nat
  BY SpeedyAssumption DEF TypeOK
<1>2. pc \in {"reset", "clear", "cmd", "data", "poll", "ack", "rx"}
        => Asked \in Transfers /\ k + 1 \in 1 .. Len(Script) + 1
  BY <1>1, AskedTyped DEF Phase, TypeOK
<1>3. CASE Setup
  BY <1>3 DEF Setup, TypeOK, busVars
<1>4. CASE FifoReset \/ IntClear
  <2>1. fifo \in Seq(Nat) /\ rx \in Seq(Nat) /\ <<>> \in Seq(Nat)
    BY DEF TypeOK
  <2>2. fifo' \in Seq(Nat) /\ rx' \in Seq(Nat)
    BY <1>4, <2>1 DEF FifoReset, IntClear, AfterReset
  <2>. QED  BY <1>4, <2>2 DEF FifoReset, IntClear, TypeOK
<1>5. CASE ReadCmd
  <2>1. cmd' \subseteq [read : BOOLEAN, offset : DOMAIN Chip] /\ \A c, e \in cmd' : c = e
    BY <1>2, <1>5 DEF ReadCmd, Asked, Transfers
  <2>. QED  BY <1>5, <2>1, SpeedyAssumption DEF ReadCmd, TypeOK
<1>6. CASE WriteCmd
  BY <1>2, <1>6 DEF WriteCmd, TypeOK, Asked, Transfers
<1>7. CASE WriteData
  <2>1. TxData \in Nat
    BY <1>2, <1>7 DEF WriteData, TxData, Asked, Transfers
  <2>. QED  BY <1>7, <2>1, SpeedyAssumption DEF WriteData, TypeOK
<1>8. CASE Poll
  BY SMTT(30), <1>8, SpeedyAssumption DEF Poll, Expired, PollsLeft, TypeOK, busVars
<1>9. CASE AckClear
  <2>1. CASE Script[k].read
    BY <1>9, <2>1 DEF AckClear, TypeOK
  <2>2. CASE ~Script[k].read
    <3>1. got \in Seq(Seq(Nat)) /\ <<>> \in Seq(Nat) /\ Len(got) = k - 1
      BY DEF TypeOK
    <3>2. got' = Append(got, <<>>) /\ k' = k + 1 /\ pc' = "call" /\ ret' = 0 /\ done' = FALSE
          /\ UNCHANGED <<timeout, cmd, fifo, rx, bus, log>>
      BY <1>9, <2>2 DEF AckClear
    <3>3. got' \in Seq(Seq(Nat)) /\ Len(got') = k' - 1
      BY <1>1, <3>1, <3>2
    <3>4. k' \in 1 .. Len(Script) + 1
      BY <1>2, <1>9, <3>2 DEF AckClear
    <3>. QED  BY <3>2, <3>3, <3>4 DEF TypeOK
  <2>. QED  BY <2>1, <2>2
<1>10. CASE ReadData
  <2>1. (IF rx = <<>> THEN 0 ELSE Head(rx)) \in Nat
    BY DEF TypeOK
  <2>2. rx' \in Seq(Nat)
    BY <1>10 DEF ReadData, TypeOK
  <2>3. got' \in Seq(Seq(Nat)) /\ Len(got') = Len(got) + 1
    BY <1>10, <2>1 DEF ReadData, TypeOK
  <2>. QED  BY <1>1, <1>2, <1>10, <2>2, <2>3 DEF ReadData, TypeOK
<1>11. CASE TimeOut
  BY <1>11 DEF TimeOut, AfterFailure, TypeOK, busVars
<1>12. CASE TakeRead
  BY <1>12 DEF TakeRead, TypeOK, Transfers, driverVars
<1>13. CASE TakeWrite
  BY <1>13 DEF TakeWrite, TypeOK, Transfers, driverVars
<1>14. CASE Finish
  <2>1. PICK t \in bus : /\ log' = Append(log, CarriedOut(t))
                         /\ rx' = IF t.read THEN Append(rx, Held(t.offset)) ELSE rx
    BY <1>14 DEF Finish
  <2>2. CarriedOut(t) \in Transfers /\ Held(t.offset) \in Nat
    BY CarriedOutTyped, HeldNumber DEF TypeOK, Transfers
  <2>3. log' \in Seq(Transfers) /\ rx' \in Seq(Nat)
    BY <2>1, <2>2 DEF TypeOK
  <2>. QED  BY <1>14, <2>3 DEF Finish, TypeOK, driverVars
<1>15. CASE Lose
  <2>1. PICK t \in bus : log' \in {log, Append(log, CarriedOut(t))}
    BY <1>15 DEF Lose
  <2>2. CarriedOut(t) \in Transfers
    BY CarriedOutTyped
  <2>3. log' \in Seq(Transfers)
    <3>1. log \in Seq(Transfers) /\ Append(log, CarriedOut(t)) \in Seq(Transfers)
      BY <2>2 DEF TypeOK
    <3>. QED  BY <2>1, <3>1
  <2>. QED  BY <1>15, <2>3 DEF Lose, TypeOK, driverVars
<1>16. CASE Booting
  BY <1>16 DEF Booting, vars, driverVars, busVars, TypeOK
<1>. QED
  BY <1>3, <1>4, <1>5, <1>6, <1>7, <1>8, <1>9, <1>10, <1>11, <1>12, <1>13, <1>14,
     <1>15, <1>16 DEF Next, Driver, Controller

(* Nothing that was logged or returned ever changes. *)
LEMMA LogKept ==
  ASSUME Inv, Next
  PROVE  /\ Len(log') \in {Len(log), Len(log) + 1}
         /\ \A j \in 1 .. Len(log) : log'[j] = log[j]
         /\ Len(log') # Len(log) =>
              /\ pc' = pc /\ k' = k /\ ret' = ret /\ got' = got
              /\ \E t \in bus : log'[Len(log')] = CarriedOut(t)
<1>0. log \in Seq(Transfers)
  BY DEF Inv, ReadsOwn, TypeOK
<1>1. CASE Finish \/ Lose
  <2>1. PICK t \in bus : log' \in {log, Append(log, CarriedOut(t))}
    BY <1>1 DEF Finish, Lose
  <2>. QED  BY <1>0, <1>1, <2>1 DEF Finish, Lose, driverVars
<1>2. CASE log' = log
  BY <1>0, <1>2
<1>. QED
  BY <1>1, <1>2 DEF Next, Driver, Controller, Setup, FifoReset, IntClear, ReadCmd,
     WriteCmd, WriteData, Poll, AckClear, ReadData, TimeOut, TakeRead, TakeWrite,
     Booting, busVars, vars

LEMMA PhaseStep == ASSUME Inv, Next PROVE Phase'
<1>. USE DEF Inv, ReadsOwn
<1>1. k \in 1 .. Len(Script) + 1 /\ Len(Script) \in Nat /\ log \in Seq(Transfers)
      /\ pc \in {"call", "reset", "clear", "cmd", "data", "poll", "ack", "rx", "return"}
  BY SpeedyAssumption DEF TypeOK
<1>2. k <= Len(Script) => Asked.read \in BOOLEAN
  BY <1>1, AskedTyped DEF Transfers
<1>3. CASE Setup
  BY <1>1, <1>3 DEF Setup, Phase, Idle, busVars
<1>4. CASE FifoReset \/ IntClear
  BY <1>1, <1>4 DEF FifoReset, IntClear, AfterReset, Phase, Idle
<1>5. CASE ReadCmd
  BY <1>1, <1>5 DEF ReadCmd, Phase, Idle, Asked, InFlight, Waiting, Commanded
<1>6. CASE WriteCmd
  <2>1. Idle /\ Len(log) = k - 1 /\ fifo = <<>> /\ rx = <<>> /\ ~done /\ ret = 0
        /\ k <= Len(Script) /\ ~Asked.read
    BY <1>6 DEF WriteCmd, Phase, Asked
  <2>2. (Commanded /\ ~Asked.read /\ fifo = <<>>)'
    BY <1>2, <1>6, <2>1 DEF WriteCmd, Commanded, Idle, Asked
  <2>. QED  BY <1>6, <2>1, <2>2 DEF WriteCmd, Phase
<1>7. CASE WriteData
  BY <1>1, <1>7 DEF WriteData, Phase, Asked, InFlight, Waiting, Commanded, TxData
<1>8. CASE Poll
  BY <1>1, <1>8 DEF Poll, Phase, Asked, InFlight, Waiting, OnBus, Lost, Finished,
     Commanded, TxData, busVars, Idle
<1>9. CASE AckClear
  BY <1>1, <1>9 DEF AckClear, Phase, Asked, Finished, Idle
<1>10. CASE ReadData
  BY <1>1, <1>10 DEF ReadData, Phase, Finished, Idle
<1>11. CASE TimeOut
  BY <1>1, <1>11 DEF TimeOut, AfterFailure, Phase, Asked, InFlight, Waiting, OnBus, Lost,
     Finished, Commanded, TxData, busVars, Idle
<1>12. CASE TakeRead \/ TakeWrite
  <2>1. cmd # {} /\ bus = {} /\ cmd' = {} /\ bus' # {}
        /\ UNCHANGED <<pc, k, ret, rx, done, log>>
    BY <1>12 DEF TakeRead, TakeWrite, driverVars
  <2>2. Waiting /\ pc \in {"poll", "return"}
    BY <1>1, <1>12, <2>1 DEF Phase, Idle, Commanded, InFlight, OnBus, Finished, Lost,
       TakeRead, TakeWrite
  <2>5. k <= Len(Script) /\ (pc = "return" => ret # 0)
    BY <1>1, <2>1, <2>2 DEF Phase, Idle
  <2>3. \A t \in bus' : AsAsked(t, Asked)
    <3>0. Asked.read \in BOOLEAN
      BY <1>2, <2>5
    <3>1. PICK c \in cmd :
            \/ c.read /\ bus' = {[read |-> TRUE, offset |-> c.offset, val |-> 0]}
            \/ ~c.read /\ fifo # <<>> /\ bus' = {[read |-> FALSE, offset |-> c.offset,
                                                val |-> Head(fifo)]}
      BY <1>12 DEF TakeRead, TakeWrite
    <3>2. c.read = Asked.read /\ c.offset = Asked.offset
      BY <2>2 DEF Waiting, Commanded
    <3>3. ~Asked.read => Head(fifo) = Asked.val
      BY <2>2 DEF Waiting, TxData, Asked
    <3>4. ASSUME NEW t \in bus'
          PROVE  t.read = Asked.read /\ t.offset = Asked.offset
                 /\ (~Asked.read => t.val = Asked.val)
      <4>0. c.read \in BOOLEAN
        BY <3>0, <3>2
      <4>1. CASE c.read
        <5>1. Asked.read = TRUE
          BY <3>0, <3>2, <4>1
        <5>2. t = [read |-> TRUE, offset |-> c.offset, val |-> 0]
          BY <3>1, <4>1
        <5>. QED  BY <3>2, <5>1, <5>2
      <4>2. CASE ~c.read
        <5>1. Asked.read = FALSE
          BY <3>0, <3>2, <4>2
        <5>2. t = [read |-> FALSE, offset |-> c.offset, val |-> Head(fifo)]
          BY <3>1, <4>2
        <5>. QED  BY <3>2, <3>3, <5>1, <5>2
      <4>. QED  BY <4>1, <4>2
    <3>. QED  BY <3>0, <3>4 DEF AsAsked
  <2>4. OnBus'
    BY <2>1, <2>2, <2>3 DEF Waiting, Commanded, OnBus, Asked
  <2>. QED  BY <1>1, <2>1, <2>2, <2>4, <2>5 DEF Phase, InFlight
<1>13. CASE Finish \/ Lose
  <2>1. bus # {} /\ bus' = {} /\ UNCHANGED <<pc, k, ret, cmd>>
    BY <1>13 DEF Finish, Lose, driverVars
  <2>2. OnBus /\ pc \in {"poll", "return"}
    BY <1>1, <2>1 DEF Phase, Idle, Commanded, InFlight, Waiting, Finished, Lost
  <2>3. (Finished /\ done)' \/ Lost'
    <3>1. CASE Finish
      <4>1. PICK t \in bus : /\ log' = Append(log, CarriedOut(t))
                             /\ rx' = IF t.read THEN Append(rx, Held(t.offset)) ELSE rx
        BY <3>1 DEF Finish
      <4>2. t.read = Asked.read /\ (t.read => CarriedOut(t).val = Held(t.offset))
        BY <2>2, CarriedOutTyped DEF OnBus, AsAsked
      <4>3. Len(log') = k /\ log'[k] = CarriedOut(t)
        BY <1>1, <2>2, <4>1 DEF OnBus
      <4>4. Asked.read => rx' = <<log'[k].val>>
        BY <2>2, <4>1, <4>2, <4>3 DEF OnBus
      <4>. QED  BY <2>1, <2>2, <3>1, <4>3, <4>4 DEF Finish, Finished, Idle, OnBus, Asked
    <3>2. CASE Lose
      BY <1>1, <2>1, <2>2, <3>2 DEF Lose, Lost, Idle, OnBus
    <3>. QED  BY <1>13, <3>1, <3>2
  <2>4. k <= Len(Script) /\ (pc = "return" => ret # 0)
    BY <1>1, <2>1, <2>2 DEF Phase, Idle
  <2>. QED  BY <1>1, <2>1, <2>2, <2>3, <2>4 DEF Phase, InFlight
<1>14. CASE Booting
  BY <1>14 DEF Booting, vars, driverVars, busVars, Phase, Idle, InFlight, Waiting, OnBus,
     Finished, Lost, Commanded, Asked, TxData
<1>. QED
  BY <1>3, <1>4, <1>5, <1>6, <1>7, <1>8, <1>9, <1>10, <1>11, <1>12, <1>13, <1>14
  DEF Next, Driver, Controller

LEMMA LogStep == ASSUME Inv, Next PROVE LogRight'
<1>1. log \in Seq(Transfers) /\ log' \in Seq(Transfers) /\ Len(log) \in Nat
  BY TypeStep DEF Inv, ReadsOwn, TypeOK
<1>2. CASE Len(log') = Len(log)
  BY <1>1, <1>2, LogKept DEF LogRight, Inv
<1>3. CASE Len(log') # Len(log)
  <2>1. PICK t \in bus : log'[Len(log')] = CarriedOut(t)
    BY <1>3, LogKept
  <2>2. OnBus /\ k <= Len(Script)
    BY <2>1 DEF Inv, Phase, Idle, InFlight, Waiting, Commanded, Finished, Lost, ReadsOwn, TypeOK
  <2>3. k = Len(log) + 1 /\ AsAsked(CarriedOut(t), Script[k])
    BY <1>1, <2>1, <2>2, CarriedOutTyped, SpeedyAssumption DEF OnBus, Asked, Inv, ReadsOwn, TypeOK
  <2>4. Len(log') = k
    BY <1>1, <1>3, <2>3, LogKept
  <2>5. AsAsked(log'[k], Script[k])
    BY <2>1, <2>3, <2>4
  <2>. QED  BY <1>1, <2>2, <2>3, <2>4, <2>5, LogKept DEF LogRight, Inv
<1>. QED  BY <1>2, <1>3

(* Only the end of an access adds to what has been returned. *)
LEMMA ReturnStep == ASSUME Inv, Next PROVE ReadsOwn'
<1>. USE DEF Inv
<1>1. /\ k \in Nat /\ k' \in Nat /\ Len(log) \in Nat /\ Len(log') \in Nat
      /\ got \in Seq(Seq(Nat)) /\ Len(got) = k - 1 /\ TypeOK'
  BY SMTT(30), TypeStep DEF ReadsOwn, TypeOK
<1>2. CASE k' = k /\ got' = got
  <2>1. /\ Len(log) <= Len(log')
        /\ \A j \in 1 .. Len(log) : log'[j] = log[j]
    BY <1>1, LogKept
  <2>2. ASSUME NEW j \in 1 .. k - 1
        PROVE  /\ j <= Len(log')
               /\ got[j] = IF Script[j].read THEN <<log'[j].val>> ELSE <<>>
    <3>1. j <= Len(log) /\ got[j] = IF Script[j].read THEN <<log[j].val>> ELSE <<>>
      BY DEF ReadsOwn
    <3>2. j \in 1 .. Len(log)
      BY <1>1, <3>1
    <3>3. log'[j] = log[j] /\ j <= Len(log')
      BY <1>1, <2>1, <3>2
    <3>. QED  BY <3>1, <3>3
  <2>. QED  BY <1>1, <1>2, <2>2 DEF ReadsOwn
<1>3. CASE AckClear \/ ReadData
  <2>1. CASE k' = k /\ got' = got
    BY <1>2, <2>1
  <2>2. CASE ~(k' = k /\ got' = got)
    <3>1. k' = k + 1 /\ log' = log /\ Finished
      BY <1>1, <1>3, <2>2 DEF AckClear, ReadData, Phase
    <3>2. PICK v : v = (IF Script[k].read THEN <<log[k].val>> ELSE <<>>) /\ got' = Append(got, v)
      <4>1. CASE AckClear
        BY <2>2, <4>1 DEF AckClear
      <4>2. CASE ReadData
        BY <3>1, <4>2 DEF ReadData, Finished, Phase, Asked
      <4>. QED  BY <1>3, <4>1, <4>2
    <3>3. got'[k] = v /\ \A j \in 1 .. k - 1 : got'[j] = got[j]
      BY <1>1, <3>2
    <3>. QED  BY <1>1, <3>1, <3>2, <3>3 DEF ReadsOwn, Finished
  <2>. QED  BY <2>1, <2>2
<1>. QED
  BY <1>2, <1>3 DEF Next, Driver, Controller, Setup, FifoReset, IntClear, ReadCmd,
     WriteCmd, WriteData, Poll, TimeOut, AfterFailure, TakeRead, TakeWrite, Finish, Lose,
     Booting, driverVars, vars

LEMMA Kept == ASSUME Inv, UNCHANGED vars PROVE Inv'
<1>1. UNCHANGED <<pc, k, timeout, ret, got, cmd, fifo, rx, bus, done, log>>
  BY DEF vars, driverVars, busVars
<1>2. ReadsOwn /\ Phase /\ LogRight
  BY DEF Inv
<1>3. ReadsOwn'
  BY <1>1, <1>2 DEF ReadsOwn, TypeOK
<1>4. Phase'
  BY <1>1, <1>2 DEF Phase, Idle, InFlight, Waiting, OnBus, Finished, Lost, Commanded, Asked,
     TxData
<1>5. LogRight'
  BY <1>1, <1>2 DEF LogRight
<1>. QED  BY <1>3, <1>4, <1>5 DEF Inv

(* The inductive invariant. *)
THEOREM Invariance == Spec => []Inv
<1>1. Inv /\ [Next]_vars => Inv'
  BY Kept, PhaseStep, LogStep, ReturnStep DEF Inv
<1>. QED  BY InitInv, <1>1, PTL DEF Spec

(* Every access returns what the PMIC has answered to it, and a read nothing *)
(* that a bootloader or an earlier access has left in the FIFO: speedy_read  *)
(* and speedy_write of exynos-speedy.c.                                      *)
THEOREM ReadsWhatIsThere == Spec => []ReadsOwn
<1>1. Inv => ReadsOwn
  BY DEF Inv
<1>. QED  BY <1>1, Invariance, PTL
-----------------------------------------------------------------------------
LEMMA AppliedIsLog == Inv => Applied = Len(log)
<1>. SUFFICES ASSUME Inv PROVE Applied = Len(log)
  OBVIOUS
<1>1. log \in Seq(Transfers) /\ Len(log) \in Nat /\ Len(Script) \in Nat
  BY SpeedyAssumption DEF Inv, ReadsOwn, TypeOK
<1>2. Len(log) <= Len(Script)
  BY <1>1 DEF Inv, LogRight
<1>. QED  BY <1>1, <1>2 DEF Applied, Inv, LogRight

(* s2mps17_setup and the driver below it implement DeviceScript: the PMIC's  *)
(* registers are accessed in order and once each, none before the one before *)
(* it is known to be done, and success is reported of what has happened.     *)
THEOREM KeepsItsPromise == Spec => KeepsPromise
<1>1. Init => Promise!Init
  <2>. SUFFICES ASSUME Init PROVE Promise!Init
    OBVIOUS
  <2>1. Applied = 0
    BY InitInv, AppliedIsLog DEF Init
  <2>. QED  BY <2>1 DEF Init, Promise!Init
<1>2. Inv /\ Inv' /\ [Next]_vars => [Promise!Next]_(Promise!vars)
  <2>. SUFFICES ASSUME Inv, Inv', [Next]_vars
       PROVE  Promise!Next \/ UNCHANGED Promise!vars
    OBVIOUS
  <2>. DEFINE Result == IF pc # "return" THEN "running"
                        ELSE IF ret = 0 THEN "ok" ELSE "failed"
  <2>1. Applied = Len(log) /\ Applied' = Len(log')
    <3>1. (Inv => Applied = Len(log))'
      BY AppliedIsLog, PTL
    <3>. QED  BY <3>1, AppliedIsLog
  <2>2. /\ k \in 1 .. Len(Script) + 1 /\ Len(Script) \in Nat /\ Len(log) \in Nat
        /\ Len(log') \in Nat
    <3>1. log \in Seq(Transfers) /\ log' \in Seq(Transfers)
      BY DEF Inv, ReadsOwn, TypeOK
    <3>2. k \in 1 .. Len(Script) + 1
      BY DEF Inv, ReadsOwn, TypeOK
    <3>. QED  BY <3>1, <3>2, SpeedyAssumption
  <2>3. CASE Len(log') # Len(log)
    <3>1. Next
      BY <2>3 DEF vars, busVars
    <3>2. pc' = pc /\ k' = k /\ ret' = ret /\ Len(log') = Len(log) + 1 /\ bus # {}
      BY <2>3, <3>1, LogKept
    <3>3. OnBus /\ k <= Len(Script)
      BY <3>2, <2>2 DEF Inv, Phase, Idle, InFlight, Waiting, Commanded, Finished, Lost,
         ReadsOwn, TypeOK
    <3>4. Len(log) = k - 1
      BY <3>3 DEF OnBus
    <3>. QED  BY <2>1, <2>2, <3>2, <3>3, <3>4 DEF Promise!Next, Promise!Apply
  <2>4. CASE Len(log') = Len(log) /\ k' # k
    <3>1. AckClear \/ ReadData
      BY <2>4 DEF Next, Driver, Controller, Setup, FifoReset, IntClear, ReadCmd,
         WriteCmd, WriteData, Poll, TimeOut, AfterFailure, TakeRead, TakeWrite, Finish,
         Lose, Booting, driverVars, vars
    <3>2. pc # "return" /\ pc' # "return" /\ k' = k + 1 /\ Len(log) = k
      BY <2>4, <3>1 DEF AckClear, ReadData, Inv, Phase, Finished
    <3>. QED  BY <2>1, <2>2, <2>4, <3>2 DEF Promise!Next, Promise!Acknowledge
  <2>5. CASE Len(log') = Len(log) /\ k' = k
    <3>1. CASE Setup
      <4>1. Result = "running" /\ Result' = IF k <= Len(Script) THEN "running" ELSE "ok"
        BY <2>2, <3>1 DEF Setup, Inv, Phase
      <4>. QED  BY <2>1, <2>2, <2>5, <4>1 DEF Promise!Next, Promise!Succeed, Promise!vars
    <3>2. CASE TimeOut
      <4>1. Result = "running" /\ Result' = "failed" /\ k <= Len(Script)
        BY <3>2 DEF TimeOut, AfterFailure, Inv, Phase
      <4>. QED  BY <2>1, <2>2, <2>5, <4>1 DEF Promise!Next, Promise!GiveUp
    <3>3. CASE Result' = Result
      BY <2>1, <2>5, <3>3 DEF Promise!vars
    <3>. QED
      BY <3>1, <3>2, <3>3 DEF Next, Driver, Controller, FifoReset, IntClear, ReadCmd,
         WriteCmd, WriteData, Poll, AckClear, ReadData, TakeRead, TakeWrite, Finish,
         Lose, Booting, driverVars, vars
  <2>. QED  BY <2>3, <2>4, <2>5
<1>. QED  BY <1>1, <1>2, Invariance, PTL DEF Spec, KeepsPromise, Promise!Spec
=============================================================================
