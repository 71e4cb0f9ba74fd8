------------------------------- MODULE ExtI2c -------------------------------
(***************************************************************************)
(* The I2C transfer the herolte board makes with two GPIO pins, to have    *)
(* the MAX77854 route the UART to the processor, and the MAX77854 that     *)
(* listens to the wires.                                                   *)
(*                                                                         *)
(* A step of the master is one access to a GPIO register.  Writing a pin   *)
(* of the data register writes back what was read for the others: of an    *)
(* input, the level of its wire.  The slave may take as long as one call   *)
(* of ext_i2c_delay to let its own drive of SDA follow the clock.          *)
(***************************************************************************)
EXTENDS Integers, Sequences

Message == <<74, 12, 27>>   (* address, register, value *)

Pins == {"scl", "sda"}

VARIABLES
  func,      (* GPIO_CON: is the pin an output?                             *)
  latch,     (* GPIO_DAT: what the pin drives when it is                    *)
  fn,        (* the function that runs                                      *)
  todo,      (* the register accesses it has still to make                  *)
  i, bit,    (* the byte that is sent, and the bit of it                    *)
  nack,      (* what ext_i2c_get_ack has sampled                            *)
  ret,       (* what herolte_restore_uart returns                           *)
  mode,      (* slave: idle, receiving, acknowledging, or not addressed     *)
  shift,     (* slave: the bits of the byte so far, and how many            *)
  wants,     (* slave: SDA is to be pulled low                              *)
  pulls,     (* slave: SDA is pulled low                                    *)
  wire       (* what has been heard on the bus                              *)

gpioVars   == <<func, latch>>
masterVars == <<fn, todo, i, bit, nack, ret>>
slaveVars  == <<mode, shift, wants, wire>>
vars == <<gpioVars, masterVars, slaveVars, pulls>>

(* The level of a wire: the master drives it, or the slave pulls it low, or *)
(* the pull-up holds it high.  A pin that reads it sees this level.         *)
Level(f, l, pin) ==
  IF f[pin] = "output" THEN l[pin]
  ELSE IF pin = "sda" /\ pulls THEN 0 ELSE 1

Scl == Level(func, latch, "scl")
Sda == Level(func, latch, "sda")

(* The register accesses a function makes *)
Dat(pin, value) == <<"dat", pin, value>>
Con(pin, value) == <<"con", pin, value>>
Sample == <<"sample">>
Delay  == <<"delay">>

InitOpsNoPreload_Wrong ==
  <<Con("scl", "output"), Con("sda", "output"), Dat("scl", 1), Dat("sda", 1),
    Delay>>
InitOps ==
  <<Dat("scl", 1), Dat("sda", 1), Con("scl", "output"), Con("sda", "output"),
    Delay>>

StartOps ==
  <<Dat("scl", 1), Dat("sda", 1), Delay, Dat("scl", 1), Dat("sda", 0), Delay,
    Delay, Dat("scl", 0), Dat("sda", 0), Delay>>

StopOps ==
  <<Dat("scl", 0), Dat("sda", 0), Delay, Dat("scl", 1), Dat("sda", 0), Delay,
    Delay, Dat("scl", 1), Dat("sda", 1), Delay>>

BitOps(b) ==
  <<Dat("scl", 0), Dat("sda", b), Delay, Dat("scl", 1), Delay, Delay,
    Dat("scl", 0), Delay>>

(* With SDA left an output, the master would drive what it wants to hear. *)
AckOpsPushPull_Wrong ==
  <<Dat("scl", 0), Delay, Dat("scl", 1), Delay, Sample, Delay, Dat("sda", 0),
    Dat("scl", 0), Delay>>
AckOps ==
  <<Dat("scl", 0), Delay, Con("sda", "input"), Dat("scl", 1), Delay, Sample,
    Delay, Dat("sda", 0), Con("sda", "output"), Dat("scl", 0), Delay>>

FirstBit == 7

(* S-Boot has left the bus idle: its pins are inputs with anything in the *)
(* latch, or outputs that drive it high.                                  *)
Init ==
  /\ \/ func = [p \in Pins |-> "input"] /\ latch \in [Pins -> {0, 1}]
     \/ func = [p \in Pins |-> "output"] /\ latch = [p \in Pins |-> 1]
  /\ fn = "gpio_init" /\ todo = InitOps
  /\ i = 1 /\ bit = FirstBit /\ nack = 0 /\ ret = 0
  /\ mode = "idle" /\ shift = [value |-> 0, count |-> 0]
  /\ wants = FALSE /\ pulls = FALSE /\ wire = <<>>
-----------------------------------------------------------------------------
(* The slave hears the levels c of SCL and d of SDA become c2 and d2. *)

NoBits == [value |-> 0, count |-> 0]

HearStart ==
  /\ mode' = "receive" /\ shift' = NoBits /\ wants' = FALSE
  /\ wire' = Append(wire, "S")

HearStop ==
  /\ mode' = "idle" /\ shift' = NoBits /\ wants' = FALSE
  /\ wire' = Append(wire, "P")

HearBit(d) ==
  /\ shift' = [value |-> 2 * shift.value + d, count |-> shift.count + 1]
  /\ UNCHANGED <<mode, wants, wire>>

(* After its eighth bit a byte is acknowledged, or it is not. *)
HearByte ==
  /\ \E ack \in BOOLEAN :
       /\ mode' = IF ack THEN "ack" ELSE "deaf"
       /\ wants' = ack
       /\ wire' = Append(wire, <<shift.value, ack>>)
  /\ shift' = NoBits

HearAckEnd ==
  /\ mode' = "receive" /\ wants' = FALSE
  /\ UNCHANGED <<shift, wire>>

Hear(c, d, c2, d2) ==
  LET high    == c = 1 /\ c2 = 1
      rising  == c = 0 /\ c2 = 1
      falling == c = 1 /\ c2 = 0
  IN  CASE high /\ d > d2 -> HearStart
        [] high /\ d < d2 -> HearStop
        [] rising /\ mode = "receive" -> HearBit(d2)
        [] falling /\ mode = "receive" /\ shift.count = 8 -> HearByte
        [] falling /\ mode = "ack" -> HearAckEnd
        [] OTHER -> UNCHANGED slaveVars

Settle ==
  /\ pulls # wants
  /\ pulls' = wants
  /\ UNCHANGED <<gpioVars, masterVars, slaveVars>>
-----------------------------------------------------------------------------
(* The master *)

Op(kind) == todo # <<>> /\ todo[1][1] = kind

(* gpio_set_value *)
SetValue ==
  /\ Op("dat")
  /\ latch' = [p \in Pins |-> IF p = todo[1][2] THEN todo[1][3]
                              ELSE Level(func, latch, p)]
  /\ Hear(Scl, Sda, Level(func, latch', "scl"), Level(func, latch', "sda"))
  /\ todo' = Tail(todo)
  /\ UNCHANGED <<func, pulls, fn, i, bit, nack, ret>>

(* gpio_set_func *)
SetFunc ==
  /\ Op("con")
  /\ func' = [func EXCEPT ![todo[1][2]] = todo[1][3]]
  /\ Hear(Scl, Sda, Level(func', latch, "scl"), Level(func', latch, "sda"))
  /\ todo' = Tail(todo)
  /\ UNCHANGED <<latch, pulls, fn, i, bit, nack, ret>>

(* gpio_get_value *)
GetValue ==
  /\ Op("sample")
  /\ nack' = Sda
  /\ todo' = Tail(todo)
  /\ UNCHANGED <<gpioVars, slaveVars, pulls, fn, i, bit, ret>>

(* ext_i2c_delay is longer than the slave takes. *)
Wait ==
  /\ Op("delay")
  /\ pulls = wants
  /\ todo' = Tail(todo)
  /\ UNCHANGED <<gpioVars, slaveVars, pulls, fn, i, bit, nack, ret>>

Call(f, ops) == fn' = f /\ todo' = ops

BitOf(byte, k) == (byte \div 2^k) % 2

Start ==
  /\ fn = "gpio_init" /\ todo = <<>>
  /\ Call("start", StartOps)
  /\ UNCHANGED <<gpioVars, slaveVars, pulls, i, bit, nack, ret>>

FirstByte ==
  /\ fn = "start" /\ todo = <<>>
  /\ Call("bits", BitOps(BitOf(Message[i], bit)))
  /\ UNCHANGED <<gpioVars, slaveVars, pulls, i, bit, nack, ret>>

LastBit == 0

NextBit ==
  /\ fn = "bits" /\ todo = <<>> /\ bit > LastBit
  /\ bit' = bit - 1
  /\ Call("bits", BitOps(BitOf(Message[i], bit')))
  /\ UNCHANGED <<gpioVars, slaveVars, pulls, i, nack, ret>>

GetAck ==
  /\ fn = "bits" /\ todo = <<>> /\ bit = LastBit
  /\ Call("ack", AckOps)
  /\ UNCHANGED <<gpioVars, slaveVars, pulls, i, bit, nack, ret>>

Refusal_Wrong == 0
Refusal == nack

NextByte ==
  /\ fn = "ack" /\ todo = <<>> /\ Refusal = 0 /\ i < Len(Message)
  /\ i' = i + 1
  /\ bit' = FirstBit
  /\ Call("bits", BitOps(BitOf(Message[i'], bit')))
  /\ UNCHANGED <<gpioVars, slaveVars, pulls, nack, ret>>

Refused ==
  /\ fn = "ack" /\ todo = <<>> /\ Refusal # 0
  /\ ret' = -i
  /\ Call("stop", StopOps)
  /\ UNCHANGED <<gpioVars, slaveVars, pulls, i, bit, nack>>

Sent ==
  /\ fn = "ack" /\ todo = <<>> /\ Refusal = 0 /\ i = Len(Message)
  /\ Call("stop", StopOps)
  /\ UNCHANGED <<gpioVars, slaveVars, pulls, i, bit, nack, ret>>

Return ==
  /\ fn = "stop" /\ todo = <<>>
  /\ Call("done", <<>>)
  /\ UNCHANGED <<gpioVars, slaveVars, pulls, i, bit, nack, ret>>

Access == SetValue \/ SetFunc \/ GetValue \/ Wait

Control ==
  Start \/ FirstByte \/ NextBit \/ GetAck \/ NextByte \/ Refused \/ Sent \/ Return

Done == fn = "done" /\ UNCHANGED vars

Next == Settle \/ Access \/ Control \/ Done

Spec == Init /\ [][Next]_vars
-----------------------------------------------------------------------------
(* The variables have their types. *)
TypeOK ==
  /\ func \in [Pins -> {"input", "output"}]
  /\ latch \in [Pins -> {0, 1}]
  /\ fn \in {"gpio_init", "start", "bits", "ack", "stop", "done"}
  /\ Len(todo) \in 0 .. Len(StartOps) + 1
  /\ i \in 1 .. Len(Message) /\ bit \in 0 .. 7 /\ nack \in {0, 1}
  /\ ret \in -Len(Message) .. 0
  /\ mode \in {"idle", "receive", "ack", "deaf"}
  /\ shift \in [value : 0 .. 255, count : 0 .. 8]
  /\ wants \in BOOLEAN /\ pulls \in BOOLEAN

AllAcked(n) == [k \in 1 .. n |-> <<Message[k], TRUE>>]

(* The transfers the bus may see.  Switching SDA back to a low output while *)
(* the clock is still high makes an empty second transfer after a refusal.  *)
Transfer == <<"S">> \o AllAcked(Len(Message)) \o <<"P">>

RefusedAt(k) ==
  <<"S">> \o AllAcked(k - 1) \o <<<<Message[k], FALSE>>, "S", "P">>

StartsAs(t) == Len(wire) <= Len(t) /\ wire = SubSeq(t, 1, Len(wire))

(* At every moment, what the bus has carried is the beginning of exactly the *)
(* transfer S-Boot makes, or of the one a refused byte cuts short: whatever  *)
(* was in the latches, no wire changes at a moment that makes a start, a     *)
(* stop or a bit of it.                                                      *)
WireAsSBoot ==
  StartsAs(Transfer) \/ \E k \in 1 .. Len(Message) : StartsAs(RefusedAt(k))

(* "Return values make it obvious which byte was NACKed." *)
ReturnTellsWhich ==
  fn = "done" => wire = IF ret = 0 THEN Transfer ELSE RefusedAt(-ret)

(* While the clock is high the master never drives SDA high against the *)
(* slave; and when it returns, the bus is idle again.                   *)
NoFight ==
  /\ TypeOK
  /\ Scl = 1 /\ pulls => ~ (func["sda"] = "output" /\ latch["sda"] = 1)
  /\ fn = "done" => Scl = 1 /\ Sda = 1 /\ ~pulls
=============================================================================
