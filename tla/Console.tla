------------------------------ MODULE Console ------------------------------
(***************************************************************************)
(* printk, the consoles it writes to, and the exception handler, which     *)
(* prints with the same printk that the exception may have interrupted.    *)
(* The early console is herolte's UART, whose driver gives up on a         *)
(* transmitter that does not move; the transmitter runs on its own.        *)
(*                                                                         *)
(* A line is Chars characters.  A character on a console is the line it    *)
(* was read from print_buffer as, and its place in the line; a line is     *)
(* the depth of the exception it is printed in, 0 for the boot itself, and *)
(* its step there.                                                         *)
(***************************************************************************)
EXTENDS Integers, Sequences

CONSTANTS
  Boot,       (* the steps of the boot that reach the consoles              *)
  LogLevels,  (* the values CONFIG_LOGLEVEL may have                        *)
  Chars,      (* characters in a line                                       *)
  FifoSize,   (* of the UART                                                *)
  PollLimit,  (* UART_POLL_LIMIT                                            *)
  MaxDepth    (* bound: exceptions that strike                              *)

KERN_EMERG == 0
MAX_CONSOLES == 2

Register(c) == [do |-> "register", con |-> c]
Say(l)      == [do |-> "print", level |-> l]
Flush       == [do |-> "flush"]
Jump        == [do |-> "jump"]
Park        == [do |-> "park"]

(* aarch64_exception_handler *)
Handler == <<Say(KERN_EMERG), Say(KERN_EMERG), Flush, Park>>

(* Each console is registered once, by the board or by the probe of its     *)
(* driver.                                                                  *)
ASSUME ConsoleAssumption ==
  /\ Len(Boot) \in Nat \ {0}
  /\ \A s \in 1 .. Len(Boot) :
       \/ \E c \in {"earlycon", "simplefb"} : Boot[s] = Register(c)
       \/ \E l \in 0 .. 7 : Boot[s] = Say(l)
       \/ Boot[s] \in {Flush, Jump}
  /\ \A s \in 1 .. Len(Boot) : Boot[s] = Jump <=> s = Len(Boot)
  /\ \A s, t \in 1 .. Len(Boot) :
       Boot[s].do = "register" /\ Boot[s] = Boot[t] => s = t
  /\ LogLevels \subseteq Nat
  /\ Chars \in Nat \ {0} /\ FifoSize \in Nat \ {0} /\ PollLimit \in Nat \ {0}
  /\ MaxDepth \in Nat

(* arch_load_kernel flushes the consoles after its last line. *)
ASSUME FlushAssumption ==
  \E f \in 1 .. Len(Boot) :
    Boot[f] = Flush /\ \A s \in f + 1 .. Len(Boot) : Boot[s].do # "print"

VARIABLES
  loglevel,   (* CONFIG_LOGLEVEL                                            *)
  consoles,   (* the registered consoles                                    *)
  depth,      (* exceptions taken so far; none is ever returned from        *)
  step,       (* of Boot, or of the handler                                 *)
  at,         (* inside the step: which loop runs                           *)
  i, pos,     (* the console it has come to, and the character              *)
  buffer,     (* print_buffer: the line in it                               *)
  timeout,    (* polls left to the UART                                     *)
  uartFailed,
  fifo, wire, (* characters in the UART, and characters it has sent         *)
  screen      (* characters on the framebuffer                              *)

printVars == <<at, i, pos, buffer>>
uartVars  == <<timeout, uartFailed, fifo>>
vars == <<loglevel, consoles, depth, step, printVars, uartVars, wire, screen>>

Steps == IF depth = 0 THEN Boot ELSE Handler
Now   == Steps[step]

Init ==
  /\ loglevel \in LogLevels
  /\ consoles = <<>> /\ depth = 0 /\ step = 1
  /\ at = "step" /\ i = 1 /\ pos = 1 /\ buffer = <<0, 0>>
  /\ timeout = PollLimit /\ uartFailed = FALSE
  /\ fifo = <<>> /\ wire = <<>> /\ screen = <<>>

Goto(a, c, p) == at' = a /\ i' = c /\ pos' = p
-----------------------------------------------------------------------------
(* console_register: what no place is left for is dropped. *)
DoRegister ==
  /\ at = "step" /\ Now.do = "register"
  /\ consoles' = IF Len(consoles) < MAX_CONSOLES
                 THEN Append(consoles, Now.con) ELSE consoles
  /\ step' = step + 1
  /\ UNCHANGED <<loglevel, depth, printVars, uartVars, wire, screen>>

Loud == Now.level <= loglevel /\ consoles # <<>>

(* printk *)
Format ==
  /\ at = "step" /\ Now.do = "print"
  /\ IF Loud
     THEN /\ buffer' = <<depth, step>>
          /\ Goto("write", 1, 1)
          /\ step' = step
     ELSE /\ step' = step + 1
          /\ UNCHANGED printVars
  /\ timeout' = PollLimit
  /\ UNCHANGED <<loglevel, consoles, depth, uartFailed, fifo, wire, screen>>

NextPlace ==
  IF pos < Chars THEN Goto("write", i, pos + 1) /\ step' = step
  ELSE IF i < Len(consoles) THEN Goto("write", i + 1, 1) /\ step' = step
  ELSE Goto("step", 1, 1) /\ step' = step + 1

Char == <<buffer, pos>>

(* simplefb_console_write *)
Draw ==
  /\ at = "write" /\ consoles[i] = "simplefb"
  /\ screen' = Append(screen, Char)
  /\ NextPlace
  /\ UNCHANGED <<loglevel, consoles, depth, buffer, uartVars, wire>>

Room == Len(fifo) < FifoSize

PollsLeftStuck_Wrong == timeout
PollsLeft == timeout - 1

GivesUpUnlatched_Wrong == FALSE
GivesUp == PollsLeft = 0

(* uart_putc of a character, one poll a step.  It is dropped when the UART *)
(* has failed before, or fails now.                                        *)
PutChar ==
  /\ at = "write" /\ consoles[i] = "earlycon"
  /\ ~uartFailed /\ Room
  /\ fifo' = Append(fifo, Char)
  /\ timeout' = PollLimit
  /\ NextPlace
  /\ UNCHANGED <<loglevel, consoles, depth, buffer, uartFailed, wire, screen>>

PollChar ==
  /\ at = "write" /\ consoles[i] = "earlycon"
  /\ ~uartFailed /\ ~Room
  /\ timeout' = IF PollsLeft = 0 THEN PollLimit ELSE PollsLeft
  /\ uartFailed' = GivesUp
  /\ IF PollsLeft = 0 THEN NextPlace ELSE UNCHANGED <<at, i, pos, step>>
  /\ UNCHANGED <<loglevel, consoles, depth, buffer, fifo, wire, screen>>

DropChar ==
  /\ at = "write" /\ consoles[i] = "earlycon" /\ uartFailed
  /\ NextPlace
  /\ UNCHANGED <<loglevel, consoles, depth, buffer, uartVars, wire, screen>>

(* console_flush *)
StartFlush ==
  /\ at = "step" /\ Now.do = "flush"
  /\ IF consoles = <<>>
     THEN step' = step + 1 /\ UNCHANGED <<at, i, pos>>
     ELSE Goto("flush", 1, 1) /\ step' = step
  /\ timeout' = PollLimit
  /\ UNCHANGED <<loglevel, consoles, depth, buffer, uartFailed, fifo, wire, screen>>

NextFlush ==
  IF i < Len(consoles) THEN Goto("flush", i + 1, 1) /\ step' = step
  ELSE Goto("step", 1, 1) /\ step' = step + 1

DrainedAtOnce_Wrong == TRUE
Drained == fifo = <<>>

(* simplefb has no flush; a UART that has failed, or is empty, needs none. *)
FlushDone ==
  /\ at = "flush"
  /\ consoles[i] = "simplefb" \/ uartFailed \/ Drained
  /\ NextFlush
  /\ UNCHANGED <<loglevel, consoles, depth, buffer, uartVars, wire, screen>>

(* uart_flush, one poll a step *)
PollFlush ==
  /\ at = "flush" /\ consoles[i] = "earlycon" /\ ~uartFailed /\ ~Drained
  /\ timeout' = PollsLeft
  /\ uartFailed' = GivesUp
  /\ IF PollsLeft = 0 THEN NextFlush ELSE UNCHANGED <<at, i, pos, step>>
  /\ UNCHANGED <<loglevel, consoles, depth, buffer, fifo, wire, screen>>

Leave ==
  /\ at = "step" /\ Now.do \in {"jump", "park"}
  /\ at' = IF Now.do = "jump" THEN "jumped" ELSE "parked"
  /\ UNCHANGED <<loglevel, consoles, depth, step, i, pos, buffer, uartVars,
                 wire, screen>>

Boots ==
  \/ DoRegister \/ Format \/ Draw \/ PutChar \/ PollChar \/ DropChar
  \/ StartFlush \/ FlushDone \/ PollFlush \/ Leave

(* An exception strikes, the handler included, wherever it has come to.   *)
(* Nothing is saved of what ran: the handler ends in an endless wfe.      *)
Exception ==
  /\ depth < MaxDepth
  /\ at \notin {"jumped", "parked"}
  /\ depth' = depth + 1 /\ step' = 1
  /\ Goto("step", 1, 1)
  /\ UNCHANGED <<loglevel, consoles, buffer, uartVars, wire, screen>>

UartSends ==
  /\ fifo # <<>>
  /\ wire' = Append(wire, Head(fifo))
  /\ fifo' = Tail(fifo)
  /\ UNCHANGED <<loglevel, consoles, depth, step, printVars, timeout, uartFailed,
                 screen>>

Over ==
  /\ at \in {"jumped", "parked"}
  /\ UNCHANGED vars

Next == Boots \/ Exception \/ UartSends \/ Over

Spec == Init /\ [][Next]_vars

(* The processor runs on; the UART owes nothing. *)
FairSpec == Spec /\ WF_vars(Boots)
-----------------------------------------------------------------------------
(* The variables have their types. *)
TypeOK ==
  /\ loglevel \in LogLevels
  /\ Len(consoles) <= MAX_CONSOLES
  /\ \A c \in 1 .. Len(consoles) : consoles[c] \in {"earlycon", "simplefb"}
  /\ depth \in 0 .. MaxDepth /\ step \in 1 .. Len(Steps)
  /\ at \in {"step", "write", "flush", "jumped", "parked"}
  /\ i \in 1 .. MAX_CONSOLES /\ pos \in 1 .. Chars
  /\ timeout \in 0 .. PollLimit /\ uartFailed \in BOOLEAN
  /\ Len(fifo) <= FifoSize

(* The steps of depth d that printk lets through, from step s on *)
Printed(d, s) ==
  LET steps == IF d = 0 THEN Boot ELSE Handler
  IN  s \in 1 .. Len(steps) /\ steps[s].do = "print" /\ steps[s].level <= loglevel

(* Character b may come right after a: the next of the same line, the first *)
(* of the next line, or, when an exception has struck, the first of its     *)
(* handler.                                                                 *)
Follows(a, b) ==
  \/ b = <<a[1], a[2] + 1>>
  \/ /\ b[2] = 1
     /\ \/ /\ b[1][1] = a[1][1] /\ a[2] = Chars
           /\ Printed(a[1][1], b[1][2])
           /\ b[1][2] > a[1][2]
           /\ \A s \in a[1][2] + 1 .. b[1][2] - 1 : ~Printed(a[1][1], s)
        \/ b[1][1] > a[1][1] /\ b[1][2] = 1

Orderly(stream) ==
  \A j \in 1 .. Len(stream) - 1 : Follows(stream[j], stream[j + 1])

(* What a console shows are whole lines, in the order they were printed and *)
(* without a gap: only an exception cuts one short, and then its handler's  *)
(* follow, never another character of the line print_buffer held before.    *)
(* A UART that fails goes silent for good, in mid-line or not; it does not  *)
(* come back with part of the text missing.                                 *)
StreamsOrderly == TypeOK /\ Orderly(wire \o fifo) /\ Orderly(screen)

LastLine(stream, s) == stream # <<>> /\ stream[Len(stream)] = <<<<depth, s>>, Chars>>

(* Console c was there when line s was printed. *)
Saw(c, s) ==
  /\ \E j \in 1 .. Len(consoles) : consoles[j] = c
  /\ depth = 0 => \E r \in 1 .. s - 1 : Boot[r] = Register(c)

(* When the kernel takes over, and when the exception handler stops, every *)
(* console that was there for the last line has shown it to the last       *)
(* character, and the UART's is out of the processor, unless the UART has  *)
(* failed.                                                                 *)
AllShown ==
  \A s \in 1 .. Len(Steps) :
    /\ at \in {"jumped", "parked"}
    /\ Printed(depth, s) /\ \A t \in s + 1 .. Len(Steps) : ~Printed(depth, t)
    => /\ Saw("simplefb", s) => LastLine(screen, s)
       /\ Saw("earlycon", s) /\ ~uartFailed => LastLine(wire, s)

(* Whatever the UART does, the boot is not held up: the kernel starts, or an *)
(* exception has stopped the loader.                                         *)
NotHeldUp == <>(at \in {"jumped", "parked"})
=============================================================================
