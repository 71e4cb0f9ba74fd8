--------------------------- MODULE Console_proofs ---------------------------
(***************************************************************************)
(* Theorems about Console, for every boot, every log level, every length   *)
(* of a line, every UART and any number of exceptions: what a console      *)
(* shows is in order and without a gap, and at the end nothing is missing. *)
(*                                                                         *)
(* And about SimpleFb, one of the consoles, for screens of every size,     *)
(* every font and all messages: the integer square root that scales the    *)
(* font is exact, what is drawn stays on the screen and in its memory, and *)
(* can be read from left to right and from top to bottom.                  *)
(***************************************************************************)
EXTENDS Console, SimpleFb, TLAPS, SequenceTheorems

Kinds == {"earlycon", "simplefb"}

Cell == (Nat \X Nat) \X Nat

Last(s) == s[Len(s)]

(* The characters on a console: the wire's with those on their way to it. *)
Stream(c) == IF c = "simplefb" THEN screen ELSE wire \o fifo

Live(c) == c = "simplefb" \/ ~uartFailed

(* The steps at depth d; those that log level lev lets through. *)
StepsAt(d) == IF d = 0 THEN Boot ELSE Handler

Kind(d, n) == StepsAt(d)[n].do

Prints(lev, d, n) ==
  n \in 1 .. Len(StepsAt(d)) /\ Kind(d, n) = "print" /\ StepsAt(d)[n].level <= lev

Ends(s, line, p) == s # <<>> /\ Last(s) = <<line, p>>

(* Of step n, or a later one, at depth d nothing has been shown; *)
Before(s, lev, d, n) ==
  s # <<>> =>
    /\ Last(s)[1][1] <= d
    /\ Last(s)[1][1] < d => n = 1
    /\ Last(s)[1][1] = d =>
         /\ Last(s)[2] = Chars /\ Last(s)[1][2] < n
         /\ \A t \in Last(s)[1][2] + 1 .. n - 1 : ~Prints(lev, d, t)

RegisteredBefore(c, n) == \E r \in 1 .. n - 1 : Boot[r] = Register(c)

LatestBefore(lev, d, p, n) == Prints(lev, d, p) /\ \A t \in p + 1 .. n - 1 : ~Prints(lev, d, t)

(* what was printed before it, console c has shown. *)
Complete(s, c, lev, d, n) ==
  \A p \in 1 .. n - 1 :
    LatestBefore(lev, d, p, n) /\ (d = 0 => RegisteredBefore(c, p)) => Ends(s, <<d, p>>, Chars)

UpTo(s, c, lev, d, n) == Before(s, lev, d, n) /\ Complete(s, c, lev, d, n)

(* What console j, of kind c, has shown, when printk has come to character *)
(* p on console k.                                                         *)
ShownAs(q, c, s, lev, d, n, a, k, p) ==
  IF a = "write" /\ q < k THEN Ends(s, <<d, n>>, Chars)
  ELSE IF a = "write" /\ q = k /\ p > 1 THEN Ends(s, <<d, n>>, p - 1)
  ELSE UpTo(s, c, lev, d, n)

Shown(q) ==
  Live(consoles[q]) =>
    ShownAs(q, consoles[q], Stream(consoles[q]), loglevel, depth, step, at, i, pos)

Places == 1 .. Len(consoles)

Typed ==
  /\ consoles \in Seq(Kinds) /\ fifo \in Seq(Cell) /\ wire \in Seq(Cell) /\ screen \in Seq(Cell)
  /\ TypeOK

Consoles ==
  /\ \A q, k \in Places : consoles[q] = consoles[k] => q = k
  /\ depth = 0 => \A q \in Places : RegisteredBefore(consoles[q], step)
  /\ \A c \in Kinds : (\A q \in Places : consoles[q] # c) => Stream(c) = <<>>

Position ==
  /\ at \in {"write", "flush"} =>
       i \in Places /\ pos \in 1 .. Chars /\ (~uartFailed => timeout > 0)
  /\ at = "write" => buffer = <<depth, step>> /\ Prints(loglevel, depth, step)
  /\ at = "flush" => Kind(depth, step) = "flush"
  /\ at \in {"jumped", "parked"} => Kind(depth, step) \in {"jump", "park"}

(* A flush has come after what was printed. *)
FlushedBefore(lev, d, n) ==
  \E f \in 1 .. n - 1 : Kind(d, f) = "flush" /\ \A t \in f + 1 .. n - 1 : ~Prints(lev, d, t)

Flushed ==
  \A q \in Places : consoles[q] = "earlycon" /\ ~uartFailed =>
     /\ at = "flush" /\ q < i => fifo = <<>>
     /\ at # "write" /\ FlushedBefore(loglevel, depth, step) => fifo = <<>>

(* Follows and Orderly, under log level lev *)
Succeeds(lev, a, b) ==
  \/ b = <<a[1], a[2] + 1>>
  \/ /\ b[2] = 1
     /\ \/ /\ b[1][1] = a[1][1] /\ a[2] = Chars
           /\ Prints(lev, a[1][1], b[1][2])
           /\ b[1][2] > a[1][2]
           /\ \A s \in a[1][2] + 1 .. b[1][2] - 1 : ~Prints(lev, a[1][1], s)
        \/ b[1][1] > a[1][1] /\ b[1][2] = 1

InOrder(lev, s) == \A q \in 1 .. Len(s) - 1 : Succeeds(lev, s[q], s[q + 1])

Ordered == \A c \in Kinds : InOrder(loglevel, Stream(c))

Inv ==
  /\ Typed /\ Consoles /\ Position /\ Flushed /\ Ordered
  /\ \A q \in Places : Shown(q)
-----------------------------------------------------------------------------
(* Sequences of characters. *)
LEMMA Appended ==
  ASSUME NEW s \in Seq(Cell), NEW z \in Cell
  PROVE  /\ Append(s, z) \in Seq(Cell) /\ Append(s, z) # <<>> /\ Last(Append(s, z)) = z
<1>1. Len(s) + 1 = Len(Append(s, z)) /\ Append(s, z)[Len(s) + 1] = z
      /\ Append(s, z) \in Seq(Cell) /\ Append(s, z) # <<>>
  BY AppendProperties
<1>. QED  BY <1>1 DEF Last

LEMMA LastIs ==
  ASSUME NEW s \in Seq(Cell), s # <<>>
  PROVE  /\ Last(s) \in Cell /\ Last(s) = <<Last(s)[1], Last(s)[2]>>
         /\ Last(s)[1] = <<Last(s)[1][1], Last(s)[1][2]>>
         /\ Last(s)[1][1] \in Nat /\ Last(s)[1][2] \in Nat /\ Last(s)[2] \in Nat
<1>1. Len(s) \in Nat /\ Len(s) # 0
  BY EmptySeq
<1>2. Len(s) \in 1 .. Len(s)
  BY <1>1
<1>3. Last(s) \in Cell
  BY <1>2, ElementOfSeq DEF Last
<1>. QED  BY <1>3 DEF Cell

LEMMA OrderlyMore ==
  ASSUME NEW s \in Seq(Cell), NEW z \in Cell, NEW lev,
         InOrder(lev, s), s # <<>> => Succeeds(lev, Last(s), z)
  PROVE  InOrder(lev, Append(s, z))
<1>. DEFINE s2 == Append(s, z)
<1>1. /\ Len(s) \in Nat /\ Len(s2) = Len(s) + 1 /\ s2[Len(s) + 1] = z
      /\ \A q \in 1 .. Len(s) : s2[q] = s[q]
  BY AppendProperties
<1>2. s = <<>> => Len(s) = 0
  BY EmptySeq
<1>. HIDE DEF s2
<1>3. SUFFICES ASSUME NEW q \in 1 .. Len(s2) - 1 PROVE Succeeds(lev, s2[q], s2[q + 1])
  BY DEF InOrder, s2
<1>4. CASE q < Len(s)
  <2>1. q \in 1 .. Len(s) - 1 /\ q \in 1 .. Len(s) /\ q + 1 \in 1 .. Len(s)
    BY <1>1, <1>4
  <2>2. s2[q] = s[q] /\ s2[q + 1] = s[q + 1]
    BY <1>1, <2>1
  <2>. QED  BY <2>1, <2>2 DEF InOrder
<1>5. CASE q = Len(s)
  <2>1. s # <<>> /\ s2[q] = Last(s) /\ s2[q + 1] = z
    BY <1>1, <1>2, <1>5 DEF Last
  <2>. QED  BY <2>1
<1>. QED  BY <1>1, <1>4, <1>5

LEMMA Enqueued ==
  ASSUME NEW w \in Seq(Cell), NEW f \in Seq(Cell), NEW z \in Cell
  PROVE  w \o Append(f, z) = Append(w \o f, z)
<1>1. Append(f, z) = f \o <<z>> /\ <<z>> \in Seq(Cell)
  BY AppendIsConcat
<1>2. w \o f \in Seq(Cell)
  BY ConcatProperties
<1>3. Append(w \o f, z) = (w \o f) \o <<z>>
  BY <1>2, AppendIsConcat
<1>4. (w \o f) \o <<z>> = w \o (f \o <<z>>)
  BY <1>1, ConcatAssociative
<1>. QED  BY <1>1, <1>3, <1>4

LEMMA Sent ==
  ASSUME NEW w \in Seq(Cell), NEW f \in Seq(Cell), f # <<>>
  PROVE  /\ Append(w, Head(f)) \o Tail(f) = w \o f
         /\ Append(w, Head(f)) \in Seq(Cell) /\ Tail(f) \in Seq(Cell) /\ Len(Tail(f)) <= Len(f)
<1>1. Head(f) \in Cell /\ Tail(f) \in Seq(Cell) /\ Len(Tail(f)) = Len(f) - 1 /\ Len(f) \in Nat
  BY HeadTailProperties, LenProperties
<1>. DEFINE h == Head(f)
<1>2. Append(w, h) = w \o <<h>> /\ <<h>> \in Seq(Cell) /\ Append(w, h) \in Seq(Cell)
  BY <1>1, AppendIsConcat, AppendProperties
<1>3. (w \o <<h>>) \o Tail(f) = w \o (<<h>> \o Tail(f))
  BY <1>1, <1>2, ConcatAssociative
<1>4. <<h>> \o Tail(f) = f
  <2>. DEFINE g == <<h>>
              t == Tail(f)
  <2>1. g \in Seq(Cell) /\ Len(g) = 1 /\ g[1] = h
    BY <1>2
  <2>2. /\ t \in Seq(Cell) /\ Len(t) = Len(f) - 1 /\ Len(f) \in Nat
        /\ \A q \in 1 .. Len(t) : t[q] = f[q + 1]
    BY HeadTailProperties, LenProperties
  <2>3. h = f[1]
    OBVIOUS
  <2>. HIDE DEF g, t, h
  <2>4. /\ g \o t \in Seq(Cell) /\ Len(g \o t) = 1 + Len(t)
        /\ \A q \in 1 .. 1 + Len(t) : (g \o t)[q] = IF q <= 1 THEN g[q] ELSE t[q - 1]
    <3>1. /\ g \o t \in Seq(Cell) /\ Len(g \o t) = Len(g) + Len(t)
          /\ \A q \in 1 .. Len(g) + Len(t) :
               (g \o t)[q] = IF q <= Len(g) THEN g[q] ELSE t[q - Len(g)]
      <4>1. g \in Seq(Cell) /\ t \in Seq(Cell)
        BY <2>1, <2>2
      <4>. QED  BY ONLY <4>1, ConcatProperties, Zenon
    <3>. QED  BY <2>1, <3>1
  <2>5. Len(g \o t) = Len(f)
    BY <2>2, <2>4
  <2>6. \A q \in 1 .. Len(f) : (g \o t)[q] = f[q]
    BY <2>1, <2>2, <2>3, <2>4
  <2>7. g \o t = f
    BY <2>4, <2>5, <2>6, SeqEqual
  <2>. QED  BY <2>7 DEF g, t, h
<1>. QED  BY <1>1, <1>2, <1>3, <1>4
-----------------------------------------------------------------------------
(* The steps of the boot, and of the exception handler. *)
LEMMA StepsAre ==
  ASSUME NEW d \in Nat, NEW lev \in Nat
  PROVE  /\ Len(StepsAt(d)) \in Nat
         /\ \A n \in 1 .. Len(StepsAt(d)) :
              n < Len(StepsAt(d)) <=> Kind(d, n) \notin {"jump", "park"}
         /\ d # 0 => Prints(lev, d, 1)
<1>1. CASE d = 0
  <2>1. StepsAt(d) = Boot
    BY <1>1 DEF StepsAt
  <2>2. ASSUME NEW s \in 1 .. Len(Boot)
        PROVE  s < Len(Boot) <=> Boot[s].do \notin {"jump", "park"}
    <3>1. CASE s = Len(Boot)
      <4>1. Boot[s] = Jump
        BY <3>1, ConsoleAssumption
      <4>. QED  BY <3>1, <4>1 DEF Jump
    <3>2. CASE s # Len(Boot)
      <4>1. s < Len(Boot)
        BY <3>2, ConsoleAssumption
      <4>2. \/ \E c \in {"earlycon", "simplefb"} : Boot[s] = Register(c)
            \/ \E l \in 0 .. 7 : Boot[s] = Say(l)
            \/ Boot[s] = Flush
        BY <3>2, ConsoleAssumption
      <4>3. Boot[s].do \in {"register", "print", "flush"}
        BY <4>2 DEF Register, Say, Flush
      <4>. QED  BY <4>1, <4>3
    <3>. QED  BY <3>1, <3>2
  <2>. QED  BY <1>1, <2>1, <2>2, ConsoleAssumption DEF Kind
<1>2. CASE d # 0
  <2>1. StepsAt(d) = Handler
    BY <1>2 DEF StepsAt
  <2>2. /\ Len(Handler) = 4 /\ Handler[1].do = "print" /\ Handler[2].do = "print"
        /\ Handler[3].do = "flush" /\ Handler[4].do = "park" /\ Handler[1].level = 0
    BY DEF Handler, Say, Flush, Park, KERN_EMERG
  <2>3. \A s \in 1 .. 4 : s = 1 \/ s = 2 \/ s = 3 \/ s = 4
    OBVIOUS
  <2>4. \A n \in 1 .. Len(StepsAt(d)) :
          n < Len(StepsAt(d)) <=> Kind(d, n) \notin {"jump", "park"}
    BY <2>1, <2>2, <2>3 DEF Kind
  <2>5. Prints(lev, d, 1)
    BY <2>1, <2>2 DEF Prints, Kind
  <2>. QED  BY <2>1, <2>2, <2>4, <2>5
<1>. QED  BY <1>1, <1>2

(* From one step to the next. *)
LEMMA Skipped ==
  ASSUME NEW s \in Seq(Cell), NEW c, NEW lev \in Nat, NEW d \in Nat, NEW n \in Nat, n > 0,
         UpTo(s, c, lev, d, n), ~Prints(lev, d, n)
  PROVE  UpTo(s, c, lev, d, n + 1)
<1>1. Before(s, lev, d, n + 1)
  <2>. SUFFICES ASSUME s # <<>>
                PROVE  /\ Last(s)[1][1] <= d
                       /\ Last(s)[1][1] < d => n + 1 = 1
                       /\ Last(s)[1][1] = d =>
                            /\ Last(s)[2] = Chars /\ Last(s)[1][2] < n + 1
                            /\ \A t \in Last(s)[1][2] + 1 .. n + 1 - 1 : ~Prints(lev, d, t)
    BY DEF Before
  <2>. DEFINE e == Last(s)[1][1]
              l == Last(s)[1][2]
  <2>1. e \in Nat /\ l \in Nat
    BY LastIs
  <2>2. /\ e <= d /\ (e < d => n = 1)
        /\ e = d => Last(s)[2] = Chars /\ l < n /\ \A t \in l + 1 .. n - 1 : ~Prints(lev, d, t)
    BY DEF UpTo, Before
  <2>. HIDE DEF e, l
  <2>3. ~(e < d)
    BY <2>1, <2>2, StepsAre
  <2>4. e = d => l < n + 1 /\ \A t \in l + 1 .. n + 1 - 1 : ~Prints(lev, d, t)
    <3>1. \A t \in l + 1 .. n + 1 - 1 : t \in l + 1 .. n - 1 \/ t = n
      BY <2>1
    <3>. QED  BY <2>1, <2>2, <3>1
  <2>5. /\ e <= d
        /\ e < d => n + 1 = 1
        /\ e = d =>
             /\ Last(s)[2] = Chars /\ l < n + 1
             /\ \A t \in l + 1 .. n + 1 - 1 : ~Prints(lev, d, t)
    BY <2>2, <2>3, <2>4
  <2>. QED  BY <2>5 DEF e, l
<1>2. Complete(s, c, lev, d, n + 1)
  <2>. SUFFICES ASSUME NEW p \in 1 .. n + 1 - 1, LatestBefore(lev, d, p, n + 1),
                       d = 0 => RegisteredBefore(c, p)
                PROVE  Ends(s, <<d, p>>, Chars)
    BY DEF Complete
  <2>1. p # n
    BY DEF LatestBefore
  <2>2. p \in 1 .. n - 1
    BY <2>1
  <2>3. LatestBefore(lev, d, p, n)
    <3>1. \A t \in p + 1 .. n - 1 : t \in p + 1 .. n + 1 - 1
      BY <2>2
    <3>. QED  BY <3>1 DEF LatestBefore
  <2>. QED  BY <2>2, <2>3 DEF UpTo, Complete
<1>. QED  BY <1>1, <1>2 DEF UpTo

LEMMA LineOver ==
  ASSUME NEW s \in Seq(Cell), NEW c, NEW lev \in Nat, NEW d \in Nat, NEW n \in Nat, n > 0,
         Ends(s, <<d, n>>, Chars), Prints(lev, d, n)
  PROVE  UpTo(s, c, lev, d, n + 1)
<1>1. Last(s) = <<<<d, n>>, Chars>> /\ s # <<>>
  BY DEF Ends
<1>2. Last(s)[1][1] = d /\ Last(s)[1][2] = n /\ Last(s)[2] = Chars
  BY <1>1
<1>3. Before(s, lev, d, n + 1)
  <2>1. \A t \in n + 1 .. n + 1 - 1 : FALSE
    OBVIOUS
  <2>2. n < n + 1 /\ d <= d /\ ~(d < d)
    OBVIOUS
  <2>. QED  BY <1>1, <1>2, <2>1, <2>2 DEF Before
<1>4. Complete(s, c, lev, d, n + 1)
  <2>. SUFFICES ASSUME NEW p \in 1 .. n + 1 - 1, LatestBefore(lev, d, p, n + 1)
                PROVE  Ends(s, <<d, p>>, Chars)
    BY DEF Complete
  <2>1. CASE p = n
    BY <2>1
  <2>2. CASE p # n
    <3>1. n \in p + 1 .. n + 1 - 1
      BY <2>2
    <3>. QED  BY <3>1 DEF LatestBefore
  <2>. QED  BY <2>1, <2>2
<1>. QED  BY <1>3, <1>4 DEF UpTo

(* An exception begins anew, and nothing it prints has been shown. *)
LEMMA Anew ==
  ASSUME NEW s \in Seq(Cell), NEW c, NEW lev \in Nat, NEW d \in Nat,
         s # <<>> => Last(s)[1][1] <= d
  PROVE  UpTo(s, c, lev, d + 1, 1)
<1>1. Before(s, lev, d + 1, 1)
  <2>1. s # <<>> => Last(s)[1][1] \in Nat
    BY LastIs
  <2>2. s # <<>> => Last(s)[1][1] < d + 1 /\ Last(s)[1][1] # d + 1 /\ Last(s)[1][1] <= d + 1
    BY <2>1
  <2>. QED  BY <2>2 DEF Before
<1>2. Complete(s, c, lev, d + 1, 1)
  BY DEF Complete
<1>. QED  BY <1>1, <1>2 DEF UpTo

(* A character that is written goes where it belongs. *)
LEMMA FirstFollows ==
  ASSUME NEW lev \in Nat, NEW a, NEW b, NEW n \in Nat, NEW e \in Nat, NEW d \in Nat, NEW l \in Nat,
         a[1][1] = d, a[1][2] = l, b[1][1] = e, b[1][2] = n, b[2] = 1, Prints(lev, e, n),
         d <= e, d < e => n = 1,
         d = e => a[2] = Chars /\ l < n /\ \A t \in l + 1 .. n - 1 : ~Prints(lev, e, t)
  PROVE  Succeeds(lev, a, b)
<1>1. CASE d = e
  <2>1. /\ b[1][1] = a[1][1] /\ a[2] = Chars /\ Prints(lev, a[1][1], b[1][2]) /\ b[1][2] > a[1][2]
    BY <1>1
  <2>2. \A t \in a[1][2] + 1 .. b[1][2] - 1 : ~Prints(lev, a[1][1], t)
    BY <1>1
  <2>. QED  BY <2>1, <2>2 DEF Succeeds
<1>2. CASE d < e
  <2>1. b[1][1] > a[1][1] /\ b[1][2] = 1
    BY <1>2
  <2>. QED  BY <2>1 DEF Succeeds
<1>. QED  BY <1>1, <1>2

LEMMA FollowsLast ==
  ASSUME NEW s \in Seq(Cell), s # <<>>, NEW lev \in Nat, NEW d \in Nat, NEW n \in Nat,
         Prints(lev, d, n),
         NEW p \in 1 .. Chars,
         IF p > 1 THEN Ends(s, <<d, n>>, p - 1) ELSE Before(s, lev, d, n)
  PROVE  Succeeds(lev, Last(s), <<<<d, n>>, p>>)
<1>. DEFINE a == Last(s)
            line == <<d, n>>
            b == <<line, p>>
<1>0. p \in Nat
  BY ConsoleAssumption
<1>1. b[1] = line /\ b[2] = p /\ b[1][1] = d /\ b[1][2] = n
  OBVIOUS
<1>2. CASE p > 1
  <2>1. a = <<line, p - 1>>
    BY <1>2 DEF Ends
  <2>2. a[1] = line /\ a[2] = p - 1 /\ (p - 1) + 1 = p
    BY <1>0, <2>1
  <2>3. b = <<a[1], a[2] + 1>>
    BY <2>2
  <2>. HIDE DEF a, b
  <2>4. Succeeds(lev, a, b)
    BY <2>3 DEF Succeeds
  <2>. QED  BY <2>4 DEF a, b
<1>3. CASE ~(p > 1)
  <2>1. a[1][1] \in Nat /\ a[1][2] \in Nat
    BY LastIs
  <2>2. b[2] = 1
    BY <1>0, <1>1, <1>3
  <2>3. /\ a[1][1] <= d /\ (a[1][1] < d => n = 1)
        /\ a[1][1] = d =>
             a[2] = Chars /\ a[1][2] < n /\ \A t \in a[1][2] + 1 .. n - 1 : ~Prints(lev, d, t)
    BY <1>3 DEF Before
  <2>. HIDE DEF a, b
  <2>4. Succeeds(lev, a, b)
    BY <1>0, <1>1, <2>1, <2>2, <2>3, FirstFollows
  <2>. QED  BY <2>4 DEF a, b
<1>. QED  BY <1>2, <1>3
-----------------------------------------------------------------------------
LEMMA InvIs ==
  ASSUME Inv
  PROVE  /\ Typed /\ Consoles /\ Position /\ Flushed /\ Ordered
         /\ Len(consoles) \in Nat /\ Len(consoles) <= 2 /\ \A q \in Places : consoles[q] \in Kinds
         /\ step \in Nat /\ step > 0 /\ step <= Len(StepsAt(depth)) /\ Len(StepsAt(depth)) \in Nat
         /\ depth \in Nat /\ loglevel \in Nat /\ Steps = StepsAt(depth) /\ Now.do = Kind(depth, step)
         /\ \A c \in Kinds : Stream(c) \in Seq(Cell)
         /\ Chars \in Nat /\ Chars > 0 /\ PollLimit \in Nat /\ PollLimit > 0 /\ timeout \in Nat
<1>1. Typed /\ TypeOK /\ Consoles /\ Position /\ Flushed /\ Ordered
  BY DEF Inv, Typed
<1>2. depth \in Nat /\ loglevel \in Nat /\ timeout \in Nat
  BY <1>1, ConsoleAssumption DEF TypeOK
<1>3. Steps = StepsAt(depth) /\ Now.do = Kind(depth, step)
  BY DEF Steps, StepsAt, Kind, Now
<1>4. Len(StepsAt(depth)) \in Nat
  BY <1>2, StepsAre
<1>5. step \in Nat /\ step > 0 /\ step <= Len(StepsAt(depth))
  BY <1>1, <1>3, <1>4 DEF TypeOK
<1>6. /\ Len(consoles) \in Nat /\ Len(consoles) <= 2 /\ \A q \in Places : consoles[q] \in Kinds
  BY <1>1, ElementOfSeq, LenProperties DEF Typed, TypeOK, Places, MAX_CONSOLES
<1>7. \A c \in Kinds : Stream(c) \in Seq(Cell)
  BY <1>1, ConcatProperties DEF Typed, Stream
<1>. QED  BY <1>1, <1>2, <1>3, <1>4, <1>5, <1>6, <1>7, ConsoleAssumption

-----------------------------------------------------------------------------
(* Steps after which the consoles show what they did. *)
LEMMA RegisteredStays ==
  ASSUME NEW c, NEW n \in Nat, NEW m \in Nat, n <= m, RegisteredBefore(c, n)
  PROVE  RegisteredBefore(c, m)
<1>1. \A r \in 1 .. n - 1 : r \in 1 .. m - 1
  OBVIOUS
<1>. QED  BY <1>1 DEF RegisteredBefore

LEMMA ConsolesStay ==
  ASSUME Inv, UNCHANGED <<consoles, depth>>, step' = step \/ step' = step + 1,
         \A c \in Kinds : (\A q \in Places : consoles[q] # c) => Stream(c)' = Stream(c)
  PROVE  Consoles'
<1>1. Consoles /\ step \in Nat
  BY InvIs
<1>2. \A q, k \in Places' : consoles'[q] = consoles'[k] => q = k
  BY <1>1 DEF Consoles, Places
<1>3. ASSUME depth' = 0, NEW q \in Places' PROVE RegisteredBefore(consoles'[q], step')
  <2>1. RegisteredBefore(consoles[q], step)
    BY <1>1, <1>3 DEF Consoles, Places
  <2>2. step \in Nat /\ step' \in Nat /\ step <= step'
    BY <1>1
  <2>. QED  BY <2>1, <2>2, RegisteredStays
<1>4. ASSUME NEW c \in Kinds, \A q \in Places' : consoles'[q] # c PROVE Stream(c)' = <<>>
  BY <1>1, <1>4 DEF Consoles, Places
<1>. QED  BY <1>2, <1>3, <1>4 DEF Consoles

LEMMA Still ==
  ASSUME Inv, UNCHANGED <<loglevel, consoles, depth, step>>,
         screen' = screen, wire' \o fifo' = wire \o fifo, ~uartFailed' => ~uartFailed,
         \/ UNCHANGED <<at, i, pos>>
         \/ at # "write" /\ (at' # "write" \/ (i' = 1 /\ pos' = 1))
  PROVE  Consoles' /\ Ordered' /\ \A q \in Places' : Shown(q)'
<1>1. \A c \in Kinds : Stream(c)' = Stream(c)
  BY DEF Stream
<1>2. Consoles'
  BY <1>1, ConsolesStay
<1>3. Ordered'
  <2>1. Ordered
    BY InvIs
  <2>2. \A c \in Kinds : InOrder(loglevel', Stream(c)')
    BY <1>1, <2>1 DEF Ordered
  <2>. QED  BY <2>2 DEF Ordered
<1>4. ASSUME NEW q \in Places' PROVE Shown(q)'
  <2>1. q \in Places /\ Shown(q) /\ q \in Nat /\ q > 0
    BY InvIs DEF Inv, Places
  <2>2. CASE UNCHANGED <<at, i, pos>>
    BY <2>1, <2>2 DEF Shown, Live, Stream
  <2>3. CASE at # "write" /\ (at' # "write" \/ (i' = 1 /\ pos' = 1))
    <3>1. Live(consoles[q])' => Live(consoles[q])
      BY DEF Live
    <3>2. Stream(consoles[q])' = Stream(consoles[q])
      BY DEF Stream
    <3>3. Live(consoles[q]) => UpTo(Stream(consoles[q]), consoles[q], loglevel, depth, step)
      BY <2>1, <2>3 DEF Shown, ShownAs
    <3>4. ~(at' = "write" /\ q < i') /\ ~(at' = "write" /\ q = i' /\ pos' > 1)
      BY <2>1, <2>3
    <3>5. Live(consoles[q])' => UpTo(Stream(consoles[q])', consoles[q]', loglevel', depth', step')
      BY <3>1, <3>2, <3>3
    <3>. QED  BY <3>4, <3>5 DEF Shown, ShownAs
  <2>. QED  BY <2>2, <2>3
<1>. QED  BY <1>2, <1>3, <1>4

(* On to the next step, from one that printed nothing. *)
LEMMA StepOn ==
  ASSUME Inv, UNCHANGED <<loglevel, consoles, depth>>, step' = step + 1, at' = "step",
         at # "write", consoles # <<>> => ~Prints(loglevel, depth, step),
         screen' = screen, wire' \o fifo' = wire \o fifo, ~uartFailed' => ~uartFailed
  PROVE  Consoles' /\ Ordered' /\ \A q \in Places' : Shown(q)'
<1>1. \A c \in Kinds : Stream(c)' = Stream(c)
  BY DEF Stream
<1>2. Consoles'
  BY <1>1, ConsolesStay
<1>3. Ordered'
  <2>1. Ordered
    BY InvIs
  <2>2. \A c \in Kinds : InOrder(loglevel', Stream(c)')
    BY <1>1, <2>1 DEF Ordered
  <2>. QED  BY <2>2 DEF Ordered
<1>4. ASSUME NEW q \in Places' PROVE Shown(q)'
  <2>1. q \in Places /\ Shown(q) /\ q \in Nat /\ q > 0 /\ consoles # <<>> /\ consoles[q] \in Kinds
    <3>1. q \in Places
      BY DEF Places
    <3>2. Len(consoles) > 0
      BY <3>1, InvIs DEF Places
    <3>. QED  BY <3>1, <3>2, InvIs, EmptySeq DEF Inv, Places
  <2>2. Live(consoles[q])' => Live(consoles[q])
    BY DEF Live
  <2>3. Stream(consoles[q])' = Stream(consoles[q])
    BY DEF Stream
  <2>4. Live(consoles[q]) => UpTo(Stream(consoles[q]), consoles[q], loglevel, depth, step)
    BY <2>1 DEF Shown, ShownAs
  <2>5. Live(consoles[q]) => UpTo(Stream(consoles[q]), consoles[q], loglevel, depth, step + 1)
    <3>1. /\ Stream(consoles[q]) \in Seq(Cell) /\ loglevel \in Nat /\ depth \in Nat
          /\ step \in Nat /\ step > 0
      BY <2>1, InvIs
    <3>. QED  BY <2>1, <2>4, <3>1, Skipped
  <2>6. Live(consoles[q])' => UpTo(Stream(consoles[q])', consoles[q]', loglevel', depth', step')
    BY <2>2, <2>3, <2>5
  <2>. QED  BY <2>6 DEF Shown, ShownAs
<1>. QED  BY <1>2, <1>3, <1>4

-----------------------------------------------------------------------------
(* printk has come to the next place; the character before it has been     *)
(* added to the stream it belongs to, or that console has given up.        *)
Written ==
  /\ at = "write" /\ UNCHANGED <<loglevel, consoles, depth, buffer>> /\ NextPlace
  /\ \A c \in Kinds :
       /\ c # consoles[i] => Stream(c)' = Stream(c)
       /\ c = consoles[i] =>
            \/ Live(c) /\ Stream(c)' = Append(Stream(c), Char)
            \/ Stream(c)' = Stream(c) /\ ~Live(c)'
       /\ Live(c)' => Live(c)
  /\ fifo' \in Seq(Cell) /\ wire' \in Seq(Cell) /\ screen' \in Seq(Cell)
  /\ Len(fifo') <= FifoSize
  /\ timeout' \in 0 .. PollLimit /\ uartFailed' \in BOOLEAN /\ (~uartFailed' => timeout' > 0)

LEMMA CharIs ==
  ASSUME Inv, at = "write"
  PROVE  /\ i \in Places /\ pos \in 1 .. Chars /\ i \in Nat /\ pos \in Nat
         /\ consoles[i] \in Kinds /\ Char = <<<<depth, step>>, pos>> /\ Char \in Cell
         /\ Prints(loglevel, depth, step) /\ Kind(depth, step) = "print"
<1>1. /\ i \in Places /\ pos \in 1 .. Chars /\ buffer = <<depth, step>>
      /\ Prints(loglevel, depth, step)
  BY InvIs DEF Position
<1>2. i \in Nat /\ pos \in Nat /\ consoles[i] \in Kinds /\ step \in Nat /\ depth \in Nat
  BY <1>1, InvIs DEF Places
<1>3. Char = <<<<depth, step>>, pos>>
  BY <1>1 DEF Char
<1>. QED  BY <1>1, <1>2, <1>3 DEF Cell, Prints

LEMMA WrittenTyped ==
  ASSUME Inv, Written
  PROVE  Typed' /\ Position' /\ Flushed'
<1>1. /\ i \in Nat /\ i \in Places /\ pos \in Nat /\ pos \in 1 .. Chars
      /\ Prints(loglevel, depth, step) /\ Kind(depth, step) = "print" /\ buffer = <<depth, step>>
  BY CharIs, InvIs DEF Written, Position
<1>2. /\ step \in Nat /\ step > 0 /\ step <= Len(StepsAt(depth)) /\ Len(StepsAt(depth)) \in Nat
      /\ Len(consoles) \in Nat /\ Len(consoles) <= 2 /\ Chars \in Nat /\ Chars > 0
      /\ depth \in Nat /\ loglevel \in Nat
  BY InvIs
<1>3. step + 1 <= Len(StepsAt(depth))
  <2>1. step \in 1 .. Len(StepsAt(depth))
    BY <1>2
  <2>2. step < Len(StepsAt(depth))
    BY <1>1, <1>2, <2>1, StepsAre
  <2>. QED  BY <1>2, <2>2
<1>4. \/ at' = "write" /\ i' = i /\ pos' = pos + 1 /\ pos < Chars /\ step' = step
      \/ at' = "write" /\ i' = i + 1 /\ i < Len(consoles) /\ pos' = 1 /\ step' = step
      \/ at' = "step" /\ i' = 1 /\ pos' = 1 /\ step' = step + 1
  BY DEF Written, NextPlace, Goto
<1>5. /\ i' \in 1 .. 2 /\ pos' \in 1 .. Chars /\ step' \in 1 .. Len(StepsAt(depth))
      /\ at' = "write" => i' \in Places /\ step' = step
  BY <1>1, <1>2, <1>3, <1>4 DEF Places
<1>6. Typed'
  <2>1. Steps' = StepsAt(depth) /\ at' \in {"write", "step"}
    BY <1>4 DEF Written, Steps, StepsAt
  <2>2. Typed /\ TypeOK
    BY InvIs DEF Typed
  <2>3. TypeOK'
    BY <1>5, <2>1, <2>2 DEF Written, TypeOK, MAX_CONSOLES
  <2>. QED  BY <2>2, <2>3 DEF Typed, Written
<1>7. Position'
  <2>1. at' \in {"write", "step"} /\ depth' = depth /\ loglevel' = loglevel /\ buffer' = buffer
        /\ (~uartFailed' => timeout' > 0) /\ Places' = Places
    BY <1>4 DEF Written, Places
  <2>. QED  BY <1>1, <1>5, <2>1 DEF Position
<1>8. Flushed'
  <2>1. CASE at' = "write"
    BY <2>1 DEF Flushed
  <2>2. CASE at' = "step" /\ step' = step + 1
    <3>1. ASSUME FlushedBefore(loglevel, depth, step + 1) PROVE FALSE
      <4>1. PICK f \in 1 .. (step + 1) - 1 :
              Kind(depth, f) = "flush" /\ \A t \in f + 1 .. (step + 1) - 1 : ~Prints(loglevel, depth, t)
        BY <1>2, <3>1 DEF FlushedBefore
      <4>2. f # step
        BY <1>1, <4>1
      <4>3. step \in f + 1 .. (step + 1) - 1
        BY <1>2, <4>2
      <4>. QED  BY <1>1, <4>1, <4>3
    <3>2. ~FlushedBefore(loglevel', depth', step')
      BY <2>2, <3>1 DEF Written
    <3>. QED  BY <2>2, <3>2 DEF Flushed
  <2>. QED  BY <1>4, <2>1, <2>2
<1>. QED  BY <1>6, <1>7, <1>8

LEMMA WrittenInOrder ==
  ASSUME Inv, Written
  PROVE  Consoles' /\ Ordered'
<1>1. /\ i \in Places /\ pos \in 1 .. Chars /\ consoles[i] \in Kinds
      /\ Char = <<<<depth, step>>, pos>> /\ Char \in Cell /\ Prints(loglevel, depth, step)
      /\ pos \in Nat
  BY CharIs DEF Written
<1>2. Consoles'
  <2>1. step' = step \/ step' = step + 1
    BY DEF Written, NextPlace
  <2>2. \A c \in Kinds : (\A q \in Places : consoles[q] # c) => Stream(c)' = Stream(c)
    BY <1>1 DEF Written
  <2>. QED  BY <2>1, <2>2, ConsolesStay DEF Written
<1>3. Ordered'
  <2>0. loglevel' = loglevel /\ Ordered
    BY InvIs DEF Written
  <2>1. ASSUME NEW c \in Kinds, c = consoles[i], Live(c)
        PROVE  InOrder(loglevel, Append(Stream(c), Char))
    <3>1. Stream(c) \in Seq(Cell) /\ loglevel \in Nat /\ depth \in Nat /\ step \in Nat
      BY InvIs
    <3>2. InOrder(loglevel, Stream(c))
      BY <2>0 DEF Ordered
    <3>3. Shown(i) /\ ~(i < i) /\ at = "write"
      BY <1>1 DEF Inv, Places, Written
    <3>4. IF pos > 1 THEN Ends(Stream(c), <<depth, step>>, pos - 1)
                     ELSE Before(Stream(c), loglevel, depth, step)
      BY <2>1, <3>3 DEF Shown, ShownAs, UpTo
    <3>5. Stream(c) # <<>> => Succeeds(loglevel, Last(Stream(c)), Char)
      BY <1>1, <3>1, <3>4, FollowsLast
    <3>. QED  BY <1>1, <3>1, <3>2, <3>5, OrderlyMore
  <2>2. ASSUME NEW c \in Kinds PROVE InOrder(loglevel', Stream(c)')
    <3>1. InOrder(loglevel, Stream(c))
      BY <2>0 DEF Ordered
    <3>. QED  BY <2>0, <2>1, <3>1 DEF Written
  <2>. QED  BY <2>2 DEF Ordered
<1>. QED  BY <1>2, <1>3

LEMMA WrittenShown ==
  ASSUME Inv, Written
  PROVE  \A q \in Places' : Shown(q)'
<1>1. /\ i \in Places /\ pos \in 1 .. Chars /\ consoles[i] \in Kinds
      /\ Char = <<<<depth, step>>, pos>> /\ Char \in Cell /\ Prints(loglevel, depth, step)
      /\ pos \in Nat /\ i \in Nat /\ at = "write" /\ Chars \in Nat
  BY CharIs, InvIs DEF Written
<1>2. SUFFICES ASSUME NEW q \in Places, Live(consoles[q])'
               PROVE  ShownAs(q, consoles[q], Stream(consoles[q])', loglevel, depth, step', at', i', pos')
  BY DEF Shown, Written, Places
<1>. DEFINE c == consoles[q]
            s == Stream(consoles[q])
            s2 == Stream(consoles[q])'
<1>3. /\ c \in Kinds /\ s \in Seq(Cell) /\ loglevel \in Nat /\ depth \in Nat
      /\ step \in Nat /\ step > 0 /\ q \in Nat /\ (q # i => c # consoles[i])
  BY <1>1, InvIs DEF Places, Consoles
<1>4. Live(c)' /\ consoles' = consoles
  BY <1>2 DEF Written
<1>5. Live(c)
  BY <1>3, <1>4 DEF Written, Live
<1>6. ShownAs(q, c, s, loglevel, depth, step, "write", i, pos)
  BY <1>1, <1>5 DEF Inv, Shown
<1>7. q # i => s2 = s
  BY <1>3 DEF Written
<1>8. q = i => s2 = Append(s, Char)
  BY <1>3, <1>4 DEF Written, Live, Kinds
<1>9. q = i => Ends(s2, <<depth, step>>, pos)
  BY <1>1, <1>3, <1>8, Appended DEF Ends
<1>10. q < i => Ends(s2, <<depth, step>>, Chars)
  BY <1>1, <1>3, <1>6, <1>7 DEF ShownAs
<1>11. i < q => UpTo(s2, c, loglevel, depth, step)
  BY <1>1, <1>3, <1>6, <1>7 DEF ShownAs
<1>12. \/ at' = "write" /\ i' = i /\ pos' = pos + 1 /\ pos < Chars /\ step' = step
       \/ at' = "write" /\ i' = i + 1 /\ pos' = 1 /\ ~(pos < Chars) /\ step' = step
       \/ at' = "step" /\ ~(i < Len(consoles)) /\ ~(pos < Chars) /\ step' = step + 1
  BY DEF Written, NextPlace, Goto
<1>. HIDE DEF c, s, s2
<1>13. ShownAs(q, c, s2, loglevel, depth, step', at', i', pos')
  <2>1. CASE at' = "write" /\ i' = i /\ pos' = pos + 1 /\ pos < Chars /\ step' = step
    <3>1. pos' - 1 = pos /\ pos' > 1
      BY <1>1, <2>1
    <3>2. q < i \/ q = i \/ i < q
      BY <1>1, <1>3
    <3>. QED  BY <1>1, <1>3, <1>9, <1>10, <1>11, <2>1, <3>1, <3>2 DEF ShownAs
  <2>2. CASE at' = "write" /\ i' = i + 1 /\ pos' = 1 /\ ~(pos < Chars) /\ step' = step
    <3>1. pos = Chars /\ ~(pos' > 1)
      BY <1>1, <2>2
    <3>2. \/ q < i' /\ (q < i \/ q = i)
          \/ ~(q < i') /\ i < q
      BY <1>1, <1>3, <2>2
    <3>3. q < i' => Ends(s2, <<depth, step>>, Chars)
      BY <1>1, <1>3, <1>9, <1>10, <3>1, <3>2
    <3>4. ~(q < i') => UpTo(s2, c, loglevel, depth, step)
      BY <1>1, <1>3, <1>11, <3>2
    <3>. QED  BY <2>2, <3>1, <3>3, <3>4 DEF ShownAs
  <2>3. CASE at' = "step" /\ ~(i < Len(consoles)) /\ ~(pos < Chars) /\ step' = step + 1
    <3>1. pos = Chars /\ (q < i \/ q = i)
      BY <1>1, <1>2, <1>3, <2>3, InvIs DEF Places
    <3>2. Ends(s2, <<depth, step>>, Chars)
      BY <1>9, <1>10, <3>1
    <3>3. s2 \in Seq(Cell)
      BY <1>1, <1>3, <1>7, <1>8, Appended
    <3>4. UpTo(s2, c, loglevel, depth, step + 1)
      BY <1>1, <1>3, <3>2, <3>3, LineOver
    <3>. QED  BY <2>3, <3>4 DEF ShownAs
  <2>. QED  BY <1>12, <2>1, <2>2, <2>3
<1>. QED  BY <1>13 DEF c, s2

LEMMA WrittenKeeps ==
  ASSUME Inv, Written
  PROVE  Inv'
<1>. QED  BY WrittenTyped, WrittenInOrder, WrittenShown DEF Inv

-----------------------------------------------------------------------------
(* The actions of printk. *)
LEMMA TypedStays ==
  ASSUME Inv, UNCHANGED <<loglevel, consoles, depth>>,
         fifo' \in Seq(Cell), wire' \in Seq(Cell), screen' \in Seq(Cell), Len(fifo') <= FifoSize,
         step' \in 1 .. Len(StepsAt(depth)), at' \in {"step", "write", "flush", "jumped", "parked"},
         i' \in 1 .. 2, pos' \in 1 .. Chars,
         timeout' \in 0 .. PollLimit, uartFailed' \in BOOLEAN
  PROVE  Typed'
<1>1. Steps' = StepsAt(depth)
  BY DEF Steps, StepsAt
<1>2. Typed /\ TypeOK
  BY InvIs DEF Typed
<1>3. TypeOK'
  BY <1>1, <1>2 DEF TypeOK, MAX_CONSOLES
<1>. QED  BY <1>2, <1>3 DEF Typed

LEMMA TypedNow ==
  ASSUME Inv
  PROVE  /\ fifo \in Seq(Cell) /\ wire \in Seq(Cell) /\ screen \in Seq(Cell) /\ consoles \in Seq(Kinds)
         /\ Len(fifo) <= FifoSize /\ step \in 1 .. Len(StepsAt(depth))
         /\ at \in {"step", "write", "flush", "jumped", "parked"}
         /\ i \in 1 .. 2 /\ pos \in 1 .. Chars /\ timeout \in 0 .. PollLimit /\ uartFailed \in BOOLEAN
         /\ PollLimit \in 0 .. PollLimit /\ 1 \in 1 .. 2 /\ 1 \in 1 .. Chars
<1>1. Typed /\ TypeOK /\ Steps = StepsAt(depth)
  BY InvIs DEF Typed
<1>2. PollLimit \in Nat /\ Chars \in Nat /\ Chars > 0
  BY InvIs
<1>. QED  BY <1>1, <1>2 DEF Typed, TypeOK, MAX_CONSOLES

LEMMA PlacesThere ==
  ASSUME Inv
  PROVE  consoles # <<>> <=> 1 \in Places
<1>1. Len(consoles) \in Nat /\ consoles \in Seq(Kinds)
  BY InvIs, TypedNow
<1>2. consoles = <<>> <=> Len(consoles) = 0
  BY <1>1, EmptySeq
<1>. QED  BY <1>1, <1>2 DEF Places

LEMMA DrawKeeps ==
  ASSUME Inv, Draw
  PROVE  Inv'
<1>1. /\ i \in Places /\ Char \in Cell /\ consoles[i] = "simplefb"
  BY CharIs DEF Draw
<1>2. screen' \in Seq(Cell)
  BY <1>1, TypedNow, Appended DEF Draw
<1>3. ASSUME NEW c \in Kinds
      PROVE  /\ c # consoles[i] => Stream(c)' = Stream(c)
             /\ c = consoles[i] => Live(c) /\ Stream(c)' = Append(Stream(c), Char)
             /\ Live(c)' => Live(c)
  BY <1>1 DEF Kinds, Stream, Live, Draw, uartVars
<1>4. ~uartFailed' => timeout' > 0
  BY InvIs DEF Draw, Position, uartVars
<1>5. Written
  BY <1>2, <1>3, <1>4, TypedNow DEF Written, Draw, uartVars
<1>. QED  BY <1>5, WrittenKeeps

LEMMA PutCharKeeps ==
  ASSUME Inv, PutChar
  PROVE  Inv'
<1>1. /\ i \in Places /\ Char \in Cell /\ consoles[i] = "earlycon"
  BY CharIs DEF PutChar
<1>2. fifo' \in Seq(Cell) /\ Len(fifo') <= FifoSize
  <2>1. fifo \in Seq(Cell) /\ Len(fifo) \in Nat /\ Len(fifo) < FifoSize /\ FifoSize \in Nat
    BY TypedNow, LenProperties, ConsoleAssumption DEF PutChar, Room
  <2>2. Append(fifo, Char) \in Seq(Cell) /\ Len(Append(fifo, Char)) = Len(fifo) + 1
    BY <1>1, <2>1, AppendProperties
  <2>. QED  BY <2>1, <2>2 DEF PutChar
<1>3. wire' \o fifo' = Append(wire \o fifo, Char)
  BY <1>1, TypedNow, Enqueued DEF PutChar
<1>4. ASSUME NEW c \in Kinds
      PROVE  /\ c # consoles[i] => Stream(c)' = Stream(c)
             /\ c = consoles[i] => Live(c) /\ Stream(c)' = Append(Stream(c), Char)
             /\ Live(c)' => Live(c)
  BY <1>1, <1>3 DEF Kinds, Stream, Live, PutChar
<1>5. timeout' \in 0 .. PollLimit /\ timeout' > 0 /\ uartFailed' \in BOOLEAN
  BY TypedNow, InvIs DEF PutChar
<1>6. Written
  BY <1>2, <1>4, <1>5, TypedNow DEF Written, PutChar
<1>. QED  BY <1>6, WrittenKeeps

LEMMA PollCharKeeps ==
  ASSUME Inv, PollChar
  PROVE  Inv'
<1>1. /\ i \in Places /\ Char \in Cell /\ consoles[i] = "earlycon"
  BY CharIs DEF PollChar
<1>2. timeout \in 0 .. PollLimit /\ timeout > 0 /\ PollLimit \in Nat /\ PollLimit > 0
  BY TypedNow, InvIs DEF Position, PollChar
<1>3. CASE PollsLeft = 0
  <2>1. uartFailed' /\ timeout' = PollLimit /\ NextPlace /\ uartFailed' \in BOOLEAN
    BY <1>3 DEF PollChar, GivesUp
  <2>2. ASSUME NEW c \in Kinds
        PROVE  /\ c # consoles[i] => Stream(c)' = Stream(c)
               /\ c = consoles[i] => Stream(c)' = Stream(c) /\ ~Live(c)'
               /\ Live(c)' => Live(c)
    BY <1>1, <2>1 DEF Kinds, Stream, Live, PollChar
  <2>3. Written
    BY <1>2, <2>1, <2>2, TypedNow DEF Written, PollChar
  <2>. QED  BY <2>3, WrittenKeeps
<1>4. CASE PollsLeft # 0
  <2>1. /\ timeout' = timeout - 1 /\ timeout - 1 # 0 /\ ~uartFailed' /\ uartFailed' \in BOOLEAN
        /\ UNCHANGED <<at, i, pos, step, loglevel, consoles, depth, buffer, fifo, wire, screen>>
    BY <1>4 DEF PollChar, GivesUp, PollsLeft
  <2>2. timeout' \in 0 .. PollLimit /\ timeout' > 0
    BY <1>2, <2>1
  <2>3. Typed'
    BY <2>1, <2>2, TypedNow, TypedStays
  <2>4. Position'
    BY <2>1, <2>2, InvIs DEF Position, Places
  <2>5. Flushed'
    BY <2>1, InvIs DEF Flushed, Places, PollChar
  <2>6. Consoles' /\ Ordered' /\ \A q \in Places' : Shown(q)'
    BY <2>1, Still DEF PollChar
  <2>. QED  BY <2>3, <2>4, <2>5, <2>6 DEF Inv
<1>. QED  BY <1>3, <1>4

LEMMA DropCharKeeps ==
  ASSUME Inv, DropChar
  PROVE  Inv'
<1>1. /\ i \in Places /\ Char \in Cell /\ consoles[i] = "earlycon"
  BY CharIs DEF DropChar
<1>2. ASSUME NEW c \in Kinds
      PROVE  /\ c # consoles[i] => Stream(c)' = Stream(c)
             /\ c = consoles[i] => Stream(c)' = Stream(c) /\ ~Live(c)'
             /\ Live(c)' => Live(c)
  BY <1>1 DEF Kinds, Stream, Live, DropChar, uartVars
<1>3. Written
  BY <1>2, TypedNow DEF Written, DropChar, uartVars
<1>. QED  BY <1>3, WrittenKeeps

(* What was flushed before a step is flushed after it, unless it flushes. *)
LEMMA FlushedEarlier ==
  ASSUME NEW lev, NEW d, NEW n \in Nat, n > 0, Kind(d, n) # "flush", FlushedBefore(lev, d, n + 1)
  PROVE  FlushedBefore(lev, d, n)
<1>1. PICK f \in 1 .. n : Kind(d, f) = "flush" /\ \A t \in f + 1 .. n : ~Prints(lev, d, t)
  <2>1. (n + 1) - 1 = n
    OBVIOUS
  <2>. QED  BY <2>1 DEF FlushedBefore
<1>2. f \in 1 .. n - 1 /\ \A t \in f + 1 .. n - 1 : t \in f + 1 .. n
  BY <1>1
<1>. QED  BY <1>1, <1>2 DEF FlushedBefore

LEMMA FormatKeeps ==
  ASSUME Inv, Format
  PROVE  Inv'
<1>1. /\ at = "step" /\ Kind(depth, step) = "print" /\ timeout' = PollLimit
      /\ UNCHANGED <<loglevel, consoles, depth, uartFailed, fifo, wire, screen>>
      /\ Now = StepsAt(depth)[step]
  BY InvIs DEF Format, Now
<1>2. /\ timeout' \in 0 .. PollLimit /\ timeout' > 0 /\ uartFailed' \in BOOLEAN
      /\ Places' = Places
  BY <1>1, InvIs, TypedNow DEF Places
<1>3. CASE Loud
  <2>1. buffer' = <<depth, step>> /\ at' = "write" /\ i' = 1 /\ pos' = 1 /\ step' = step
    BY <1>3 DEF Format, Goto
  <2>2. Prints(loglevel, depth, step) /\ 1 \in Places
    BY <1>1, <1>3, TypedNow, PlacesThere DEF Loud, Prints
  <2>3. Typed'
    BY <1>1, <1>2, <2>1, TypedNow, TypedStays
  <2>4. Position'
    BY <1>1, <1>2, <2>1, <2>2, TypedNow DEF Position
  <2>5. Flushed'
    BY <2>1 DEF Flushed
  <2>6. Consoles' /\ Ordered' /\ \A q \in Places' : Shown(q)'
    BY <1>1, <2>1, Still
  <2>. QED  BY <2>3, <2>4, <2>5, <2>6 DEF Inv
<1>4. CASE ~Loud
  <2>1. UNCHANGED <<at, i, pos, buffer>> /\ step' = step + 1
    BY <1>4 DEF Format, printVars
  <2>2. consoles # <<>> => ~Prints(loglevel, depth, step)
    BY <1>1, <1>4 DEF Loud, Prints
  <2>3. step' \in 1 .. Len(StepsAt(depth))
    <3>1. step < Len(StepsAt(depth)) /\ step \in Nat /\ Len(StepsAt(depth)) \in Nat
      BY <1>1, InvIs, TypedNow, StepsAre
    <3>. QED  BY <2>1, <3>1
  <2>4. Typed'
    BY <1>1, <1>2, <2>1, <2>3, TypedNow, TypedStays
  <2>5. Position'
    BY <1>1, <2>1 DEF Position
  <2>6. Flushed'
    <3>1. FlushedBefore(loglevel, depth, step + 1) => FlushedBefore(loglevel, depth, step)
      BY <1>1, InvIs, FlushedEarlier
    <3>. QED  BY <1>1, <1>2, <2>1, <3>1, InvIs DEF Flushed
  <2>7. Consoles' /\ Ordered' /\ \A q \in Places' : Shown(q)'
    BY <1>1, <2>1, <2>2, StepOn
  <2>. QED  BY <2>4, <2>5, <2>6, <2>7 DEF Inv
<1>. QED  BY <1>3, <1>4

-----------------------------------------------------------------------------
(* The actions of console_flush, and the last one. *)
LEMMA StartFlushKeeps ==
  ASSUME Inv, StartFlush
  PROVE  Inv'
<1>1. /\ at = "step" /\ Kind(depth, step) = "flush" /\ timeout' = PollLimit
      /\ UNCHANGED <<loglevel, consoles, depth, buffer, uartFailed, fifo, wire, screen>>
  BY InvIs DEF StartFlush
<1>2. /\ timeout' \in 0 .. PollLimit /\ timeout' > 0 /\ uartFailed' \in BOOLEAN
      /\ Places' = Places
  BY <1>1, InvIs, TypedNow DEF Places
<1>3. CASE consoles = <<>>
  <2>1. UNCHANGED <<at, i, pos>> /\ step' = step + 1
    BY <1>3 DEF StartFlush
  <2>2. step' \in 1 .. Len(StepsAt(depth))
    <3>1. step < Len(StepsAt(depth)) /\ step \in Nat /\ Len(StepsAt(depth)) \in Nat
      BY <1>1, InvIs, TypedNow, StepsAre
    <3>. QED  BY <2>1, <3>1
  <2>3. Typed'
    BY <1>1, <1>2, <2>1, <2>2, TypedNow, TypedStays
  <2>4. Position'
    BY <1>1, <2>1 DEF Position
  <2>5. \A q \in Places : FALSE
    <3>1. Len(consoles) = 0
      BY <1>3, EmptySeq
    <3>. QED  BY <3>1 DEF Places
  <2>6. Flushed'
    BY <1>2, <2>5 DEF Flushed
  <2>7. Consoles' /\ Ordered' /\ \A q \in Places' : Shown(q)'
    BY <1>1, <1>3, <2>1, StepOn
  <2>. QED  BY <2>3, <2>4, <2>6, <2>7 DEF Inv
<1>4. CASE consoles # <<>>
  <2>1. at' = "flush" /\ i' = 1 /\ pos' = 1 /\ step' = step
    BY <1>4 DEF StartFlush, Goto
  <2>2. Typed'
    BY <1>1, <1>2, <2>1, TypedNow, TypedStays
  <2>3. Position'
    <3>1. 1 \in Places
      BY <1>4, PlacesThere
    <3>. QED  BY <1>1, <1>2, <2>1, <3>1, TypedNow DEF Position
  <2>4. Flushed'
    <3>1. \A q \in Places : ~(q < 1)
      BY DEF Places
    <3>. QED  BY <1>1, <1>2, <2>1, <3>1, InvIs DEF Flushed
  <2>5. Consoles' /\ Ordered' /\ \A q \in Places' : Shown(q)'
    BY <1>1, <2>1, Still
  <2>. QED  BY <2>2, <2>3, <2>4, <2>5 DEF Inv
<1>. QED  BY <1>3, <1>4

(* Console i has been flushed, or has given up. *)
LEMMA FlushGoesOn ==
  ASSUME Inv, at = "flush", NextFlush,
         UNCHANGED <<loglevel, consoles, depth, buffer, fifo, wire, screen>>,
         consoles[i] = "earlycon" /\ ~uartFailed' => fifo = <<>>,
         ~uartFailed' => ~uartFailed /\ timeout' = timeout,
         timeout' \in 0 .. PollLimit, uartFailed' \in BOOLEAN
  PROVE  Inv'
<1>1. /\ i \in Places /\ i \in Nat /\ Kind(depth, step) = "flush" /\ Places' = Places
      /\ ~uartFailed' => timeout' > 0
  BY InvIs DEF Position, Places
<1>2. /\ Len(consoles) \in Nat /\ Len(consoles) <= 2
      /\ \A q \in Places : q \in Nat /\ q > 0 /\ q <= Len(consoles)
      /\ \A q \in Places : q < i /\ consoles[q] = "earlycon" /\ ~uartFailed' => fifo = <<>>
  BY InvIs DEF Places, Flushed
<1>3. CASE i < Len(consoles)
  <2>1. at' = "flush" /\ i' = i + 1 /\ pos' = 1 /\ step' = step
    BY <1>3 DEF NextFlush, Goto
  <2>2. i' \in Places /\ i' \in 1 .. 2
    BY <1>1, <1>2, <1>3, <2>1 DEF Places
  <2>3. Typed'
    BY <2>1, <2>2, TypedNow, TypedStays
  <2>4. Position'
    BY <1>1, <2>1, <2>2, TypedNow DEF Position
  <2>5. Flushed'
    <3>1. ASSUME NEW q \in Places, consoles[q] = "earlycon", ~uartFailed', q < i + 1
          PROVE  fifo = <<>>
      <4>1. q < i \/ q = i
        BY <1>1, <1>2, <3>1
      <4>. QED  BY <1>2, <3>1, <4>1
    <3>2. ASSUME NEW q \in Places, consoles[q] = "earlycon", ~uartFailed',
                 FlushedBefore(loglevel, depth, step)
          PROVE  fifo = <<>>
      BY <3>2, InvIs DEF Flushed
    <3>. QED  BY <1>1, <2>1, <3>1, <3>2 DEF Flushed
  <2>6. Consoles' /\ Ordered' /\ \A q \in Places' : Shown(q)'
    BY <2>1, Still
  <2>. QED  BY <2>3, <2>4, <2>5, <2>6 DEF Inv
<1>4. CASE ~(i < Len(consoles))
  <2>1. at' = "step" /\ i' = 1 /\ pos' = 1 /\ step' = step + 1
    BY <1>4 DEF NextFlush, Goto
  <2>2. step' \in 1 .. Len(StepsAt(depth))
    <3>1. step < Len(StepsAt(depth)) /\ step \in Nat /\ Len(StepsAt(depth)) \in Nat
      BY <1>1, InvIs, TypedNow, StepsAre
    <3>. QED  BY <2>1, <3>1
  <2>3. Typed'
    BY <2>1, <2>2, TypedNow, TypedStays
  <2>4. Position'
    BY <2>1 DEF Position
  <2>5. Flushed'
    <3>1. ASSUME NEW q \in Places, consoles[q] = "earlycon", ~uartFailed'
          PROVE  fifo = <<>>
      <4>1. q < i \/ q = i
        BY <1>1, <1>2, <1>4
      <4>. QED  BY <1>2, <3>1, <4>1
    <3>. QED  BY <1>1, <2>1, <3>1 DEF Flushed
  <2>6. Consoles' /\ Ordered' /\ \A q \in Places' : Shown(q)'
    BY <1>1, <2>1, StepOn DEF Prints
  <2>. QED  BY <2>3, <2>4, <2>5, <2>6 DEF Inv
<1>. QED  BY <1>3, <1>4

LEMMA FlushKeeps ==
  ASSUME Inv, FlushDone \/ PollFlush
  PROVE  Inv'
<1>1. CASE FlushDone
  <2>1. consoles[i] = "earlycon" /\ ~uartFailed' => fifo = <<>>
    BY <1>1 DEF FlushDone, Drained, uartVars
  <2>. QED  BY <1>1, <2>1, TypedNow, FlushGoesOn DEF FlushDone, uartVars
<1>2. CASE PollFlush
  <2>1. timeout \in 0 .. PollLimit /\ timeout > 0 /\ PollLimit \in Nat
    BY <1>2, TypedNow, InvIs DEF Position, PollFlush
  <2>2. timeout' = timeout - 1 /\ timeout' \in 0 .. PollLimit
    BY <1>2, <2>1 DEF PollFlush, PollsLeft
  <2>3. CASE PollsLeft = 0
    <3>1. uartFailed' /\ NextFlush /\ uartFailed' \in BOOLEAN
      BY <1>2, <2>3 DEF PollFlush, GivesUp
    <3>. QED  BY <1>2, <2>2, <3>1, FlushGoesOn DEF PollFlush
  <2>4. CASE PollsLeft # 0
    <3>1. /\ timeout - 1 # 0 /\ ~uartFailed' /\ uartFailed' \in BOOLEAN /\ ~uartFailed
          /\ UNCHANGED <<at, i, pos, step, loglevel, consoles, depth, buffer, fifo, wire, screen>>
      BY <1>2, <2>4 DEF PollFlush, GivesUp, PollsLeft
    <3>2. timeout' > 0
      BY <2>1, <2>2, <3>1
    <3>3. Typed'
      BY <2>2, <3>1, TypedNow, TypedStays
    <3>4. Position'
      BY <3>1, <3>2, InvIs DEF Position, Places
    <3>5. Flushed'
      BY <3>1, InvIs DEF Flushed, Places
    <3>6. Consoles' /\ Ordered' /\ \A q \in Places' : Shown(q)'
      BY <3>1, Still
    <3>. QED  BY <3>3, <3>4, <3>5, <3>6 DEF Inv
  <2>. QED  BY <2>3, <2>4
<1>. QED  BY <1>1, <1>2

LEMMA LeaveKeeps ==
  ASSUME Inv, Leave
  PROVE  Inv'
<1>1. /\ at = "step" /\ Kind(depth, step) \in {"jump", "park"} /\ at' \in {"jumped", "parked"}
      /\ UNCHANGED <<loglevel, consoles, depth, step, i, pos, buffer, timeout, uartFailed, fifo,
                     wire, screen>>
  BY InvIs DEF Leave, uartVars
<1>2. Typed'
  BY <1>1, TypedNow, TypedStays
<1>3. Position'
  BY <1>1 DEF Position
<1>4. Flushed'
  BY <1>1, InvIs DEF Flushed, Places
<1>5. Consoles' /\ Ordered' /\ \A q \in Places' : Shown(q)'
  BY <1>1, Still
<1>. QED  BY <1>2, <1>3, <1>4, <1>5 DEF Inv

LEMMA UartSendsKeeps ==
  ASSUME Inv, UartSends
  PROVE  Inv'
<1>1. /\ UNCHANGED <<loglevel, consoles, depth, step, at, i, pos, buffer, timeout, uartFailed,
                     screen>>
      /\ fifo # <<>> /\ wire' = Append(wire, Head(fifo)) /\ fifo' = Tail(fifo)
  BY DEF UartSends, printVars
<1>2. /\ wire' \o fifo' = wire \o fifo /\ wire' \in Seq(Cell) /\ fifo' \in Seq(Cell)
      /\ Len(fifo') <= FifoSize
  <2>1. Len(fifo) \in Nat /\ FifoSize \in Nat
    BY TypedNow, LenProperties, ConsoleAssumption
  <2>2. /\ wire' \o fifo' = wire \o fifo /\ wire' \in Seq(Cell) /\ fifo' \in Seq(Cell)
        /\ Len(fifo') <= Len(fifo)
    BY <1>1, TypedNow, Sent
  <2>3. Len(fifo') \in Nat
    BY <2>2, LenProperties
  <2>. QED  BY <2>1, <2>2, <2>3, TypedNow
<1>3. Typed'
  BY <1>1, <1>2, TypedNow, TypedStays
<1>4. Position'
  BY <1>1, InvIs DEF Position, Places
<1>5. Flushed'
  BY <1>1, InvIs DEF Flushed, Places
<1>6. Consoles' /\ Ordered' /\ \A q \in Places' : Shown(q)'
  BY <1>1, <1>2, Still
<1>. QED  BY <1>3, <1>4, <1>5, <1>6 DEF Inv

LEMMA StutterKeeps ==
  ASSUME Inv, UNCHANGED vars
  PROVE  Inv'
<1>1. UNCHANGED <<loglevel, consoles, depth, step, at, i, pos, buffer, timeout, uartFailed, fifo,
                  wire, screen>>
  BY DEF vars, printVars, uartVars
<1>2. Typed'
  BY <1>1, TypedNow, TypedStays
<1>3. Position'
  BY <1>1, InvIs DEF Position, Places
<1>4. Flushed'
  BY <1>1, InvIs DEF Flushed, Places
<1>5. Consoles' /\ Ordered' /\ \A q \in Places' : Shown(q)'
  BY <1>1, Still
<1>. QED  BY <1>2, <1>3, <1>4, <1>5 DEF Inv

-----------------------------------------------------------------------------
(* A console registers. *)
LEMMA RegisterIs ==
  ASSUME Inv, DoRegister
  PROVE  /\ depth = 0 /\ at = "step" /\ Kind(depth, step) = "register" /\ step' = step + 1
         /\ step' \in 1 .. Len(StepsAt(depth)) /\ step \in 1 .. Len(Boot)
         /\ Now.con \in Kinds /\ Boot[step] = Register(Now.con)
         /\ UNCHANGED <<loglevel, depth, at, i, pos, buffer, timeout, uartFailed, fifo, wire, screen>>
<1>1. /\ at = "step" /\ Kind(depth, step) = "register" /\ step' = step + 1
      /\ UNCHANGED <<loglevel, depth, at, i, pos, buffer, timeout, uartFailed, fifo, wire, screen>>
  BY InvIs DEF DoRegister, printVars, uartVars
<1>2. step' \in 1 .. Len(StepsAt(depth))
  <2>1. step < Len(StepsAt(depth)) /\ step \in Nat /\ Len(StepsAt(depth)) \in Nat
    BY <1>1, InvIs, TypedNow, StepsAre
  <2>. QED  BY <1>1, <2>1
<1>3. depth = 0
  <2>. SUFFICES ASSUME depth # 0 PROVE FALSE
    OBVIOUS
  <2>1. /\ Len(Handler) = 4 /\ Handler[1].do = "print" /\ Handler[2].do = "print"
        /\ Handler[3].do = "flush" /\ Handler[4].do = "park"
    BY DEF Handler, Say, Flush, Park
  <2>2. StepsAt(depth) = Handler
    BY DEF StepsAt
  <2>3. step = 1 \/ step = 2 \/ step = 3 \/ step = 4
    <3>1. step \in 1 .. Len(StepsAt(depth))
      BY TypedNow
    <3>2. step \in 1 .. 4
      BY <2>1, <2>2, <3>1
    <3>. QED  BY <3>2
  <2>. QED  BY <1>1, <2>1, <2>2, <2>3 DEF Kind
<1>4. step \in 1 .. Len(Boot) /\ Now = Boot[step]
  BY <1>3, TypedNow DEF StepsAt, Now, Steps
<1>5. Now.con \in Kinds /\ Boot[step] = Register(Now.con)
  <2>1. Boot[step].do = "register"
    BY <1>1, <1>3 DEF Kind, StepsAt
  <2>2. \/ \E c \in {"earlycon", "simplefb"} : Boot[step] = Register(c)
        \/ \E l \in 0 .. 7 : Boot[step] = Say(l)
        \/ Boot[step] \in {Flush, Jump}
    BY <1>4, ConsoleAssumption
  <2>3. PICK c \in {"earlycon", "simplefb"} : Boot[step] = Register(c)
    BY <2>1, <2>2 DEF Say, Flush, Jump
  <2>. QED  BY <1>4, <2>3 DEF Register, Kinds
<1>. QED  BY <1>1, <1>2, <1>3, <1>4, <1>5

LEMMA TwoConsoles ==
  ASSUME Inv, DoRegister, ~(Len(consoles) < MAX_CONSOLES)
  PROVE  Inv'
<1>1. /\ depth = 0 /\ at = "step" /\ Kind(depth, step) = "register" /\ step' = step + 1
      /\ step' \in 1 .. Len(StepsAt(depth)) /\ consoles' = consoles
      /\ UNCHANGED <<loglevel, depth, at, i, pos, buffer, timeout, uartFailed, fifo, wire, screen>>
  BY RegisterIs DEF DoRegister
<1>2. Typed'
  BY <1>1, TypedNow, TypedStays
<1>3. Position'
  BY <1>1 DEF Position
<1>4. Flushed'
  <2>1. FlushedBefore(loglevel, depth, step + 1) => FlushedBefore(loglevel, depth, step)
    BY <1>1, InvIs, FlushedEarlier
  <2>. QED  BY <1>1, <2>1, InvIs DEF Flushed, Places
<1>5. Consoles' /\ Ordered' /\ \A q \in Places' : Shown(q)'
  BY <1>1, StepOn DEF Prints
<1>. QED  BY <1>2, <1>3, <1>4, <1>5 DEF Inv

LEMMA OneMore ==
  ASSUME Inv, DoRegister, Len(consoles) < MAX_CONSOLES
  PROVE  Inv'
<1>. DEFINE c == Now.con
            n == Len(consoles)
<1>1. /\ depth = 0 /\ at = "step" /\ Kind(depth, step) = "register" /\ step' = step + 1
      /\ step' \in 1 .. Len(StepsAt(depth)) /\ consoles' = Append(consoles, c)
      /\ step \in 1 .. Len(Boot) /\ c \in Kinds /\ Boot[step] = Register(c)
      /\ UNCHANGED <<loglevel, depth, at, i, pos, buffer, timeout, uartFailed, fifo, wire, screen>>
      /\ loglevel \in Nat /\ step \in Nat /\ step > 0
  BY RegisterIs, InvIs DEF DoRegister
<1>2. /\ n \in Nat /\ n < 2 /\ consoles' \in Seq(Kinds) /\ Len(consoles') = n + 1
      /\ consoles'[n + 1] = c /\ \A q \in Places : consoles'[q] = consoles[q]
      /\ \A q \in Places' : q \in Places \/ q = n + 1
      /\ \A q \in Places : q \in Nat /\ q # n + 1 /\ q \in Places'
      /\ n + 1 \in Places' /\ \A q \in Places : consoles[q] \in Kinds
  <2>1. n \in Nat /\ n < 2 /\ \A q \in Places : consoles[q] \in Kinds
    BY InvIs DEF MAX_CONSOLES
  <2>2. /\ consoles' \in Seq(Kinds) /\ Len(consoles') = n + 1 /\ consoles'[n + 1] = c
        /\ \A q \in 1 .. n : consoles'[q] = consoles[q]
    BY <1>1, TypedNow, AppendProperties
  <2>. QED  BY <2>1, <2>2 DEF Places
<1>. HIDE DEF n
(* It has not registered before. *)
<1>3. ASSUME NEW m \in Nat, m <= step, RegisteredBefore(c, m) PROVE FALSE
  <2>1. PICK r \in 1 .. m - 1 : Boot[r] = Register(c)
    BY <1>3 DEF RegisteredBefore
  <2>2. r \in 1 .. Len(Boot) /\ r # step
    BY SMTT(30), <1>1, <1>3, <2>1, ConsoleAssumption
  <2>. QED  BY <1>1, <2>1, <2>2, ConsoleAssumption DEF Register
<1>4. \A q \in Places : consoles[q] # c /\ RegisteredBefore(consoles[q], step)
  <2>. SUFFICES ASSUME NEW q \in Places
                PROVE  consoles[q] # c /\ RegisteredBefore(consoles[q], step)
    OBVIOUS
  <2>1. RegisteredBefore(consoles[q], step)
    BY <1>1, InvIs DEF Consoles
  <2>. QED  BY <1>1, <1>3, <2>1
<1>5. Stream(c) = <<>>
  BY <1>1, <1>4, InvIs DEF Consoles
<1>6. \A k \in Kinds : Stream(k)' = Stream(k)
  BY <1>1 DEF Stream
<1>7. Typed'
  <2>1. Typed /\ TypeOK /\ Steps' = StepsAt(depth)
    BY <1>1, InvIs DEF Typed, Steps, StepsAt
  <2>2. /\ Len(consoles') <= MAX_CONSOLES
        /\ \A k \in 1 .. Len(consoles') : consoles'[k] \in {"earlycon", "simplefb"}
    BY <1>2, ElementOfSeq DEF MAX_CONSOLES, Kinds
  <2>3. TypeOK'
    BY <1>1, <2>1, <2>2 DEF TypeOK
  <2>. QED  BY <1>1, <1>2, <2>1, <2>3 DEF Typed
<1>8. Position'
  BY <1>1 DEF Position
<1>9. Flushed'
  <2>1. FlushedBefore(loglevel, depth, step + 1) => FlushedBefore(loglevel, depth, step)
    BY <1>1, InvIs, FlushedEarlier
  <2>2. ASSUME NEW q \in Places', consoles'[q] = "earlycon", ~uartFailed,
               FlushedBefore(loglevel, depth, step + 1)
        PROVE  fifo = <<>>
    <3>1. CASE q \in Places
      BY <1>1, <1>2, <2>1, <2>2, <3>1, InvIs DEF Flushed
    <3>2. CASE q = n + 1
      <4>1. wire \o fifo = <<>>
        BY <1>2, <1>5, <2>2, <3>2 DEF Stream
      <4>2. Len(wire) \in Nat /\ Len(fifo) \in Nat /\ Len(wire \o fifo) = Len(wire) + Len(fifo)
        BY TypedNow, LenProperties, ConcatProperties
      <4>3. Len(fifo) = 0
        BY <4>1, <4>2, EmptySeq
      <4>. QED  BY <4>3, TypedNow, EmptySeq
    <3>. QED  BY <1>2, <3>1, <3>2
  <2>. QED  BY <1>1, <2>2 DEF Flushed
<1>10. Consoles'
  <2>1. \A q, k \in Places' : consoles'[q] = consoles'[k] => q = k
    BY <1>2, <1>4, InvIs DEF Consoles
  <2>2. ASSUME NEW q \in Places' PROVE RegisteredBefore(consoles'[q], step + 1)
    <3>1. CASE q \in Places
      <4>1. RegisteredBefore(consoles[q], step) /\ step + 1 \in Nat /\ step <= step + 1
        BY <1>1, <1>4, <3>1
      <4>. QED  BY <1>1, <1>2, <3>1, <4>1, RegisteredStays
    <3>2. CASE q = n + 1
      <4>1. step \in 1 .. (step + 1) - 1
        BY <1>1
      <4>. QED  BY <1>1, <1>2, <3>2, <4>1 DEF RegisteredBefore
    <3>. QED  BY <1>2, <3>1, <3>2
  <2>3. ASSUME NEW k \in Kinds, \A q \in Places' : consoles'[q] # k PROVE Stream(k)' = <<>>
    <3>1. \A q \in Places : consoles[q] # k
      BY <1>2, <2>3
    <3>. QED  BY <1>6, <3>1, InvIs DEF Consoles
  <2>. QED  BY <1>1, <2>1, <2>2, <2>3 DEF Consoles
<1>11. Ordered'
  <2>1. \A k \in Kinds : InOrder(loglevel', Stream(k)')
    BY <1>1, <1>6, InvIs DEF Ordered
  <2>. QED  BY <2>1 DEF Ordered
<1>12. ASSUME NEW q \in Places' PROVE Shown(q)'
  <2>1. CASE q \in Places
    <3>1. consoles[q] \in Kinds /\ consoles'[q] = consoles[q] /\ Shown(q)
      BY <1>2, <2>1 DEF Inv
    <3>2. /\ Live(consoles[q])' => Live(consoles[q])
          /\ Stream(consoles[q])' = Stream(consoles[q])
      BY <1>1, <3>1 DEF Live, Stream
    <3>3. Live(consoles[q]) => UpTo(Stream(consoles[q]), consoles[q], loglevel, depth, step)
      BY <1>1, <3>1 DEF Shown, ShownAs
    <3>4. ~Prints(loglevel, depth, step) /\ Stream(consoles[q]) \in Seq(Cell) /\ depth \in Nat
      BY <1>1, <3>1, InvIs DEF Prints
    <3>5. Live(consoles[q]) => UpTo(Stream(consoles[q]), consoles[q], loglevel, depth, step + 1)
      BY <1>1, <3>3, <3>4, Skipped
    <3>6. Live(consoles[q])' => UpTo(Stream(consoles[q])', consoles[q]', loglevel', depth', step')
      BY <1>1, <3>1, <3>2, <3>5
    <3>. QED  BY <1>1, <3>6 DEF Shown, ShownAs
  <2>2. CASE q = n + 1
    <3>1. UpTo(<<>>, c, loglevel, 0, step + 1)
      <4>1. Before(<<>>, loglevel, 0, step + 1)
        BY DEF Before
      <4>2. Complete(<<>>, c, loglevel, 0, step + 1)
        <5>1. ASSUME NEW p \in 1 .. (step + 1) - 1, RegisteredBefore(c, p) PROVE FALSE
          <6>1. p \in Nat /\ p <= step
            BY <1>1
          <6>. QED  BY <1>3, <5>1, <6>1
        <5>. QED  BY <5>1 DEF Complete
      <4>. QED  BY <4>1, <4>2 DEF UpTo
    <3>2. Stream(consoles[q])' = <<>> /\ consoles'[q] = c
      BY <1>1, <1>2, <1>5, <2>2 DEF Stream
    <3>3. UpTo(Stream(consoles[q])', consoles[q]', loglevel', depth', step')
      BY <1>1, <3>1, <3>2
    <3>. QED  BY <1>1, <3>3 DEF Shown, ShownAs
  <2>. QED  BY <1>2, <2>1, <2>2
<1>. QED  BY <1>7, <1>8, <1>9, <1>10, <1>11, <1>12 DEF Inv

(* An exception strikes. *)
LEMMA ExceptionKeeps ==
  ASSUME Inv, Exception
  PROVE  Inv'
<1>1. /\ depth' = depth + 1 /\ step' = 1 /\ at' = "step" /\ i' = 1 /\ pos' = 1
      /\ UNCHANGED <<loglevel, consoles, buffer, timeout, uartFailed, fifo, wire, screen>>
      /\ depth \in Nat /\ depth < MaxDepth /\ MaxDepth \in Nat /\ loglevel \in Nat
      /\ Places' = Places
  BY InvIs, ConsoleAssumption DEF Exception, Goto, uartVars, Places
<1>2. Typed'
  <2>1. Typed /\ TypeOK
    BY InvIs DEF Typed
  <2>2. Steps' = Handler /\ Len(Handler) = 4
    <3>1. depth' # 0
      BY <1>1
    <3>. QED  BY <3>1 DEF Steps, Handler
  <2>3. TypeOK'
    BY <1>1, <2>1, <2>2, TypedNow DEF TypeOK, MAX_CONSOLES
  <2>. QED  BY <1>1, <2>1, <2>3 DEF Typed
<1>3. Position'
  BY <1>1 DEF Position
<1>4. Flushed'
  BY <1>1 DEF Flushed, FlushedBefore
<1>5. \A c \in Kinds : Stream(c)' = Stream(c)
  BY <1>1 DEF Stream
<1>6. Consoles'
  <2>1. depth' # 0
    BY <1>1
  <2>. QED  BY <1>1, <1>5, <2>1, InvIs DEF Consoles
<1>7. Ordered'
  <2>1. \A c \in Kinds : InOrder(loglevel', Stream(c)')
    BY <1>1, <1>5, InvIs DEF Ordered
  <2>. QED  BY <2>1 DEF Ordered
<1>8. ASSUME NEW q \in Places' PROVE Shown(q)'
  <2>1. /\ q \in Places /\ consoles[q] \in Kinds /\ Stream(consoles[q]) \in Seq(Cell)
        /\ consoles' = consoles /\ Shown(q)
    BY <1>1, InvIs DEF Inv
  <2>2. /\ Live(consoles[q])' => Live(consoles[q])
        /\ Stream(consoles[q])' = Stream(consoles[q])
    BY <1>1, <2>1 DEF Live, Stream
  <2>3. ASSUME Live(consoles[q]), Stream(consoles[q]) # <<>>
        PROVE  Last(Stream(consoles[q]))[1][1] <= depth
    <3>1. ShownAs(q, consoles[q], Stream(consoles[q]), loglevel, depth, step, at, i, pos)
      BY <2>1, <2>3 DEF Shown
    <3>2. \/ \E p \in {Chars, pos - 1} : Last(Stream(consoles[q])) = <<<<depth, step>>, p>>
          \/ Before(Stream(consoles[q]), loglevel, depth, step)
      BY <3>1 DEF ShownAs, Ends, UpTo
    <3>3. CASE \E p \in {Chars, pos - 1} : Last(Stream(consoles[q])) = <<<<depth, step>>, p>>
      BY <1>1, <3>3
    <3>4. CASE Before(Stream(consoles[q]), loglevel, depth, step)
      BY <2>3, <3>4 DEF Before
    <3>. QED  BY <3>2, <3>3, <3>4
  <2>4. Live(consoles[q]) => UpTo(Stream(consoles[q]), consoles[q], loglevel, depth + 1, 1)
    BY <1>1, <2>1, <2>3, Anew
  <2>5. Live(consoles[q])' => UpTo(Stream(consoles[q])', consoles[q]', loglevel', depth', step')
    BY <1>1, <2>1, <2>2, <2>4
  <2>. QED  BY <1>1, <2>5 DEF Shown, ShownAs
<1>. QED  BY <1>2, <1>3, <1>4, <1>6, <1>7, <1>8 DEF Inv

-----------------------------------------------------------------------------
(* Initially no console has shown anything. *)
LEMMA InitInv ==
  ASSUME Init
  PROVE  Inv
<1>1. /\ loglevel \in LogLevels /\ consoles = <<>> /\ depth = 0 /\ step = 1 /\ at = "step"
      /\ i = 1 /\ pos = 1 /\ timeout = PollLimit /\ uartFailed = FALSE
      /\ fifo = <<>> /\ wire = <<>> /\ screen = <<>>
  BY DEF Init
<1>2. /\ consoles \in Seq(Kinds) /\ fifo \in Seq(Cell) /\ wire \in Seq(Cell) /\ screen \in Seq(Cell)
      /\ Len(consoles) = 0 /\ Len(fifo) = 0
  BY <1>1
<1>3. TypeOK
  <2>1. Steps = Boot
    BY <1>1 DEF Steps
  <2>2. /\ 0 \in 0 .. MaxDepth /\ 1 \in 1 .. Len(Boot) /\ 1 \in 1 .. 2 /\ 1 \in 1 .. Chars
        /\ PollLimit \in 0 .. PollLimit /\ 0 <= FifoSize /\ 0 <= 2 /\ FALSE \in BOOLEAN
    BY ConsoleAssumption
  <2>3. \A c \in 1 .. Len(consoles) : FALSE
    BY <1>2
  <2>. QED  BY <1>1, <1>2, <2>1, <2>2, <2>3 DEF TypeOK, MAX_CONSOLES
<1>4. \A q \in Places : FALSE
  BY <1>2 DEF Places
<1>5. \A c \in Kinds : Stream(c) = <<>> /\ Len(Stream(c)) = 0
  <2>1. wire \o fifo = <<>>
    <3>1. Len(wire \o fifo) = 0 /\ wire \o fifo \in Seq(Cell)
      BY <1>1, <1>2, ConcatProperties
    <3>. QED  BY <3>1, EmptySeq
  <2>. QED  BY <1>1, <1>2, <2>1 DEF Stream
<1>6. Consoles
  BY <1>4, <1>5 DEF Consoles
<1>7. Ordered
  BY <1>5 DEF Ordered, InOrder
<1>8. Position /\ Flushed
  BY <1>1, <1>4 DEF Position, Flushed
<1>. QED  BY <1>2, <1>3, <1>4, <1>6, <1>7, <1>8 DEF Inv, Typed

(* Every step keeps the invariant. *)
LEMMA InvNext ==
  ASSUME Inv, [Next]_vars
  PROVE  Inv'
<1>1. CASE DoRegister
  BY <1>1, TwoConsoles, OneMore
<1>2. CASE Format
  BY <1>2, FormatKeeps
<1>3. CASE Draw
  BY <1>3, DrawKeeps
<1>4. CASE PutChar
  BY <1>4, PutCharKeeps
<1>5. CASE PollChar
  BY <1>5, PollCharKeeps
<1>6. CASE DropChar
  BY <1>6, DropCharKeeps
<1>7. CASE StartFlush
  BY <1>7, StartFlushKeeps
<1>8. CASE FlushDone \/ PollFlush
  BY <1>8, FlushKeeps
<1>9. CASE Leave
  BY <1>9, LeaveKeeps
<1>10. CASE Exception
  BY <1>10, ExceptionKeeps
<1>11. CASE UartSends
  BY <1>11, UartSendsKeeps
<1>12. CASE UNCHANGED vars
  BY <1>12, StutterKeeps
<1>. QED
  BY <1>1, <1>2, <1>3, <1>4, <1>5, <1>6, <1>7, <1>8, <1>9, <1>10, <1>11, <1>12
  DEF Next, Boots, Over

(* What each console has shown, at every place printk and the flush may    *)
(* have come to, whatever exceptions strike and whatever the UART does.    *)
THEOREM Invariance == Spec => []Inv
<1>1. Init => Inv
  BY InitInv
<1>2. Inv /\ [Next]_vars => Inv'
  BY InvNext
<1>. QED  BY <1>1, <1>2, PTL DEF Spec

(* A console shows whole lines, in order and without a gap, but for a line *)
(* that an exception cuts short (console_write and print_buffer).          *)
THEOREM KeepsOrder == Spec => []StreamsOrderly
<1>1. Inv => StreamsOrderly
  <2>. SUFFICES ASSUME Inv PROVE StreamsOrderly
    OBVIOUS
  <2>1. \A d, s : Printed(d, s) <=> Prints(loglevel, d, s)
    BY DEF Printed, Prints, StepsAt, Kind
  <2>2. \A a, b : Follows(a, b) <=> Succeeds(loglevel, a, b)
    BY <2>1 DEF Follows, Succeeds
  <2>3. Orderly(Stream("earlycon")) /\ Orderly(Stream("simplefb"))
    BY <2>2, InvIs DEF Ordered, InOrder, Orderly, Kinds
  <2>. QED  BY <2>3, InvIs DEF StreamsOrderly, Stream, Typed
<1>. QED  BY <1>1, Invariance, PTL

(* The flush of the boot comes after its last line, and so does the        *)
(* exception handler's.                                                    *)
LEMMA FlushIsLast ==
  ASSUME NEW lev \in Nat, NEW d \in Nat
  PROVE  FlushedBefore(lev, d, Len(StepsAt(d)))
<1>. DEFINE n == Len(StepsAt(d))
<1>0. n \in Nat
  BY StepsAre
<1>1. PICK f \in 1 .. n : Kind(d, f) = "flush" /\ \A t \in f + 1 .. n : ~Prints(lev, d, t)
  <2>1. CASE d = 0
    <3>1. StepsAt(d) = Boot
      BY <2>1 DEF StepsAt
    <3>2. PICK f \in 1 .. Len(Boot) :
            Boot[f] = Flush /\ \A s \in f + 1 .. Len(Boot) : Boot[s].do # "print"
      BY FlushAssumption
    <3>. QED  BY <3>1, <3>2 DEF Kind, Flush, Prints
  <2>2. CASE d # 0
    <3>1. StepsAt(d) = Handler /\ Len(Handler) = 4 /\ Handler[3].do = "flush" /\ Handler[4].do = "park"
      BY <2>2 DEF StepsAt, Handler, Flush, Park
    <3>2. 3 \in 1 .. 4 /\ \A t \in 3 + 1 .. 4 : t = 4
      OBVIOUS
    <3>3. Kind(d, 3) = "flush" /\ \A t \in 3 + 1 .. 4 : ~Prints(lev, d, t)
      BY <3>1, <3>2 DEF Kind, Prints
    <3>. QED  BY <3>1, <3>2, <3>3
  <2>. QED  BY <2>1, <2>2
<1>2. f # n
  <2>1. CASE f = n
    <3>1. n \in 1 .. n /\ ~(n < n)
      BY <1>0, <1>1, <2>1
    <3>2. Kind(d, n) \in {"jump", "park"}
      BY <3>1, StepsAre
    <3>. QED  BY <1>1, <2>1, <3>2
  <2>. QED  BY <2>1
<1>3. f \in 1 .. n - 1 /\ \A t \in f + 1 .. n - 1 : t \in f + 1 .. n
  BY <1>0, <1>1, <1>2
<1>. QED  BY <1>1, <1>3 DEF FlushedBefore

(* At the jump, and where the exception handler stops, every console that  *)
(* was there for the last line has shown it, and the UART has sent it.     *)
THEOREM ShowsAll == Spec => []AllShown
<1>1. Inv => AllShown
  <2>. SUFFICES ASSUME Inv, at \in {"jumped", "parked"}, NEW s \in 1 .. Len(Steps),
                       Printed(depth, s), \A t \in s + 1 .. Len(Steps) : ~Printed(depth, t)
                PROVE  /\ Saw("simplefb", s) => LastLine(screen, s)
                       /\ Saw("earlycon", s) /\ ~uartFailed => LastLine(wire, s)
    BY DEF AllShown
  <2>0. /\ loglevel \in Nat /\ depth \in Nat /\ step \in Nat /\ step > 0
        /\ Steps = StepsAt(depth) /\ Len(StepsAt(depth)) \in Nat
    BY InvIs
  <2>1. \A t : Printed(depth, t) <=> Prints(loglevel, depth, t)
    BY DEF Printed, Prints, StepsAt, Kind
  <2>2. step = Len(StepsAt(depth))
    <3>1. step \in 1 .. Len(StepsAt(depth)) /\ Kind(depth, step) \in {"jump", "park"}
      BY TypedNow, InvIs DEF Position
    <3>2. ~(step < Len(StepsAt(depth)))
      BY <2>0, <3>1, StepsAre
    <3>. QED  BY <2>0, <3>1, <3>2
  <2>3. s \in 1 .. step - 1
    <3>1. s # step
      BY <2>1, InvIs DEF Position, Prints
    <3>. QED  BY <2>0, <2>2, <3>1
  <2>4. LatestBefore(loglevel, depth, s, step)
    <3>1. \A t \in s + 1 .. step - 1 : t \in s + 1 .. Len(Steps)
      BY <2>0, <2>2, <2>3
    <3>. QED  BY <2>1, <3>1 DEF LatestBefore
  <2>5. ASSUME NEW c \in Kinds, Saw(c, s), Live(c)
        PROVE  Ends(Stream(c), <<depth, s>>, Chars)
    <3>1. PICK q \in Places : consoles[q] = c
      BY <2>5 DEF Saw, Places
    <3>2. UpTo(Stream(c), c, loglevel, depth, step)
      BY <2>5, <3>1 DEF Inv, Shown, ShownAs
    <3>3. depth = 0 => RegisteredBefore(c, s)
      BY <2>5 DEF Saw, RegisteredBefore
    <3>. QED  BY <2>3, <2>4, <3>2, <3>3 DEF UpTo, Complete
  <2>6. ASSUME Saw("simplefb", s) PROVE LastLine(screen, s)
    <3>1. Ends(screen, <<depth, s>>, Chars)
      BY <2>5, <2>6 DEF Kinds, Live, Stream
    <3>. QED  BY <3>1 DEF LastLine, Ends, Last
  <2>7. ASSUME Saw("earlycon", s), ~uartFailed PROVE LastLine(wire, s)
    <3>1. Ends(wire \o fifo, <<depth, s>>, Chars)
      BY <2>5, <2>7 DEF Kinds, Live, Stream
    <3>2. fifo = <<>>
      <4>1. PICK q \in Places : consoles[q] = "earlycon"
        BY <2>7 DEF Saw, Places
      <4>2. FlushedBefore(loglevel, depth, step)
        BY <2>0, <2>2, FlushIsLast
      <4>. QED  BY <2>7, <4>1, <4>2, InvIs DEF Flushed
    <3>3. wire \o fifo = wire
      BY <3>2, TypedNow, ConcatEmptySeq
    <3>. QED  BY <3>1, <3>3 DEF LastLine, Ends, Last
  <2>. QED  BY <2>6, <2>7
<1>. QED  BY <1>1, Invariance, PTL
-----------------------------------------------------------------------------
(* The framebuffer console: SimpleFb.                                      *)

Printing == fbAt \in {"prefix", "body"}

Newest == drawn[Len(drawn)]

Below(g, line) == g[2] + H <= line

(* The root is approached from above: when it settles it is the whole part *)
(* of the square root.                                                     *)
Rooting ==
  /\ fbAt = "newton" =>
       /\ N < (x + 1) * (x + 1) /\ N < (y + 1) * (y + 1)
       /\ y >= x => x * x <= N
       /\ N = 0 => x = 0
  /\ fbAt \in {"probe", "newton"} => drawn = <<>>

Scaled(s) ==
  info.scale = 0 =>
    /\ s >= 1
    /\ s > 1 => (s * Diagonal) * (s * Diagonal) <= N
    /\ N < ((s + 1) * Diagonal) * ((s + 1) * Diagonal)

(* The text that is printed, and where it goes on. *)
Texts ==
  /\ fbAt \notin {"probe", "newton"} => Scaled(scale)
  /\ Printing => msg \in Messages /\ curY > 0
  /\ fbAt = "prefix" => text = Prefix(msg.prefix) /\ textX = 0 /\ curX <= (j - 1) * W
  /\ fbAt = "body" => text = msg.body /\ textX = PrefixWidth

(* The next glyph stands right of the newest one or on a lower line; after *)
(* a newline, and between messages, on a lower line.                       *)
Onward ==
  drawn # <<>> =>
    /\ Printing => \/ curY = Newest[2] /\ Newest[1] + W <= curX
                   \/ Below(Newest, curY)
    /\ fbAt = "body" /\ j > 1 /\ text[j - 1] = Newline => Below(Newest, curY)
    /\ fbAt = "ready" => Below(Newest, lastY)

Whole(g) ==
  /\ Roomy => g[1] + W <= info.width /\ g[2] + H <= info.height
  /\ OnScreen(g) => LastOf(g) + BytesOf(info.format) <= Memory

(* A pixel takes as many bytes as its format has. *)
PixelsFit == \A s \in Screens : BytesOf(s.format) <= s.stride

Drawn ==
  /\ drawn \in Seq(Nat \X Nat)
  /\ PixelsFit => \A c \in 1 .. Len(drawn) : Whole(drawn[c])
  /\ ReadsInOrder

FbInv == FbTypeOK /\ Rooting /\ Texts /\ Onward /\ Drawn
-----------------------------------------------------------------------------
LEMMA Widen ==
  ASSUME NEW a \in Nat, NEW b \in Nat, NEW c \in Nat, a <= b
  PROVE  a * c <= b * c
OBVIOUS

LEMMA TimesOneMore == ASSUME NEW a \in Int, NEW b \in Int PROVE (a + 1) * b = a * b + b
OBVIOUS

LEMMA Product == ASSUME NEW a \in Nat, NEW b \in Nat PROVE (a + 1) * b \in Nat
OBVIOUS

LEMMA Squares ==
  ASSUME NEW a \in Nat, NEW b \in Nat, a <= b
  PROVE  a * a <= b * b
<1>1. a * a <= b * a
  BY Widen
<1>2. a * b <= b * b
  BY Widen
<1>3. b * a = a * b /\ a * a \in Nat /\ a * b \in Nat /\ b * b \in Nat
  OBVIOUS
<1>. QED  BY <1>1, <1>2, <1>3

LEMMA Quotient ==
  ASSUME NEW n \in Nat, NEW a \in Nat \ {0}
  PROVE  /\ n \div a \in Nat
         /\ (n \div a) * a <= n
         /\ n < ((n \div a) + 1) * a
OBVIOUS

(* The step of Newton's method, in whole numbers: the mean of a and n / a is *)
(* not below the root, and not below a only if a is not above the root.      *)
LEMMA Mean ==
  ASSUME NEW n \in Nat, NEW a \in Nat \ {0}, NEW b, b = (a + n \div a) \div 2
  PROVE  /\ b \in Nat
         /\ n < (b + 1) * (b + 1)
         /\ b >= a => a * a <= n
<1>. DEFINE q == n \div a
<1>1. q \in Nat /\ q * a <= n /\ n < (q + 1) * a
  BY Quotient
<1>. HIDE DEF q
<1>2. b \in Nat /\ 2 * b <= a + q /\ a + q + 1 <= 2 * (b + 1)
  BY <1>1 DEF q
<1>3. n < (b + 1) * (b + 1)
  <2>1. (a + q + 1) * (a + q + 1) <= (2 * (b + 1)) * (2 * (b + 1))
    <3>1. a + q + 1 \in Nat /\ 2 * (b + 1) \in Nat
      BY <1>1, <1>2
    <3>. QED  BY <1>2, <3>1, Squares
  <2>2. (a + q + 1) * (a + q + 1) = (q + 1 - a) * (q + 1 - a) + 4 * ((q + 1) * a)
    BY <1>1
  <2>3. (q + 1 - a) * (q + 1 - a) >= 0
    BY <1>1
  <2>4. (2 * (b + 1)) * (2 * (b + 1)) = 4 * ((b + 1) * (b + 1))
    BY <1>2
  <2>5. /\ (q + 1 - a) * (q + 1 - a) \in Int /\ (q + 1) * a \in Int
        /\ (b + 1) * (b + 1) \in Int
    BY <1>1, <1>2
  <2>. QED  BY <1>1, <2>1, <2>2, <2>3, <2>4, <2>5
<1>4. ASSUME b >= a PROVE a * a <= n
  <2>1. a <= q
    BY <1>1, <1>2, <1>4
  <2>2. a * a <= q * a
    BY <1>1, <2>1, Widen
  <2>3. q * a \in Nat /\ a * a \in Nat
    BY <1>1
  <2>. QED  BY <1>1, <2>2, <2>3
<1>. QED  BY <1>2, <1>3, <1>4

LEMMA Values ==
  ASSUME FbTypeOK
  PROVE  /\ info.width \in Nat /\ info.height \in Nat /\ info.scale \in Nat
         /\ info.stride \in Nat /\ N \in Nat
         /\ FontW \in Nat \ {0} /\ FontH \in Nat \ {0} /\ Diagonal \in Nat \ {0}
         /\ TopPadding \in Nat \ {0}
         /\ scale \in Nat /\ x \in Nat /\ y \in Nat /\ told \in Nat /\ textX \in Nat
         /\ curX \in Nat /\ curY \in Nat /\ lastY \in Nat
         /\ W \in Nat /\ H \in Nat
         /\ fbAt \notin {"probe", "newton"} => W > 0 /\ H > 0
<1>1. info \in Screens
  BY DEF FbTypeOK
<1>2. /\ info.width \in Nat /\ info.height \in Nat /\ info.scale \in Nat
      /\ info.stride \in Nat
  BY <1>1, SimpleFbAssumption
<1>3. N \in Nat
  BY <1>2 DEF N
<1>4. /\ FontW \in Nat \ {0} /\ FontH \in Nat \ {0} /\ Diagonal \in Nat \ {0}
      /\ TopPadding \in Nat \ {0}
  BY SimpleFbAssumption
<1>5. /\ scale \in Nat /\ x \in Nat /\ y \in Nat /\ told \in Nat /\ textX \in Nat
      /\ curX \in Nat /\ curY \in Nat /\ lastY \in Nat
      /\ fbAt \notin {"probe", "newton"} => scale > 0
  BY DEF FbTypeOK
<1>6. W \in Nat /\ H \in Nat
  BY <1>4, <1>5 DEF W, H
<1>7. fbAt \notin {"probe", "newton"} => W > 0 /\ H > 0
  BY <1>4, <1>5 DEF W, H
<1>. QED  BY <1>2, <1>3, <1>4, <1>5, <1>6, <1>7

LEMMA PrefixIs ==
  ASSUME FbTypeOK, msg.prefix \in Nat
  PROVE  PrefixWidth = msg.prefix * W
<1>1. FontW \in Nat /\ scale \in Nat
  BY Values
<1>. QED  BY <1>1 DEF PrefixWidth, W

LEMMA MessageIs ==
  ASSUME NEW m \in Messages
  PROVE  /\ m.prefix \in Nat /\ m.body \in Seq({Glyph, Newline})
         /\ m.body # <<>> /\ Len(m.body) \in Nat \ {0}
         /\ m.body[Len(m.body)] = Newline
<1>1. /\ m.prefix \in Nat /\ m.body \in Seq({Glyph, Newline})
      /\ m.body # <<>> /\ m.body[Len(m.body)] = Newline
  BY SimpleFbAssumption
<1>. QED  BY <1>1, EmptySeq, LenProperties

LEMMA FbInitInv == FbInit => FbInv
<1>. SUFFICES ASSUME FbInit PROVE FbInv
  OBVIOUS
<1>1. FbTypeOK
  BY SimpleFbAssumption DEF FbInit, FbTypeOK
<1>2. Rooting /\ Texts /\ Onward
  BY DEF FbInit, Rooting, Texts, Onward, Printing
<1>3. drawn = <<>> /\ drawn \in Seq(Nat \X Nat) /\ Len(drawn) = 0
  BY DEF FbInit
<1>4. Drawn
  BY <1>3 DEF Drawn, ReadsInOrder
<1>. QED  BY <1>1, <1>2, <1>4 DEF FbInv

LEMMA ProbeStep == ASSUME FbInv, Probe PROVE FbInv'
<1>1. /\ info' = info /\ scale' = scale /\ textVars' = textVars
      /\ fbAt = "probe" /\ fbAt' = "newton" /\ x' = N /\ y' = (N + 1) \div 2
  BY DEF Probe, textVars
<1>2. N \in Nat /\ x' \in Nat /\ y' \in Nat /\ N' = N
  BY <1>1, Values DEF FbInv, N
<1>3. FbTypeOK'
  BY <1>1, <1>2 DEF FbInv, FbTypeOK, textVars
<1>4. N < (N + 1) * (N + 1)
  BY <1>2
<1>5. N > 0 => N < (y' + 1) * (y' + 1) /\ (y' >= N => N * N <= N)
  <2>1. SUFFICES ASSUME N > 0
        PROVE  N < (y' + 1) * (y' + 1) /\ (y' >= N => N * N <= N)
    OBVIOUS
  <2>2. N \div N = 1
    BY <1>2, <2>1
  <2>. QED  BY <1>1, <1>2, <2>1, <2>2, Mean
<1>6. N = 0 => y' = 0
  BY <1>1
<1>7. Rooting'
  BY <1>1, <1>2, <1>4, <1>5, <1>6 DEF FbInv, Rooting, textVars
<1>8. Texts' /\ Onward'
  BY <1>1 DEF FbInv, Rooting, Texts, Onward, Printing, textVars
<1>9. Drawn'
  <2>1. drawn' = <<>>
    BY <1>1 DEF FbInv, Rooting, textVars
  <2>2. drawn' \in Seq(Nat \X Nat) /\ Len(drawn') = 0
    BY <2>1
  <2>. QED  BY <2>2 DEF Drawn, ReadsInOrder
<1>. QED  BY <1>3, <1>7, <1>8, <1>9 DEF FbInv

LEMMA NewtonStep == ASSUME FbInv, Newton PROVE FbInv'
<1>1. /\ info' = info /\ scale' = scale /\ textVars' = textVars
      /\ fbAt = "newton" /\ fbAt' = fbAt /\ ~ (y >= x)
      /\ x' = y /\ y' = (y + N \div y) \div 2
  BY DEF Newton, Settled, textVars
<1>2. N \in Nat /\ x \in Nat /\ y \in Nat /\ N' = N
  BY <1>1, Values DEF FbInv, N
<1>3. N < (x + 1) * (x + 1) /\ N < (y + 1) * (y + 1) /\ (N = 0 => x = 0)
  BY <1>1 DEF FbInv, Rooting
<1>4. y > 0
  BY <1>1, <1>2, <1>3
<1>5. /\ y' \in Nat /\ N < (y' + 1) * (y' + 1)
      /\ y' >= y => y * y <= N
  BY <1>1, <1>2, <1>4, Mean
<1>6. FbTypeOK'
  BY <1>1, <1>2, <1>5 DEF FbInv, FbTypeOK, textVars
<1>7. Rooting'
  <2>1. N # 0
    BY <1>1, <1>2, <1>3
  <2>. QED  BY <1>1, <1>2, <1>3, <1>5, <2>1 DEF FbInv, Rooting, textVars
<1>8. Texts' /\ Onward'
  BY <1>1 DEF FbInv, Rooting, Texts, Onward, Printing, textVars
<1>9. Drawn'
  <2>1. drawn' = <<>>
    BY <1>1 DEF FbInv, Rooting, textVars
  <2>2. drawn' \in Seq(Nat \X Nat) /\ Len(drawn') = 0
    BY <2>1
  <2>. QED  BY <2>2 DEF Drawn, ReadsInOrder
<1>. QED  BY <1>6, <1>7, <1>8, <1>9 DEF FbInv

LEMMA SetScaleStep == ASSUME FbInv, SetScale PROVE FbInv'
<1>1. /\ info' = info /\ x' = x /\ y' = y /\ textVars' = textVars
      /\ fbAt = "newton" /\ fbAt' = "ready" /\ y >= x /\ scale' = FontScale(x)
  BY DEF SetScale, Settled, textVars
<1>2. /\ N \in Nat /\ x \in Nat /\ N' = N /\ Diagonal \in Nat \ {0}
      /\ info.scale \in Nat
  BY <1>1, Values DEF FbInv, N
<1>3. N < (x + 1) * (x + 1) /\ x * x <= N
  BY <1>1 DEF FbInv, Rooting
<1>. DEFINE s == x \div Diagonal
<1>4. s \in Nat /\ s * Diagonal <= x /\ x < (s + 1) * Diagonal
  BY <1>2, Quotient
<1>. HIDE DEF s
<1>5. scale' \in Nat /\ scale' > 0
  BY <1>1, <1>2, <1>4 DEF FontScale, s
<1>6. ASSUME info.scale = 0 PROVE Scaled(scale')
  <2>1. scale' = IF s < 1 THEN 1 ELSE s
    BY <1>1, <1>6 DEF FontScale, s
  <2>2. ASSUME scale' > 1
        PROVE  (scale' * Diagonal) * (scale' * Diagonal) <= N
    <3>1. scale' * Diagonal <= x /\ scale' * Diagonal \in Nat
      BY <1>2, <1>4, <2>1, <2>2
    <3>2. (scale' * Diagonal) * (scale' * Diagonal) <= x * x
      BY <1>2, <3>1, Squares
    <3>3. x * x \in Nat /\ (scale' * Diagonal) * (scale' * Diagonal) \in Nat
      BY <1>2, <3>1
    <3>. QED  BY <1>2, <1>3, <3>2, <3>3
  <2>3. N < ((scale' + 1) * Diagonal) * ((scale' + 1) * Diagonal)
    <3>1. (s + 1) * Diagonal <= (scale' + 1) * Diagonal
      BY <1>2, <1>4, <1>5, <2>1, Widen
    <3>2. (s + 1) * Diagonal \in Nat /\ (scale' + 1) * Diagonal \in Nat
      BY <1>2, <1>4, <1>5, Product
    <3>3. x + 1 <= (scale' + 1) * Diagonal
      BY <1>2, <1>4, <3>1, <3>2
    <3>4. (x + 1) * (x + 1) <= ((scale' + 1) * Diagonal) * ((scale' + 1) * Diagonal)
      BY <1>2, <3>2, <3>3, Squares
    <3>5. /\ (x + 1) * (x + 1) \in Nat
          /\ ((scale' + 1) * Diagonal) * ((scale' + 1) * Diagonal) \in Nat
      BY <1>2, <3>2
    <3>. QED  BY <1>2, <1>3, <3>4, <3>5
  <2>. QED  BY <1>5, <2>2, <2>3 DEF Scaled
<1>7. FbTypeOK'
  BY <1>1, <1>5 DEF FbInv, FbTypeOK, textVars
<1>8. Scaled(scale)'
  BY <1>1, <1>2, <1>6 DEF Scaled
<1>9. drawn' = <<>>
  BY <1>1 DEF FbInv, Rooting, textVars
<1>10. Rooting' /\ Texts' /\ Onward'
  BY <1>1, <1>8, <1>9 DEF Rooting, Texts, Onward, Printing
<1>11. Drawn'
  <2>1. drawn' \in Seq(Nat \X Nat) /\ Len(drawn') = 0
    BY <1>9
  <2>. QED  BY <2>1 DEF Drawn, ReadsInOrder
<1>. QED  BY <1>7, <1>10, <1>11 DEF FbInv

(* What Drawn says of the glyphs depends on the screen and the scale only. *)
LEMMA DrawnKept ==
  ASSUME Drawn, UNCHANGED <<drawn, info, scale>>
  PROVE  Drawn'
BY DEF Drawn, Whole, Roomy, OnScreen, LastOf, Location, Memory, Least, W, H, ReadsInOrder

LEMMA PrintPrefixStep == ASSUME FbInv, PrintPrefix PROVE FbInv'
<1>1. PICK m \in Messages :
        /\ msg' = m /\ text' = Prefix(m.prefix) /\ textX' = 0 /\ j' = 1 /\ curX' = 0
        /\ lastY' = (IF lastY = 0 THEN TopPadding ELSE lastY) /\ curY' = lastY'
  BY DEF PrintPrefix, RawPrint
<1>2. /\ fbAt = "ready" /\ fbAt' = "prefix" /\ told' = told + 1
      /\ info' = info /\ scale' = scale /\ x' = x /\ y' = y /\ drawn' = drawn
  BY DEF PrintPrefix, rootVars
<1>3. /\ lastY \in Nat /\ told \in Nat /\ TopPadding \in Nat \ {0}
      /\ W \in Nat \ {0} /\ H \in Nat \ {0} /\ W' = W /\ H' = H
  BY <1>2, Values DEF FbInv, W, H
<1>4. Len(text') = m.prefix /\ m.prefix \in Nat
  BY <1>1, MessageIs DEF Prefix
<1>5. FbTypeOK'
  <2>1. lastY' \in Nat /\ curY' \in Nat /\ told' \in Nat /\ curX' \in Nat /\ textX' \in Nat
    BY <1>1, <1>2, <1>3
  <2>2. j' \in 1 .. Len(text') + 1
    BY <1>1, <1>4
  <2>. QED  BY <1>2, <2>1, <2>2 DEF FbInv, FbTypeOK
<1>6. Rooting'
  BY <1>2 DEF Rooting
<1>7. drawn # <<>> => Below(Newest, lastY)
  BY <1>2 DEF FbInv, Onward
<1>8. Texts'
  <2>1. Scaled(scale)'
    BY <1>2 DEF FbInv, Texts, Scaled, N
  <2>2. curY' \in Nat /\ curX' <= (j' - 1) * W
    BY <1>1, <1>3
  <2>3. msg' \in Messages /\ curY' > 0
    BY <1>1, <1>3
  <2>. QED  BY <1>1, <1>2, <1>3, <2>1, <2>2, <2>3 DEF Texts, Printing, Prefix
<1>9. Onward'
  <2>1. SUFFICES ASSUME drawn # <<>> PROVE Below(Newest, curY)'
    BY <1>2 DEF Onward, Printing
  <2>2. Newest[2] \in Nat
    BY <1>7, <2>1, EmptySeq, ElementOfSeq DEF FbInv, Drawn, Newest
  <2>3. lastY # 0 /\ curY' = lastY
    BY <1>1, <1>3, <1>7, <2>1, <2>2 DEF Below
  <2>. QED  BY <1>2, <1>3, <1>7, <2>1, <2>3 DEF Below, Newest
<1>10. Drawn'
  BY <1>2, DrawnKept DEF FbInv
<1>. QED  BY <1>5, <1>6, <1>8, <1>9, <1>10 DEF FbInv

LEMMA StepNewlineStep == ASSUME FbInv, StepNewline PROVE FbInv'
<1>1. /\ Printing /\ j <= Len(text) /\ text[j] = Newline
      /\ curX' = textX /\ curY' = curY + H /\ j' = j + 1 /\ fbAt' = fbAt
      /\ info' = info /\ scale' = scale /\ x' = x /\ y' = y
      /\ msg' = msg /\ told' = told /\ text' = text /\ textX' = textX
      /\ lastY' = lastY /\ drawn' = drawn
  BY DEF StepNewline, EndOfLine, rootVars, Printing
<1>2. /\ curY \in Nat /\ textX \in Nat /\ H \in Nat \ {0} /\ W \in Nat
      /\ W' = W /\ H' = H
  <2>1. W' = W /\ H' = H
    BY <1>1 DEF W, H
  <2>2. fbAt \notin {"probe", "newton"}
    BY <1>1 DEF Printing
  <2>. QED  BY <2>1, <2>2, Values DEF FbInv
<1>3. msg \in Messages /\ Len(text) \in Nat /\ j \in 1 .. Len(text)
  <2>1. msg \in Messages
    BY <1>1 DEF FbInv, Texts
  <2>2. Len(text) \in Nat
    BY <1>1, <2>1, MessageIs DEF FbInv, Texts, Prefix, Printing
  <2>. QED  BY <1>1, <2>1, <2>2 DEF FbInv, FbTypeOK
<1>4. fbAt = "body"
  <2>1. SUFFICES ASSUME fbAt = "prefix" PROVE FALSE
    BY <1>1 DEF Printing
  <2>2. text = Prefix(msg.prefix) /\ msg.prefix \in Nat /\ Len(text) = msg.prefix
    BY <1>3, <2>1, MessageIs DEF FbInv, Texts, Prefix
  <2>3. text[j] = Glyph
    BY <1>3, <2>2 DEF Prefix
  <2>. QED  BY <1>1, <2>3 DEF Glyph, Newline
<1>5. FbTypeOK'
  <2>1. curY' \in Nat /\ curX' \in Nat /\ j' \in 1 .. Len(text') + 1
    BY <1>1, <1>2, <1>3
  <2>. QED  BY <1>1, <2>1 DEF FbInv, FbTypeOK
<1>6. Rooting'
  BY <1>1, <1>4 DEF Rooting
<1>7. Texts'
  <2>1. Scaled(scale)'
    BY <1>1, <1>4 DEF FbInv, Texts, Scaled, N
  <2>2. curY' > 0
    BY <1>1, <1>2 DEF FbInv, Texts
  <2>. QED  BY <1>1, <1>3, <1>4, <2>1, <2>2 DEF FbInv, Texts, Printing, PrefixWidth
<1>8. Onward'
  <2>1. SUFFICES ASSUME drawn # <<>> PROVE Below(Newest, curY)'
    BY <1>1, <1>4 DEF Onward, Printing
  <2>2. Newest[2] \in Nat
    BY <2>1, EmptySeq, ElementOfSeq DEF FbInv, Drawn, Newest
  <2>3. curY = Newest[2] \/ Newest[2] + H <= curY
    BY <1>1, <2>1 DEF FbInv, Onward, Below
  <2>4. Newest[2] + H <= curY + H
    BY <1>2, <2>2, <2>3
  <2>. QED  BY <1>1, <1>2, <2>4 DEF Below, Newest
<1>9. Drawn'
  BY <1>1, DrawnKept DEF FbInv
<1>. QED  BY <1>5, <1>6, <1>7, <1>8, <1>9 DEF FbInv

LEMMA PrintBodyStep == ASSUME FbInv, PrintBody PROVE FbInv'
<1>1. /\ fbAt = "prefix" /\ fbAt' = "body" /\ j > Len(text)
      /\ text' = msg.body /\ textX' = PrefixWidth /\ j' = 1 /\ curX' = PrefixWidth
      /\ lastY' = (IF curY = 0 THEN TopPadding ELSE curY) /\ curY' = lastY'
      /\ info' = info /\ scale' = scale /\ x' = x /\ y' = y
      /\ msg' = msg /\ told' = told /\ drawn' = drawn
  BY DEF PrintBody, RawPrint, KeptY, rootVars
<1>2. /\ curY \in Nat /\ curX \in Nat /\ H \in Nat \ {0} /\ W \in Nat \ {0}
      /\ FontW \in Nat /\ scale \in Nat /\ W' = W /\ H' = H
  <2>1. W' = W /\ H' = H
    BY <1>1 DEF W, H
  <2>2. fbAt \notin {"probe", "newton"}
    BY <1>1
  <2>. QED  BY <2>1, <2>2, Values DEF FbInv
<1>3. /\ msg \in Messages /\ curY > 0
      /\ text = Prefix(msg.prefix) /\ textX = 0 /\ curX <= (j - 1) * W
  BY <1>1 DEF FbInv, Texts, Printing
<1>4. msg.prefix \in Nat /\ Len(msg.body) \in Nat /\ Len(text) = msg.prefix
  BY <1>3, MessageIs DEF Prefix
<1>5. j - 1 = msg.prefix
  BY SMTT(30), <1>1, <1>4 DEF FbInv, FbTypeOK
<1>6. PrefixWidth = msg.prefix * W /\ PrefixWidth \in Nat
  BY <1>2, <1>4, PrefixIs DEF FbInv
<1>7. lastY' = curY /\ curY' = curY
  BY <1>1, <1>3
<1>8. FbTypeOK'
  <2>1. j' \in 1 .. Len(text') + 1
    BY <1>1, <1>4
  <2>. QED  BY <1>1, <1>2, <1>6, <1>7, <2>1 DEF FbInv, FbTypeOK
<1>9. Rooting'
  BY <1>1 DEF Rooting
<1>10. Texts'
  <2>1. Scaled(scale)'
    BY <1>1 DEF FbInv, Texts, Scaled, N
  <2>. QED  BY <1>1, <1>3, <1>7, <2>1 DEF Texts, Printing, PrefixWidth
<1>11. Onward'
  <2>1. SUFFICES ASSUME drawn # <<>>
        PROVE  \/ curY = Newest[2] /\ Newest[1] + W <= PrefixWidth
               \/ Newest[2] + H <= curY
    BY <1>1, <1>2, <1>7 DEF Onward, Printing, Newest, Below
  <2>2. Newest \in Nat \X Nat
    BY <2>1, EmptySeq, ElementOfSeq DEF FbInv, Drawn, Newest
  <2>3. \/ curY = Newest[2] /\ Newest[1] + W <= curX
        \/ Newest[2] + H <= curY
    BY <1>1, <2>1 DEF FbInv, Onward, Below, Printing
  <2>4. curX <= PrefixWidth
    BY <1>3, <1>5, <1>6
  <2>5. Newest[1] \in Nat
    BY <2>2
  <2>. QED  BY <1>2, <1>6, <2>3, <2>4, <2>5
<1>12. Drawn'
  BY <1>1, DrawnKept DEF FbInv
<1>. QED  BY <1>8, <1>9, <1>10, <1>11, <1>12 DEF FbInv

LEMMA ReturnStep == ASSUME FbInv, Return PROVE FbInv'
<1>1. /\ fbAt = "body" /\ fbAt' = "ready" /\ j > Len(text) /\ lastY' = curY
      /\ info' = info /\ scale' = scale /\ x' = x /\ y' = y
      /\ msg' = msg /\ told' = told /\ text' = text /\ textX' = textX /\ j' = j
      /\ curX' = curX /\ curY' = curY /\ drawn' = drawn
  BY DEF Return, KeptY, rootVars
<1>2. msg \in Messages /\ text = msg.body
  BY <1>1 DEF FbInv, Texts, Printing
<1>3. Len(text) \in Nat \ {0} /\ text[Len(text)] = Newline
  BY <1>2, MessageIs
<1>4. j = Len(text) + 1
  BY <1>1, <1>3 DEF FbInv, FbTypeOK
<1>5. FbTypeOK'
  <2>1. curY \in Nat
    BY Values DEF FbInv
  <2>. QED  BY <1>1, <2>1 DEF FbInv, FbTypeOK
<1>6. Rooting'
  BY <1>1 DEF Rooting
<1>7. Texts'
  BY <1>1 DEF FbInv, Texts, Printing, Scaled, N
<1>8. Onward'
  <2>1. j > 1 /\ text[j - 1] = Newline
    BY <1>3, <1>4
  <2>2. drawn # <<>> => Below(Newest, curY)
    BY <1>1, <2>1 DEF FbInv, Onward
  <2>. QED  BY <1>1, <2>2 DEF Onward, Printing, Newest, Below, H
<1>9. Drawn'
  BY <1>1, DrawnKept DEF FbInv
<1>. QED  BY <1>5, <1>6, <1>7, <1>8, <1>9 DEF FbInv

(* The last pixel of a glyph that begins on the screen is on the screen. *)
LEMMA LastInside ==
  ASSUME NEW w \in Nat, NEW h \in Nat, NEW gw \in Nat, NEW gh \in Nat,
         NEW gx \in Nat, NEW gy \in Nat, gx < w, gy < h
  PROVE  /\ Least(gx + gw, w) - 1 <= w - 1
         /\ Least(gy + gh, h) - 1 <= h - 1
         /\ Least(gx + gw, w) - 1 \in Int /\ Least(gy + gh, h) - 1 \in Int
BY DEF Least

LEMMA Stays ==
  ASSUME NEW w \in Nat, NEW h \in Nat, NEW stride \in Nat, NEW bytes \in Nat,
         NEW px \in Int, NEW py \in Int, px <= w - 1, py <= h - 1, bytes <= stride
  PROVE  px * stride + py * w * stride + bytes <= w * h * stride
<1>1. px * stride <= (w - 1) * stride
  OBVIOUS
<1>. DEFINE row == w * stride
<1>2. row \in Nat
  OBVIOUS
<1>3. py * row <= (h - 1) * row
  BY <1>2
<1>4. (w - 1) * stride = row - stride /\ (h - 1) * row = h * row - row
  BY <1>2
<1>5. py * w * stride = py * row /\ w * h * stride = h * row
  OBVIOUS
<1>6. px * stride \in Int /\ py * row \in Int /\ h * row \in Int
  BY <1>2
<1>. HIDE DEF row
<1>. QED  BY <1>1, <1>2, <1>3, <1>4, <1>5, <1>6

LEMMA InMemory ==
  ASSUME FbTypeOK, PixelsFit, NEW g \in Nat \X Nat, OnScreen(g)
  PROVE  LastOf(g) + BytesOf(info.format) <= Memory
<1>1. /\ info \in Screens /\ BytesOf(info.format) \in Nat
      /\ BytesOf(info.format) <= info.stride
  BY DEF FbTypeOK, PixelsFit, BytesOf
<1>2. /\ info.width \in Nat /\ info.height \in Nat /\ info.stride \in Nat
      /\ W \in Nat /\ H \in Nat
  BY Values
<1>3. /\ g[1] \in Nat /\ g[2] \in Nat
      /\ g[1] < info.width /\ g[2] < info.height
  BY DEF OnScreen
<1>. DEFINE px == Least(g[1] + W, info.width) - 1
            py == Least(g[2] + H, info.height) - 1
<1>4. px <= info.width - 1 /\ py <= info.height - 1 /\ px \in Int /\ py \in Int
  BY <1>2, <1>3, LastInside
<1>5. LastOf(g) = px * info.stride + py * info.width * info.stride
  BY DEF LastOf, Location
<1>. HIDE DEF px, py
<1>. QED  BY <1>1, <1>2, <1>4, <1>5, Stays DEF Memory

LEMMA DrawGlyphStep == ASSUME FbInv, DrawGlyph PROVE FbInv'
<1>. DEFINE wraps  == curX > RightEdge
            line   == IF wraps THEN curY + H ELSE curY
            clears == line >= info.height - H
            gx     == IF wraps \/ clears THEN textX ELSE curX
            gy     == IF clears THEN TopPadding ELSE line
            g      == <<gx, gy>>
            kept   == IF clears THEN <<>> ELSE drawn
<1>1. /\ Printing /\ j <= Len(text) /\ text[j] = Glyph
      /\ drawn' = Append(kept, g) /\ curX' = gx + W /\ curY' = gy
      /\ j' = j + 1 /\ fbAt' = fbAt /\ info' = info /\ scale' = scale
      /\ x' = x /\ y' = y /\ msg' = msg /\ told' = told /\ text' = text
      /\ textX' = textX /\ lastY' = lastY
  BY DEF DrawGlyph, rootVars, Printing
<1>2. /\ curX \in Nat /\ curY \in Nat /\ textX \in Nat
      /\ info.width \in Nat /\ info.height \in Nat
      /\ TopPadding \in Nat \ {0} /\ H \in Nat \ {0} /\ W \in Nat \ {0}
      /\ W' = W /\ H' = H
  <2>1. W' = W /\ H' = H
    BY <1>1 DEF W, H
  <2>2. fbAt \notin {"probe", "newton"}
    BY <1>1 DEF Printing
  <2>. QED  BY <2>1, <2>2, Values DEF FbInv
<1>3. /\ msg \in Messages /\ msg.prefix \in Nat /\ curY > 0
      /\ Len(text) \in Nat /\ j \in Nat /\ j >= 1
  <2>1. msg \in Messages /\ curY > 0
    BY <1>1 DEF FbInv, Texts
  <2>2. Len(text) \in Nat
    BY <1>1, <2>1, MessageIs DEF FbInv, Texts, Prefix, Printing
  <2>. QED  BY <2>1, <2>2, MessageIs DEF FbInv, FbTypeOK
<1>4. gx \in Nat /\ gy \in Nat /\ gy > 0 /\ g \in Nat \X Nat /\ g[1] = gx /\ g[2] = gy
  BY <1>2, <1>3
<1>5. kept \in Seq(Nat \X Nat) /\ kept \in {<<>>, drawn}
  BY DEF FbInv, Drawn
<1>6. /\ drawn' \in Seq(Nat \X Nat) /\ Len(kept) \in Nat /\ Len(drawn') = Len(kept) + 1
      /\ \A c \in 1 .. Len(kept) : drawn'[c] = kept[c]
      /\ drawn'[Len(kept) + 1] = g
  <2>. HIDE DEF g, kept
  <2>. QED  BY <1>1, <1>4, <1>5, AppendProperties, LenProperties
<1>7. FbTypeOK'
  <2>1. j' \in 1 .. Len(text') + 1 /\ curX' \in Nat /\ curY' \in Nat
    BY <1>1, <1>2, <1>3, <1>4
  <2>. QED  BY <1>1, <2>1 DEF FbInv, FbTypeOK
<1>8. Rooting'
  BY <1>1 DEF Rooting, Printing
<1>9. Texts'
  <2>1. Scaled(scale)'
    BY <1>1 DEF FbInv, Texts, Scaled, N, Printing
  <2>2. ASSUME fbAt = "prefix" PROVE curX' <= (j' - 1) * W
    <3>1. curX <= (j - 1) * W /\ textX = 0
      BY <2>2 DEF FbInv, Texts
    <3>2. gx <= (j - 1) * W /\ (j - 1) * W \in Int
      BY <1>2, <1>3, <3>1
    <3>3. (j - 1 + 1) * W = (j - 1) * W + W
      BY <1>2, <1>3, TimesOneMore
    <3>4. j - 1 + 1 = j' - 1
      BY <1>1, <1>3
    <3>. HIDE DEF gx
    <3>. QED  BY <1>1, <1>2, <1>4, <3>2, <3>3, <3>4
  <2>3. curY' > 0
    BY <1>1, <1>4
  <2>. HIDE DEF gx, gy
  <2>. QED  BY <1>1, <1>2, <1>3, <2>1, <2>2, <2>3 DEF FbInv, Texts, Printing, PrefixWidth
<1>10. Newest' = g
  BY <1>1, <1>6 DEF Newest
<1>11. Onward'
  <2>1. curY' = Newest'[2] /\ Newest'[1] + W' <= curX'
    BY <1>1, <1>2, <1>4, <1>10
  <2>2. text'[j' - 1] # Newline
    BY <1>1, <1>3 DEF Glyph, Newline
  <2>. QED  BY <1>1, <2>1, <2>2 DEF Onward, Printing
<1>12. PixelsFit => Whole(g)
  <2>1. ASSUME Roomy PROVE g[1] + W <= info.width /\ g[2] + H <= info.height
    <3>1. textX + W <= info.width
      <4>1. (msg.prefix + 1) * W <= info.width
        BY <1>3, <2>1 DEF Roomy
      <4>2. (msg.prefix + 1) * W = msg.prefix * W + W /\ msg.prefix * W \in Nat
        BY <1>2, <1>3, TimesOneMore
      <4>3. fbAt = "body" => textX = msg.prefix * W
        BY <1>3, PrefixIs DEF FbInv, Texts
      <4>4. fbAt = "prefix" => textX = 0
        BY DEF FbInv, Texts
      <4>. QED  BY SMTT(30), <1>1, <1>2, <4>1, <4>2, <4>3, <4>4 DEF Printing
    <3>2. TopPadding + H < info.height
      BY <2>1 DEF Roomy
    <3>. QED  BY <1>2, <1>4, <3>1, <3>2 DEF RightEdge
  <2>2. PixelsFit /\ OnScreen(g) => LastOf(g) + BytesOf(info.format) <= Memory
    BY <1>4, InMemory DEF FbInv
  <2>. QED  BY <2>1, <2>2 DEF Whole
<1>13. Drawn'
  <2>1. ASSUME PixelsFit, NEW c \in 1 .. Len(drawn') PROVE Whole(drawn'[c])
    <3>1. CASE c = Len(kept) + 1
      BY <1>6, <1>12, <2>1, <3>1
    <3>2. CASE c \in 1 .. Len(kept)
      <4>1. kept = drawn
        BY <1>5, <3>2, EmptySeq
      <4>. QED  BY <1>6, <2>1, <3>2, <4>1 DEF FbInv, Drawn
    <3>. QED  BY <1>6, <2>1, <3>1, <3>2
  <2>2. \A h : Whole(h)' = Whole(h)
    BY <1>1 DEF Whole, Roomy, OnScreen, LastOf, Location, Memory, Least, W, H
  <2>3. ReadsInOrder'
    <3>1. SUFFICES ASSUME NEW c \in 1 .. Len(drawn') - 1
          PROVE  \/ drawn'[c][2] = drawn'[c + 1][2] /\ drawn'[c][1] + W <= drawn'[c + 1][1]
                 \/ drawn'[c][2] + H <= drawn'[c + 1][2]
      BY <1>2 DEF ReadsInOrder
    <3>2. c \in 1 .. Len(kept) /\ c \in Nat
      BY <1>6
    <3>3. kept = drawn /\ ~clears /\ drawn # <<>>
      BY <3>2, EmptySeq DEF kept
    <3>4. CASE c < Len(kept)
      <4>1. c \in 1 .. Len(drawn) - 1 /\ c + 1 \in 1 .. Len(kept)
        BY <1>6, <3>2, <3>3, <3>4
      <4>2. drawn'[c] = drawn[c] /\ drawn'[c + 1] = drawn[c + 1]
        BY <1>6, <3>2, <3>3, <4>1
      <4>. QED  BY <4>1, <4>2 DEF FbInv, Drawn, ReadsInOrder
    <3>5. CASE c = Len(kept)
      <4>1. drawn'[c] = Newest /\ drawn'[c + 1] = g
        BY <1>6, <3>2, <3>3, <3>5 DEF Newest
      <4>2. Newest[1] \in Nat /\ Newest[2] \in Nat
        BY <3>3, EmptySeq, ElementOfSeq DEF FbInv, Drawn, Newest
      <4>3. \/ curY = Newest[2] /\ Newest[1] + W <= curX
            \/ Newest[2] + H <= curY
        BY <1>1, <3>3 DEF FbInv, Onward, Below
      <4>4. (gx = curX /\ gy = curY) \/ gy = curY + H
        BY <3>3
      <4>5. curX \in Nat /\ curY \in Nat /\ H \in Nat /\ W \in Nat
        BY <1>2
      <4>. HIDE DEF g, gx, gy
      <4>6. \/ gy = Newest[2] /\ Newest[1] + W <= gx
            \/ Newest[2] + H <= gy
        BY <4>2, <4>3, <4>4, <4>5
      <4>. QED  BY <1>4, <4>1, <4>6
    <3>. QED  BY <1>6, <3>2, <3>4, <3>5
  <2>. QED  BY <1>1, <1>6, <2>1, <2>2, <2>3 DEF Drawn
<1>. QED  BY <1>7, <1>8, <1>9, <1>11, <1>13 DEF FbInv
-----------------------------------------------------------------------------
LEMMA StepInv == FbInv /\ [FbNext]_fbVars => FbInv'
<1>. SUFFICES ASSUME FbInv, [FbNext]_fbVars PROVE FbInv'
  OBVIOUS
<1>1. CASE Probe
  BY <1>1, ProbeStep
<1>2. CASE Newton
  BY <1>2, NewtonStep
<1>3. CASE SetScale
  BY <1>3, SetScaleStep
<1>4. CASE PrintPrefix
  BY <1>4, PrintPrefixStep
<1>5. CASE StepNewline
  BY <1>5, StepNewlineStep
<1>6. CASE DrawGlyph
  BY <1>6, DrawGlyphStep
<1>7. CASE PrintBody
  BY <1>7, PrintBodyStep
<1>8. CASE Return
  BY <1>8, ReturnStep
<1>9. CASE UNCHANGED fbVars
  <2>1. /\ info' = info /\ scale' = scale /\ fbAt' = fbAt /\ x' = x /\ y' = y
        /\ msg' = msg /\ told' = told /\ text' = text /\ textX' = textX /\ j' = j
        /\ curX' = curX /\ curY' = curY /\ lastY' = lastY /\ drawn' = drawn
    BY <1>9 DEF fbVars, rootVars, textVars
  <2>2. FbTypeOK' /\ Rooting'
    BY <2>1 DEF FbInv, FbTypeOK, Rooting, N
  <2>3. Texts' /\ Onward'
    BY <2>1 DEF FbInv, Texts, Scaled, N, Printing, Prefix, PrefixWidth, W,
                Onward, Newest, Below, H
  <2>4. Drawn'
    BY <2>1, DrawnKept DEF FbInv
  <2>. QED  BY <2>2, <2>3, <2>4 DEF FbInv
<1>. QED  BY <1>1, <1>2, <1>3, <1>4, <1>5, <1>6, <1>7, <1>8, <1>9
          DEF FbNext, AllTold

(* The font's scale, the text that is printed and the glyphs on the screen *)
(* stay as described, for every screen and all messages: simplefb_probe    *)
(* and simplefb_console_write.                                             *)
THEOREM FbInvariance == FbSpec => []FbInv
BY FbInitInv, StepInv, PTL DEF FbSpec

(* get_font_scale_factor ends with the whole part of the diagonal's square *)
(* root, and the font is scaled by that, in whole units of Diagonal.       *)
THEOREM RootExact == FbSpec => []ScaleExact
<1>1. FbInv => ScaleExact
  BY DEF FbInv, Texts, Scaled, ScaleExact
<1>. QED  BY <1>1, FbInvariance, PTL

(* No glyph is cut at an edge of a screen with room for one right of the   *)
(* longest prefix, and draw_pixel stays in the framebuffer of every screen *)
(* whose pixels have the bytes their format takes.                         *)
THEOREM NothingCut == PixelsFit => (FbSpec => []GlyphsWhole)
<1>. SUFFICES ASSUME PixelsFit PROVE FbSpec => []GlyphsWhole
  OBVIOUS
<1>1. ASSUME FbInv PROVE GlyphsWhole
  <2>1. BytesOf(info.format) <= info.stride
    BY <1>1 DEF FbInv, FbTypeOK, PixelsFit
  <2>2. \A c \in 1 .. Len(drawn) : Whole(drawn[c])
    BY <1>1 DEF FbInv, Drawn
  <2>. QED  BY <2>1, <2>2 DEF Whole, GlyphsWhole
<1>. QED  BY <1>1, FbInvariance, PTL

(* __simplefb_raw_print draws glyphs that do not overlap, each right of the *)
(* one before or on a lower line, whatever wraps and wherever the screen is *)
(* cleared.                                                                 *)
THEOREM NothingOverlaps == FbSpec => []ReadsInOrder
<1>1. FbInv => ReadsInOrder
  BY DEF FbInv, Drawn
<1>. QED  BY <1>1, FbInvariance, PTL
=============================================================================
