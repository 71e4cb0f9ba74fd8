------------------------------ MODULE SimpleFb ------------------------------
(***************************************************************************)
(* The framebuffer console: the probe, which sizes the font to the screen, *)
(* and simplefb_console_write, which prints a message as its prefix and    *)
(* its body.  A text is a sequence of characters to draw and newlines.     *)
(***************************************************************************)
EXTENDS Integers, Sequences

CONSTANTS
  Screens,     (* records as Screen in Boards makes them                    *)
  FontW, FontH,
  TopPadding,  (* FB_TEXT_TOP_PADDING                                       *)
  Diagonal,    (* of a screen for which the font is not scaled              *)
  Messages,    (* records: prefix (its length) and body (a text)            *)
  MaxMessages  (* bound: messages printed                                   *)

Glyph   == "glyph"
Newline == "newline"

(* int does not overflow; printk's callers end a message with a newline. *)
ASSUME SimpleFbAssumption ==
  /\ \A s \in Screens :
       /\ s.width \in Nat /\ s.height \in Nat /\ s.scale \in Nat
       /\ s.width * s.width + s.height * s.height < 2147483647
       /\ s.stride \in Nat /\ s.width * s.height * s.stride < 2147483647
  /\ {FontW, FontH, TopPadding, Diagonal, MaxMessages} \subseteq Nat \ {0}
  /\ \A m \in Messages :
       /\ m.prefix \in Nat
       /\ m.body \in Seq({Glyph, Newline})
       /\ m.body # <<>> /\ m.body[Len(m.body)] = Newline

VARIABLES
  info,        (* fb_info                                                   *)
  scale,       (* scale_f                                                   *)
  fbAt,        (* what runs                                                 *)
  x, y,        (* of the integer square root                                *)
  msg, told,   (* the message that is printed, and how many have been       *)
  text, textX, (* the text __simplefb_raw_print is called with, and its left *)
  j,           (* the character it has come to                              *)
  curX, curY,  (* current_x, current_y                                      *)
  lastY,       (* last_y: 0 before the first text                           *)
  drawn        (* where glyphs stand since the screen was cleared           *)

rootVars == <<scale, x, y>>
textVars == <<msg, told, text, textX, j, curX, curY, lastY, drawn>>
fbVars == <<info, fbAt, rootVars, textVars>>

NoMessage == [prefix |-> 0, body |-> <<>>]

FbInit ==
  /\ info \in Screens
  /\ scale = 0 /\ fbAt = "probe" /\ x = 0 /\ y = 0
  /\ msg = NoMessage /\ told = 0 /\ text = <<>> /\ textX = 0
  /\ j = 1 /\ curX = 0 /\ curY = 0 /\ lastY = 0 /\ drawn = <<>>
-----------------------------------------------------------------------------
(* simplefb_probe and get_font_scale_factor *)

N == info.width * info.width + info.height * info.height

Probe ==
  /\ fbAt = "probe"
  /\ x' = N
  /\ y' = (N + 1) \div 2
  /\ fbAt' = "newton"
  /\ UNCHANGED <<info, scale, textVars>>

SettledEarly_Wrong == 2 * y >= x - 1
Settled == y >= x

Newton ==
  /\ fbAt = "newton" /\ ~Settled
  /\ x' = y
  /\ y' = (y + N \div y) \div 2
  /\ UNCHANGED <<info, scale, fbAt, textVars>>

FontScale(root) ==
  IF info.scale # 0 THEN info.scale
  ELSE IF root \div Diagonal < 1 THEN 1 ELSE root \div Diagonal

SetScale ==
  /\ fbAt = "newton" /\ Settled
  /\ scale' = FontScale(x)
  /\ fbAt' = "ready"
  /\ UNCHANGED <<info, x, y, textVars>>

W == FontW * scale
H == FontH * scale

(* draw_pixel sets only pixels of the screen.  Those of a glyph are within  *)
(* its width and height; this is the last of them, counted in bytes.        *)
OnScreen(g) == g[1] < info.width /\ g[2] < info.height

Least(a, b) == IF a < b THEN a ELSE b

Location(px, py) == px * info.stride + py * info.width * info.stride

LastOf(g) ==
  Location(Least(g[1] + W, info.width) - 1, Least(g[2] + H, info.height) - 1)

BytesOf(format) ==
  CASE format = "RGB888" -> 3 [] format = "RGB565" -> 2 [] OTHER -> 4

(* What clean_fbmem clears. *)
Memory == info.width * info.height * info.stride
-----------------------------------------------------------------------------
(* simplefb_console_write *)

Prefix(n) == [c \in 1 .. n |-> Glyph]

(* __simplefb_raw_print is called: a text starts on the line where the last *)
(* one has ended.                                                           *)
RawPrint(t, left, line) ==
  /\ text' = t /\ textX' = left /\ j' = 1 /\ curX' = left
  /\ lastY' = IF line = 0 THEN TopPadding ELSE line
  /\ curY' = lastY'

PrintPrefix ==
  /\ fbAt = "ready" /\ told < MaxMessages
  /\ \E m \in Messages :
       /\ msg' = m
       /\ RawPrint(Prefix(m.prefix), 0, lastY)
  /\ told' = told + 1
  /\ fbAt' = "prefix"
  /\ UNCHANGED <<info, rootVars, drawn>>

PrefixWidth == msg.prefix * FontW * scale

EndOfLine == curY + H

StepNewline ==
  /\ fbAt \in {"prefix", "body"} /\ j <= Len(text) /\ text[j] = Newline
  /\ curX' = textX
  /\ curY' = EndOfLine
  /\ j' = j + 1
  /\ UNCHANGED <<info, fbAt, rootVars, msg, told, text, textX, lastY, drawn>>

RightEdge_Wrong == info.width
RightEdge == info.width - W

(* Wrap at the right edge; clear the screen and start again at its top when *)
(* a glyph would pass its bottom; then draw.                                *)
DrawGlyph ==
  /\ fbAt \in {"prefix", "body"} /\ j <= Len(text) /\ text[j] = Glyph
  /\ LET wraps  == curX > RightEdge
         line   == IF wraps THEN curY + H ELSE curY
         clears == line >= info.height - H
         gx     == IF wraps \/ clears THEN textX ELSE curX
         gy     == IF clears THEN TopPadding ELSE line
     IN  /\ drawn' = Append(IF clears THEN <<>> ELSE drawn, <<gx, gy>>)
         /\ curX' = gx + W
         /\ curY' = gy
  /\ j' = j + 1
  /\ UNCHANGED <<info, fbAt, rootVars, msg, told, text, textX, lastY>>

KeptY_Wrong == lastY
KeptY == curY

PrintBody ==
  /\ fbAt = "prefix" /\ j > Len(text)
  /\ RawPrint(msg.body, PrefixWidth, KeptY)
  /\ fbAt' = "body"
  /\ UNCHANGED <<info, rootVars, msg, told, drawn>>

Return ==
  /\ fbAt = "body" /\ j > Len(text)
  /\ lastY' = KeptY
  /\ fbAt' = "ready"
  /\ UNCHANGED <<info, rootVars, msg, told, text, textX, j, curX, curY, drawn>>

AllTold ==
  /\ fbAt = "ready" /\ told = MaxMessages
  /\ UNCHANGED fbVars

FbNext ==
  \/ Probe \/ Newton \/ SetScale \/ PrintPrefix \/ StepNewline \/ DrawGlyph
  \/ PrintBody \/ Return \/ AllTold

FbSpec == FbInit /\ [][FbNext]_fbVars
-----------------------------------------------------------------------------
(* The variables have their types. *)
FbTypeOK ==
  /\ info \in Screens
  /\ fbAt \in {"probe", "newton", "ready", "prefix", "body"}
  /\ {scale, x, y, told, textX, curX, curY, lastY} \subseteq Nat
  /\ fbAt \notin {"probe", "newton"} => scale > 0
  /\ j \in 1 .. Len(text) + 1

(* The font is scaled by the whole part of the diagonal of the screen, in *)
(* units of Diagonal; never by nothing.                                   *)
ScaleExact ==
  /\ FbTypeOK
  /\ fbAt = "ready" /\ info.scale = 0 =>
       /\ scale >= 1
       /\ scale > 1 => (scale * Diagonal) * (scale * Diagonal) <= N
       /\ N < ((scale + 1) * Diagonal) * ((scale + 1) * Diagonal)

(* There is room for one glyph right of the longest prefix, and one line. *)
Roomy ==
  /\ \A m \in Messages : (m.prefix + 1) * W <= info.width
  /\ TopPadding + H < info.height

(* On a screen with that much room no glyph is cut at an edge: nothing that *)
(* is printed is lost, whatever wraps and wherever the screen fills up.  On *)
(* any screen, what is drawn stays in the memory the probe has cleared, and *)
(* no pixel runs into the next one.                                         *)
GlyphsWhole ==
  /\ Roomy => \A c \in 1 .. Len(drawn) :
                /\ drawn[c][1] + W <= info.width
                /\ drawn[c][2] + H <= info.height
  /\ drawn # <<>> => BytesOf(info.format) <= info.stride
  /\ \A c \in 1 .. Len(drawn) :
       OnScreen(drawn[c]) => LastOf(drawn[c]) + BytesOf(info.format) <= Memory

(* Glyphs never overlap, and stand in the order in which they were printed: *)
(* each is right of the one before it or on a lower line, the first of a    *)
(* text where the last one has ended included.                              *)
ReadsInOrder ==
  \A c \in 1 .. Len(drawn) - 1 :
    \/ drawn[c][2] = drawn[c + 1][2] /\ drawn[c][1] + W <= drawn[c + 1][1]
    \/ drawn[c][2] + H <= drawn[c + 1][2]
=============================================================================
