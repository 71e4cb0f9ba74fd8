----------------------------- MODULE MCSimpleFb -----------------------------
(* The screens of all boards, and small ones that fill up after a few lines, *)
(* at each edge of a glyph's width and height; the font of the source.       *)
EXTENDS SimpleFb, Boards

Size(w, h) == Screen("ARGB8888", w, h, 4, 0)

Small == {Size(w, h) : w \in {31, 32, 33, 40}, h \in {37, 38, 53, 54, 70}}

MCScreens ==
  BoardScreens \cup Small \cup {Screen("RGB888", 64, 100, 3, 2)}
               \cup {Size(0, 0), Size(1, 1)}

Text(n) == [c \in 1 .. n |-> Glyph]

MCMessages ==
  {[prefix |-> 2, body |-> Text(1) \o <<Newline>>],
   [prefix |-> 3, body |-> Text(5) \o <<Newline>>],
   [prefix |-> 1, body |-> <<Glyph, Newline, Glyph, Glyph, Newline>>],
   [prefix |-> 2, body |-> <<Newline>>],
   [prefix |-> 4, body |-> Text(70) \o <<Newline>>]}
=============================================================================
