------------------------------ MODULE MCConsole -----------------------------
(* The boot of the herolte board in outline: a line of each level before and *)
(* after the framebuffer is there, a flush in between and one at the end.    *)
EXTENDS Console

MCBoot ==
  <<Register("earlycon"), Say(6), Register("simplefb"), Say(6), Say(3),
    Flush, Say(6), Flush, Jump>>

MCLogLevels == {3, 6}
=============================================================================
