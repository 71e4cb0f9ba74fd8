----------------------------- MODULE MCStartUp ------------------------------
(***************************************************************************)
(* Builds of StartUp in a RAM of 48 cells: loaders linked in the middle of *)
(* it with a header of one or three cells, loaded everywhere there is room *)
(* for them; and ARM builds on both sides of the address whose sign        *)
(* changes, and across it.                                                 *)
(***************************************************************************)
EXTENDS StartUp

MCTop == 47
MCSignBit == 24
MCPage == 4

RoundUp(a) == ((a + MCPage - 1) \div MCPage) * MCPage

Build(arch, pic, base, head, loop, content, bss, loaded) ==
  [arch |-> arch, pic |-> pic, base |-> base, head |-> head, loop |-> loop,
   content |-> content, bss |-> bss, loaded |-> loaded,
   stackEnd |-> RoundUp(base + head + content + bss) + MCPage]

Sizes == {3, 4, 7} \X {0, 1, 3}

MovedBuilds ==
  {Build("aarch64", TRUE, base, h, 2, s[1], s[2], at) :
     base \in {4, 18, 26}, h \in {2, 3}, s \in Sizes, at \in 0 .. 40}

FixedBuilds ==
  {Build(arch, FALSE, base, h, 0, s[1], s[2], base) :
     arch \in {"aarch64", "arm"}, base \in {4, 12, 14, 16, 18, 20, 26},
     h \in {0, 2}, s \in Sizes}

MCBuilds == {b \in MovedBuilds \cup FixedBuilds : IsBuild(b)}
=============================================================================
