--------------------------- MODULE MCLz4RoundTrip ---------------------------
(***************************************************************************)
(* The decoder run on the payloads of MCLz4: every stream its encoder      *)
(* makes, whole or cut short at any byte, whose meaning is known, and      *)
(* malformed ones, of which only what the decoder may never do is known.   *)
(***************************************************************************)
EXTENDS MCLz4

VARIABLES
  kind,      (* "whole", "cut" or "malformed"                               *)
  plain      (* what each block of the stream stands for                    *)

rtVars == <<vars, kind, plain>>

Cut(s, n) == SubSeq(s, 1, n)

Text == FlattenSeq(plain)

(* Ceilings around the size of the result, and one with room to spare. *)
Ceilings(x) == LET n == Len(FlattenSeq(x.plain))
               IN {n - 1, n, n + 1, Len(x.plain[1])}

CutStreams == {x \in GoodStreams : Len(x.bytes) \in 30 .. 36}

WholeInit == \E x \in GoodStreams : \E d \in Ceilings(x) :
               plain = x.plain /\ InitWith(x.bytes, d)

CutInit == \E x \in CutStreams : \E n \in 0 .. Len(x.bytes) - 1 :
             plain = x.plain /\ InitWith(Cut(x.bytes, n), SizeMax)

MalformedInit == \E s \in BadInputs, d \in MCDstSizes :
                   plain = <<>> /\ InitWith(s, d)

RTInit ==
  \/ kind = "whole" /\ WholeInit
  \/ kind = "cut" /\ CutInit
  \/ kind = "malformed" /\ MalformedInit

RTNext == Next /\ UNCHANGED <<kind, plain>>

RTSpec == RTInit /\ [][RTNext]_rtVars /\ WF_rtVars(RTNext)
-----------------------------------------------------------------------------
Done == pc = "returned"

(* A well-formed stream that fits is decoded to exactly what it stands for; *)
(* one that does not fit is refused as too big, never silently cut.         *)
RoundTrip ==
  Done /\ kind = "whole" =>
    IF Len(Text) <= dstSize
    THEN ret = "OK" /\ out = Text /\ outSize = Len(Text)
    ELSE ret = "NOSPACE"

(* A payload that lost its end is refused, unless it was cut between two    *)
(* blocks: the format has no checksum, so whole blocks are all that success *)
(* can stand for, and never a part of one.                                  *)
CutNeverForges ==
  Done /\ kind = "cut" =>
    \/ ret = "INVALID"
    \/ ret = "OK" /\ \E k \in 1 .. Len(plain) : out = FlattenSeq(Cut(plain, k))
=============================================================================
