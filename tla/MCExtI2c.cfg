SPECIFICATION Spec
INVARIANT WireAsSBoot
INVARIANT ReturnTellsWhich
INVARIANT NoFight
