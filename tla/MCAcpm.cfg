SPECIFICATION FairSpec
CONSTANT
  Script <- MCScript
  Reg <- MCReg
  Byte <- MCByte
INVARIANT AnswerIsOwn
PROPERTY KeepsPromise
PROPERTY Returns
