SPECIFICATION Spec
CONSTANTS
  VLEN = 32
  NoInst = NoInst
  Insts <- MCInsts
INVARIANTS UopsExact
