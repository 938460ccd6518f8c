SPECIFICATION ArbiterSpec
CONSTANTS
  NoFlush = NoFlush
  Uids <- MCUids
INVARIANTS ForwardedCoversAll
