SPECIFICATION SSpec
CONSTANTS
  c1 = c1
  c2 = c2
  c3 = c3
  t1 = t1
  t2 = t2
  run = run
  recover = recover
  NoTx = NoTx
  NoChannel = NoChannel
  Channels <- MCChannels
  TxIds <- MCTwoTxs
  Procs <- MCProcs
  Runner = run
  Overlap = FALSE
  MaxFaults = 0
SYMMETRY MCSymmetry
INVARIANTS
  ArmingScreenIsTrue
