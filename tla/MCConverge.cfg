SPECIFICATION FairSpec
CONSTANTS
  c1 = c1
  c2 = c2
  t1 = t1
  t2 = t2
  run = run
  recover = recover
  NoTx = NoTx
  NoChannel = NoChannel
  Channels <- MCChannels
  TxIds <- MCOneTx
  Procs <- MCProcs
  Runner = run
  Overlap = FALSE
  MaxFaults = 2
PROPERTIES
  RecoveryConverges
  AbortConverges
