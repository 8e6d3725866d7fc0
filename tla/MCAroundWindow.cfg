SPECIFICATION FairSpec
CONSTANTS
  c1 = c1
  c2 = c2
  t1 = t1
  t2 = t2
  NoTx = NoTx
  Channels = {c1, c2}
  TxIds = {t1, t2}
  p1 = p1
  p2 = p2
  Peers = {p1, p2}
  Hosts = {p2}
  Wants <- MCWants
  Reservation = 3
  Sweep = 2
  NapLimit = 2
  Size = 3
  PerChannel = 2
  CapChannels = 4
  MaxExisting = 2
  MaxBalance = 7
  Whole = 2
  Earlier <- MCEarlier
  MaxSaves = 3
INVARIANTS
  TypeOK
  RowsAreUsable
  GateIsSound
  VerifyIsNeverRefused
  NodeIsWholeAfterwards
  NothingStaleIsRead
PROPERTIES
  PinsNeverMove
  PrefixSatStill
  SavedIsRead
