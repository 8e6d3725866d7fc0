SPECIFICATION Spec
CONSTANTS
  Unknown = Unknown
  Coin <- MCCoin
  Plans <- MCPlans
  Changes = {"C", Unknown}
  Builds <- MCBuilds
  Devices = {"d1", "d2", "d3"}
  Threshold = 2
  Nested <- MCNested
  AnswersTo <- MCAnswersTo
  Files <- MCFiles
  M32 = 32
  M64 = 256
  MinDelta = 3
  MaxDelta = 20
  Defaults <- MCDefaults
INVARIANTS
  VerifierIsExact
  NothingSignedIsVerified
  OrderDoesNotMatter
  FaithfulRoundIsSigned
  SignedIsSound
  RequestIsTheFile
  NoKeyIsIdle
