SPECIFICATION FairTypesSpec
CONSTANTS
  h1 = h1
  h2 = h2
  Checks <- MCChecks
  max_failed_checks <- MCMaxFailed
  CounterMod = 4
  ok_codes = {"200", "503"}
  drain_codes = {"503"}
  Answers <- MCAnswers
  Ports = {p1, p2}
  NoPort = NoPort
  IdMod = 3
  MaxEvents = 5
  Alone = {h1}
  NoCheck = NoCheck
  SeqNumbers = 4
  ByteMod = 2
INVARIANT DownAfterThatManyFailures
INVARIANT TypesTypeOK
INVARIANT HoldersRun
INVARIANT QuestionsAreRight
INVARIANT CksumsVerify
INVARIANT DiffsAreFloors
INVARIANT ChainsAreWhole
INVARIANT LinksAreInOrder
INVARIANT PassesAreAnswered
INVARIANT NonzeroAnswersAreHeard
PROPERTY DownOnlyAfterContiguousFailures
PROPERTY KeepsContract
PROPERTY HttpResultsAreTheirs
PROPERTY DnsPassesAreAnswered
PROPERTY HeldRunsEnd
CHECK_DEADLOCK FALSE
