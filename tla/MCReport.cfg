SPECIFICATION FairSpec
CONSTANTS
  Client = {c1, c2, c3}
  Event = {attach, detach}
  None = None
  Short = {c3}
  Failed = Failed
  AddMayFail = TRUE
CONSTRAINT Apart
INVARIANTS
  TypeOK
  CompletesOnlyItsOwn
  NothingKeptBack
  EveryoneDueIsAnswered
PROPERTIES
  ReportEnds
  KeepsPromise
