CONSTANTS
  r1 = r1
  r2 = r2
  read1 = read1
  edit1 = edit1
  edit2 = edit2
  search1 = search1
  d1 = d1
  d2 = d2
  Nobody = Nobody
  NoSession = NoSession
  Runs <- OneRun
  Calls = {edit1, edit2, search1}
  HostReads = {}
  Proposals = {edit1, edit2}
  Clicks <- TwoClicks
  MaxToolRounds = 2
  MaxApprovals = 1
SPECIFICATION FairPanelSpec
INVARIANTS
  PanelTypeOK
  SessionMirrorsRun
  EveryCallAnsweredOnce
  OneDriverPerRun
  AwaitingIsDecidable
  AppliedIsReported
  StreamingHasDriver
PROPERTIES
  FinishedStaysFinished
  DriversReturn
CHECK_DEADLOCK FALSE
