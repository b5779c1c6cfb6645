CONSTANTS
  r1 = r1
  r2 = r2
  read1 = read1
  edit1 = edit1
  edit2 = edit2
  search1 = search1
  d1 = d1
  d2 = d2
  Nobody = Nobody
  NoSession = NoSession
  Runs <- TwoRuns
  Calls = {edit1}
  HostReads = {}
  Proposals = {edit1}
  Clicks <- OneClick
  MaxToolRounds = 1
  MaxApprovals = 2
SPECIFICATION PanelSpec
INVARIANT AppliedIsReported
CHECK_DEADLOCK FALSE
