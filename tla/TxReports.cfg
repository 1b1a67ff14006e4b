SPECIFICATION FairTx
CONSTANTS
  Speeds <- SomeSpeeds
  Modes = {0, 2}
  MaxReports = 3
  TxDepth = 1
INVARIANTS
  TxTypeOK
  ReportIsWhole
PROPERTIES
  LastReportTaken
