\* Every entry list of MCReports, in each format: the figures, labels and lines.
CONSTANTS
  Half = 64
  SummaryLimit = 5
  SampleLimit = 5
  Reports <- MCReports
  Terminals <- MCTerminals
  LabelRank <- MCLabelRank

SPECIFICATION Spec

INVARIANTS
  FiguresOrdered
  PercentilesInterpolated
  BucketsByCause
  FailuresListed
  ReportComplete
  TextFits
