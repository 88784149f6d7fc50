\* The comment of PrintTable on the asterisk of a run that had failures.
CONSTANTS
  Half = 64
  SummaryLimit = 5
  SampleLimit = 5
  Reports <- MCReports
  Terminals <- MCTerminals
  LabelRank <- MCLabelRank

SPECIFICATION Spec

INVARIANT FailuresMarked
