\* The command on every command line of MCCommands, killed at any moment.
CONSTANTS
  Texts <- MCTexts
  Commands <- MCCommands

SPECIFICATION Spec

INVARIANTS
  TypeOK
  ReportExact
  ExitTellsTruth
  FinishedRunsKept
