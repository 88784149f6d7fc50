\* The comment of PrintBenchstat on failures.
CONSTANTS
  Texts <- MCTexts
  Commands <- MCCommands

SPECIFICATION Spec

INVARIANT FailuresNoticed
