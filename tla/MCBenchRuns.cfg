\* The warning of main on -runs with a format other than benchstat.
CONSTANTS
  Texts <- MCTexts
  Commands <- MCCommands

SPECIFICATION Spec

INVARIANT RunsNeedBenchstat
