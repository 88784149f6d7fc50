SPECIFICATION Spec
CONSTANTS
  e1 = e1
  e2 = e2
  e3 = e3
  timeout = timeout
  http = http
  Classes = {timeout, http}
  Errors <- MCErrors
  ClassOf <- MCClassOf
  Configs <- OneWarmup
  Ok = Ok
  None = None
  HasTimeout = TRUE
  JobBufferMax = 1
  MaxErrorSamples = 2
  MergedSampleCap = 2
INVARIANTS
  UnreachableAborts
