SPECIFICATION Spec
CONSTANTS
  Requests = {r1, r2}
  Paths = {p}
  Origins <- TwoHosts
  Headers = {"authorization", "x-api-key"}
  Given <- AllHeaders
  MaxInflight = 2
  MaxRedirects = 2
  MaxFaults = 1
  None = None
INVARIANTS SlotsGivenBack SensitiveHeadersStay FilesSafe
PROPERTY Answered
CHECK_DEADLOCK FALSE
