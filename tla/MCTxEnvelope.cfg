SPECIFICATION Spec
CONSTANTS
  Actions <- MCActions
  Styles = {"plain", "upper", "padded", "broken", "empty"}
  W = 3
  MAX_POW_RETRIES = 1
  HashWindow = 1
  MaxTime = 2
  MaxChanges = 1
INVARIANTS
  SignedIsVerified
  WorkIsVerified
  MinesOnFetchedParams
  SaysWhatWasAsked
PROPERTIES
  AttemptsAreFresh
CHECK_DEADLOCK FALSE
