CONSTANTS
  Contents <- MCContents
  Foreign <- MCForeign
  None = None
  NULL = NULL
  Cuts = {0, 5, 9}
  MaxOpen = 3
  MaxLost = 2
SPECIFICATION RSpec
INVARIANTS RTypeOK SavedIsLoaded LostOnlyByFailure Base64RoundTrip
CHECK_DEADLOCK FALSE
