SPECIFICATION LineSpec
CONSTANTS
  Chars = {"/", "@", "w", " "}
  MaxHistory = 2
  MaxInput = 2
  MaxEntered = 1
  Resumable <- MCResumable
INVARIANTS
  OffsetsFit
  TextIsKept
