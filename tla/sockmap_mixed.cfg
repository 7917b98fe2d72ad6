SPECIFICATION Spec
CONSTANTS
  Verdicts = {"pass", "drop", "redirect"}
  Sizes = {1, 2}
  Backlog = TRUE
  Gaps = {"overtake"}
  None = None
  MaxBytes = 4
  MaxRedirects = 1
  MaxAttaches = 2
INVARIANTS WithinReceived
CHECK_DEADLOCK FALSE
