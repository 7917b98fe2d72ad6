SPECIFICATION Spec
CONSTANTS
  Verdicts = {"pass", "drop", "redirect"}
  Sizes = {1, 2}
  Backlog = TRUE
  Gaps = {}
  None = None
  MaxBytes = 6
  MaxRedirects = 1
  MaxAttaches = 2
INVARIANTS EveryByteOnce BehindUnread NativeContinues
CHECK_DEADLOCK FALSE
