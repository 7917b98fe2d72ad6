CONSTANTS
  Binders = {b1, b2}
  Unbinders = {n1}
  Editor = ed
  Starts <- StartsDef
  Edits <- EditsDef
  FenceEdit = TRUE
  MaxEdits = 2
SPECIFICATION FairSpec
INVARIANTS FlagRight SoleWriter
PROPERTIES EpochsEnd
