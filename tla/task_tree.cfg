SPECIFICATION FairSpec
CONSTANTS
  init = init  a = a  b = b  c = c  spare = spare
  node1 = node1  node2 = node2
  None = None
  Tasks = {init, a, b, c, spare}
  InitProcess = init
  Nodes = {node1, node2}
  Parent0 <- Parents
  Leader0 <- Leaders
  Home0 <- Homes
  Exiters = {init, a, c, spare}
  Ignorers = {init, b, c}
  Forkers = {init, b, c}
  Subreapers = {a}
  Tracings <- Tracings0
INVARIANTS ListsExact NobodyLeftBehind ReapedOnce ZombiesAnnounced SubreapersKnown
\* All tasks but init may be gone.
PROPERTIES ExitsEnd
CHECK_DEADLOCK FALSE
