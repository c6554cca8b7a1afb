SPECIFICATION MCSpec
CONSTANTS
  t1 = t1
  t2 = t2
  t3 = t3
  s1 = s1
  s2 = s2
  a1 = a1
  a2 = a2
  Thread <- MCThread
  Main = t1
  Fn = {fn}
  Site <- MCSite
  Info <- MCInfo
  MaxDepth = 2
  MaxCalls = 3
  None = None
  b1 = b1
  b2 = b2
  Base = {b1, b2}
  Image <- MCImage
  Wanted <- MCWanted
  NoImage = NoImage
  MaxLoads = 3
  Page = {1, 2}
  Width = 2
  Height = 3
  Blank = sp
  Char = {sp, a}
  MasterAt <- MCMaster
  MaxHandled = 3
  Text <- MCText
  MAXRECORDS = 4
  NUMSLOTS = 2
  MaxWrites = 3
  Pool = {p1, p2}
  Script = {c1, c2}
  ReadOnly = {c2}
  File = {f1}
  Process = {e1, e2}
  e1 = e1
  e2 = e2
  Sends <- MCSends
  Null = Null
SYMMETRY Symmetry
INVARIANTS ReturnsHome Rearmed Planted Mirrored Typed Transcript Whole
PROPERTY ToldInPairs Undisturbed
CHECK_DEADLOCK FALSE
