\* A root process that may start two others, a mailbox of two slots.
SPECIFICATION FairSpec
CONSTANTS
  root = root
  k1 = k1
  k2 = k2
  Root = root
  Kids <- MCKids
  NumSlots = 2
INVARIANT RootEndsIt
PROPERTIES EofFollowsRoot CallsReturn
CHECK_DEADLOCK FALSE
