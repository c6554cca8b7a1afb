\* Two threads of console events against one Tcl thread, two signals.
SPECIFICATION FairSpec
CONSTANTS
  NSIG = 3
  Console = {1, 2}
  Threads = {1, 2}
  NoSuch = 0
INVARIANT MarkIsAnnounced
PROPERTY Served
CHECK_DEADLOCK FALSE
