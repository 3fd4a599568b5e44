\* The console and the GUI both in use; nothing fails and nobody is killed.
SPECIFICATION Spec
CONSTANTS
  console = console
  server = server
  Thread = {console, server}
  Ops <- ConsoleAndGui
  HasBase = TRUE
  CanFail = FALSE
  CanKill = FALSE
INVARIANTS
  ResetReleased
