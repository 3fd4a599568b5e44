\* One writer (the console), one reader (a polling client), failing mappings,
\* kills and power cycles.
SPECIFICATION Spec
CONSTANTS
  console = console
  server = server
  Thread = {console, server}
  Ops <- ConsoleAndMonitor
  HasBase = TRUE
  CanFail = TRUE
  CanKill = TRUE
INVARIANTS
  TypeOK
  PulsesReleased
  Settled
  SuccessIsReal
  MutedWhileTuning
PROPERTIES
  OnlyItsBit
  CommandsAreAtomic
