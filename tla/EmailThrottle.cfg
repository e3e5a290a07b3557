\* A day of three ticks, a limit of three mails of which one is kept for resets, and a
\* dictionary that never grows large enough to be pruned.
CONSTANTS
  r1 = r1
  r2 = r2
  Recipients = {r1, r2}
  None = None
  DailyLimit = 3
  ReserveDivisor = 3
  Cooldown = 2
  Day = 3
  MaxTracked = 2
  MaxTime = 7
SYMMETRY Symmetry
SPECIFICATION Spec
INVARIANTS
  TypeOK
  NoDayExceedsTheLimit
  ResetsKeepTheirReserve
  SendsToOneAddressAreApart
  RefusalsMatchTheSends
