\* As EmailThrottle.cfg, but the dictionary is pruned as soon as it holds two recipients:
\* the loop that prunes it overwrites the variable that named the recipient.
CONSTANTS
  r1 = r1
  r2 = r2
  r3 = r3
  Recipients = {r1, r2, r3}
  None = None
  DailyLimit = 4
  ReserveDivisor = 4
  Cooldown = 2
  Day = 5
  MaxTracked = 1
  MaxTime = 5
SYMMETRY Symmetry
SPECIFICATION Spec
INVARIANT SendsToOneAddressAreApart
