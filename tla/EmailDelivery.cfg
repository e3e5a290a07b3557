\* A mail of each kind: one with retries, one test, with every provider and restarts between.
CONSTANTS
  verification = verification
  test = test
  Mails = {verification, test}
  Tests = {test}
  Providers = {"log", "smtp", "resend"}
  Retries = 2
\* A restart is possible at any time, so nothing stops.
SPECIFICATION Spec
INVARIANTS
  TypeOK
  NoSecondCopyWithKey
PROPERTIES
  PromiseKept
  EveryMailIsSettled
