\* The administrator and a user who registers: logins with and without the second factor,
\* logouts, resets and restarts, while sessions and links expire.
CONSTANTS
  adm = adm
  ann = ann
  p1 = p1
  p2 = p2
  Users = {adm, ann}
  Administrator = adm
  Reserved = {adm}
  Passwords = {p1, p2}
  None = None
  AccessLife = 2
  MfaLife = 1
  ResetLife = 2
  MaxDraws = 3
  MaxTokens = 3
  MaxTime = 4
\* The bounds on draws, tokens and time stop the run.
CHECK_DEADLOCK FALSE
SYMMETRY Symmetry
SPECIFICATION Spec
INVARIANTS
  TypeOK
  SessionsKnowThePassword
  LoggedOutStaysOut
  CodesWorkOnce
  ResetLinksWorkOnce
PROPERTIES
  SecondFactorGuardsSessions
  EnablingLeavesTheCode
