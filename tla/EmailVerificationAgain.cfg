\* An account confirms its address, saves it again and opens the same link.
CONSTANTS
  adm = adm
  e1 = e1
  Users = {adm}
  Legacy = {adm}
  Emails = {e1}
  Secrets = {}
  None = None
  LinkLife = 2
  MaxTime = 2
  MaxLinks = 2
  MaxChecked = 1
SPECIFICATION Spec
INVARIANT VerifiedLinkCompletesVerification
