\* An account without an address and two newcomers compete for two addresses.
CONSTANTS
  adm = adm
  ann = ann
  bob = bob
  e1 = e1
  e2 = e2
  s1 = s1
  s2 = s2
  Users = {adm, ann, bob}
  Legacy = {adm}
  Emails = {e1, e2}
  Secrets = {s1, s2}
  None = None
  LinkLife = 1
  MaxTime = 2
  MaxLinks = 2
  MaxChecked = 2
\* Accounts can always change their address, so nothing stops.
SYMMETRY Symmetry
SPECIFICATION Spec
INVARIANTS
  TypeOK
  VerifiedAddressesWereProven
  FreshProofsVerify
  RegistrantsAskedThemselves
