\* One document, two categories whose shape and permissions change under it, users whose
\* roles change, lists of an older release: who gets to change what?
CONSTANTS
  ann = ann
  kim = kim
  c1 = c1
  c2 = c2
  t1 = t1
  t2 = t2
  b1 = b1
  Categories = {c1, c2}
  Titles = {t1, t2}
  Users = {ann, kim}
  Contents = {b1}
  Tags = {}
  RequestedRoles = {"admin", "login_user"}
  InitialRole <- OneAdminOneMember
  LegacyPermissions <- OldLists
  MaxDocuments = 1
  MaxVersions = 2
  MaxEvents = 1
  MaxViews = 0
  EmptyName = EmptyName
  None = None
  Unset = Unset
SYMMETRY Symmetry
SPECIFICATION Spec
INVARIANTS
  AnAdministratorRemains
PROPERTIES
  EditsAreSignedAndAllowed
  RenamesAndDeletionsAreSignedAndAllowed
  OnlyAdministratorsChangeRights
