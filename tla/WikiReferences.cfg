\* A public or private document edited in content, category and tags while tags and
\* categories are deleted under it: do its references and its newest version still agree?
CONSTANTS
  ann = ann
  kim = kim
  c1 = c1
  c2 = c2
  t1 = t1
  b1 = b1
  b2 = b2
  g1 = g1
  Categories = {c1, c2}
  Titles = {t1}
  Users = {ann, kim}
  Contents = {b1, b2}
  Tags = {g1}
  RequestedRoles = {}
  InitialRole <- OneAdminOneMember
  LegacyPermissions = {}
  MaxDocuments = 1
  MaxVersions = 3
  MaxEvents = 1
  MaxViews = 0
  EmptyName = EmptyName
  None = None
  Unset = Unset
SYMMETRY Symmetry
SPECIFICATION Spec
INVARIANTS
  HeadIsNewestVersion
  ReferencesResolve
