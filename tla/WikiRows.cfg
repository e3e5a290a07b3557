\* Two titles over one category, so that renames and deletions reuse titles: which
\* document do the rows found under a title belong to?
CONSTANTS
  ann = ann
  kim = kim
  c1 = c1
  t1 = t1
  t2 = t2
  b1 = b1
  Categories = {c1}
  Titles = {t1, t2}
  Users = {ann, kim}
  Contents = {b1}
  RequestedRoles = {}
  Tags = {}
  InitialRole <- OneAdminOneMember
  LegacyPermissions = {}
  MaxDocuments = 2
  MaxVersions = 2
  MaxEvents = 3
  MaxViews = 1
  EmptyName = EmptyName
  None = None
  Unset = Unset
SYMMETRY Symmetry
SPECIFICATION Spec
INVARIANTS
  TypeOK
  RowsBelongToTheirDocument
  VersionsNumberedWithoutGaps
  RenameTrailIsUnbroken
PROPERTY HistoryIsAppendOnly
