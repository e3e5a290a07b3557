\* Four categories, none with the empty name: every shape of tree up to four rows.
CONSTANTS
  c1 = c1
  c2 = c2
  c3 = c3
  c4 = c4
  Categories = {c1, c2, c3, c4}
  EmptyName = EmptyName
  None = None
  Unset = Unset
  RequestedRoles <- Role
SYMMETRY Symmetry
SPECIFICATION CategorySpec
INVARIANTS
  CategoryTypeOK
  EveryCategoryUnderARoot
PROPERTY PermissionChangeMeetsNewFloor
