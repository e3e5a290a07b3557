\* Creations and new parents ignore what the parent demands.
CONSTANTS
  c1 = c1
  c2 = c2
  Categories = {c1, c2}
  EmptyName = EmptyName
  None = None
  Unset = Unset
  RequestedRoles <- Role
SPECIFICATION CategorySpec
PROPERTY NeverStoredBelowParent
