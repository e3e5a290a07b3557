\* The whole system: it has no parameters and needs no bounds.
SPECIFICATION Spec
INVARIANTS
  TypeOK
  ServesTablesAndColumns
  OnlyCutOffIndexesAreMissing
  NoStartFails
PROPERTIES
  StartsKeepWhatIsStored
  StartsEndServing
