SPECIFICATION Spec
CONSTANTS
  dom = dom
  work = work
  river = river
  none = none
  Names = {dom, work, river}
  NoName = none
  Dom = dom
  HomeMarkers = {dom}
  MaxLocations = 3
  MaxEdits = 1
SYMMETRY NameSymmetry
INVARIANTS
  TypeOK
  ResolutionUnique
  LocationsApart
PROPERTIES
  DefaultKept
