CONSTANTS
  x1 = x1
  x2 = x2
  y1 = y1
  x = x
  y = y
  Nodes = {x1, x2, y1}
  Countries = {x, y}
  None = None
  CountryOf <- MCCountryOf
  Rank <- MCRank
  Catalogs <- MCCatalogs
  Target = 2
  Max = 2
  MaxEvents = 2
SPECIFICATION FairSpec
INVARIANT NTypeOK
PROPERTIES  CountryKept RefreshEnds
