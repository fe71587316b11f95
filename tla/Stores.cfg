SPECIFICATION MCSpec
CONSTANTS
  w1 = w1
  w2 = w2
  u1 = u1
  u2 = u2
  u3 = u3
  i1 = i1
  i2 = i2
  i3 = i3
  None = None
  Torn = Torn
  NoValue = NoValue
  Writers = {w1, w2}
  Updates = {u1, u2, u3}
  Inodes = {i1, i2, i3}
  Exclusive = TRUE
  a1 = a1
  a2 = a2
  Actors = {a1, a2}
  Dirs = {1, 2, 3, 4}
  Names = {"x", "y"}
  Tree <- TreeVal
  Roots <- RootsVal
  Clones = {"repo"}
  Present <- PresentVal
  Meta <- MetaVal
  Before <- BeforeVal
  After <- AfterVal
  MayFail = TRUE
  Docs <- DocsVal
  MaxName = 4
  MaxDescription = 6
  Prompts <- PromptsVal
  Catalogs <- CatalogsVal
  Header = 2
  Notice = 2
  CatalogLimit = 9
  LoadLimit = 3
INVARIANT NothingLost
INVARIANT VisibleIsWhole
INVARIANT ReadAsWritten
INVARIANT NamedAreLoaded
PROPERTY ImplementsStore
SYMMETRY Symmetry
CHECK_DEADLOCK FALSE
