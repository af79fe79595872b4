SPECIFICATION Spec
CONSTANTS
  Procs = {p1, p2}
  Subs = {s1}
  Urls = {u1, u2}
  Keys = {k1, k2}
  Hand = {h1}
  Manual = Manual
  None = None
  FaultSets = {{}, {"save", "crash"}}
SYMMETRY Symmetry
INVARIANTS StoresAgree ServersOfCurrentURL
PROPERTIES FavouritesKept
