\* One process that may be killed at any point, two maps and a list.
SPECIFICATION Spec
CONSTANTS
  Procs = {p1}
  MapNames = {m1, m2}
  ListNames = {l1}
  MaxBlocks = 6
  MaxNodes = 2
  Damaged = Damaged
INVARIANTS TypeOK NamesResolve NothingShared SizeExact SizeCovers
PROPERTIES CatalogSpec
