SPECIFICATION LanguageSpec
CONSTANTS
  Trees = {t1, t2}
  Rows = {r1, r2, r3, r4}
  Columns = {c1, c2}
  MaxRows = 3
  MaxColumns = 2
  MaxCells = 4
  MaxDepth = 1
  Main = main
  lib = lib
  util = util
  Files = {lib, util}
  Programs <- SomePrograms
  Errors = {e1, e2}
  MaxFrames = 5
  MaxEval = 1
  MaxExecute = 1
SYMMETRY Symmetry
CHECK_DEADLOCK FALSE
INVARIANTS
  NeverCorrupt
  StateMatchesFrames
  ImportsAreWhole
PROPERTIES
  RemovedForGood
