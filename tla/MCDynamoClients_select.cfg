CONSTANTS
  d1 = d1
  d2 = d2
  i1 = i1
  i2 = i2
  k1 = k1
  k2 = k2
  Drivers = {d1, d2}
  Indexes <- MCIndexes
  Definitions <- MCDefinitions
  MaxDeploys = 0
  MaxReruns = 0
  MaxFaults = 1
  Keys <- MCKeys
  Items <- MCItems
  Tables <- MCTables
  PageSize = 2
  SkConditions <- MCSkConditions
  FilterConditions <- MCFilterConditions
  Selections <- MCSelections
  Limits <- MCLimits
  KeyFields <- MCKeyFields
  PatternFields <- MCPatternFields
  MaxCalls = 4
  MaxWrites = 1
  Ids = {1}
  Instances = {i1, i2}
  MethodCalls = {k1, k2}
  Columns <- MCColumns
  Values = {0, 1}
  NewItems <- MCNewItems
  MaxWork = 3
  MaxMisses = 1
SPECIFICATION Spec
SYMMETRY Symmetric
CHECK_DEADLOCK FALSE
INVARIANTS SelectionsKeepTheItems
