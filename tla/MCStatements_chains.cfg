SPECIFICATION Spec
CONSTANTS
  Dialects <- MCDialects
  SoftModes <- MCSoftModes
  Relations <- MCRelations
  Root = "users"
  MaxDepth = 3
  MaxCalls = 3
INVARIANTS
  BindingsMeetTheirValues
  FilterIsTheOneAsked
  ClausesAreInOrder
  MemoIsFresh
