\* Every walk, of every filter, over every order in which six rows commit.
CONSTANTS
  Rows = {1, 2, 3, 4, 5, 6}
  OccurredAt <- OccurredAtValue
  Action <- ActionValue
  Filters = {"", "review"}
  Limit = 2
  Micro = 10
  Second = 100
SPECIFICATION Spec
INVARIANTS TypeOK WalkDescends NothingMissed NoEmptyPage
CHECK_DEADLOCK FALSE
