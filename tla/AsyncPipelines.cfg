SPECIFICATION FairSpec
CONSTANTS
  Tasks <- MCTasks
  Workers = {w1, w2}
  Dependencies <- MCDependencies
  Null = Null
  Programs <- MCPrograms
  MaxBlocks = 5
  shader = shader
  layout = layout
  p1 = p1
  p2 = p2
  p3 = p3
CHECK_DEADLOCK FALSE
INVARIANTS
  TypeOK
  NothingInUseIsDestroyed
  NamesAreSet
PROPERTIES
  CallsReturn
  TasksEnd
