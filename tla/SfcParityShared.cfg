SPECIFICATION Spec
CONSTANTS
  start = start  left = left  right = right  stop = stop
  act = act  other = other  third = third
  Cycle = 1
  Horizon = 3
  Step <- MCStep
  InitialSteps <- MCInitial
  Action <- MCAction
  Association <- SharedAssociation
  Transition <- MCTransition
  Returning <- NoReturn
INVARIANTS EnginesAgree
