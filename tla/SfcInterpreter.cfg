SPECIFICATION FairSpec
CONSTANTS
  start = start  left = left  right = right  halt = halt
  pulse = pulse  falling = falling  limited = limited
  delayed = delayed  storedDelayed = storedDelayed  stored = stored
  Engine = "interpreter"
  Cycle = 1
  Horizon = 3
  Step <- MCStep
  InitialSteps <- MCInitial
  Action <- MCAction
  Association <- MCAssociation
  Transition <- MCTransition
  Returning <- AllReturn
INVARIANT BranchKeepsOneToken
PROPERTIES FiresAsANet QualifiersAreHonoured DelayedActionsRun
