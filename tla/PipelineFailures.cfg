CONSTANTS
  Inputs = {i1}
  NEvents = 3
  Copies = {c1, c2}
  Tasks = {switch, leftBranch, rightBranch}
  Root = switch
  Branches <- MCBranches
  Verdict <- MCVerdictFailing
  ChainLength <- MCOneFilter
  Groups = {leftGroup, rightGroup}
  GroupOf <- MCGroupOf
  Outputs = {o1, o2, o3}
  OutputsOf <- MCOutputsOf
  InCapacity = 2
  Capacity = 1
  MayFail = TRUE
  NoEvent = NoEvent
  switch = switch
  leftBranch = leftBranch
  rightBranch = rightBranch
  leftGroup = leftGroup
  rightGroup = rightGroup
  o1 = o1
  o2 = o2
  o3 = o3
SPECIFICATION Spec
INVARIANTS SameCopyInOrder OutputsAgree
PROPERTIES Terminates FailsSafely
CHECK_DEADLOCK FALSE
