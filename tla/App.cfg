SPECIFICATION AppSpec
CONSTANTS
  n1 = n1
  n2 = n2
  a1 = a1
  a2 = a2
INVARIANTS ExecutedInOrder ReplicasAgree NodesPresent   
CHECK_DEADLOCK FALSE
