\* The acyclic graphs of three nodes; expected to find a node that is never sent.
SPECIFICATION Spec
CONSTANTS
  Nodes = {a, b, c}
CHECK_DEADLOCK FALSE
INVARIANTS
  EachNodeSubmitted
