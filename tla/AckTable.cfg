CONSTANTS
  Calls = {k1, k2, k3, k4}
  SweepMin = 1
SPECIFICATION Spec
SYMMETRY Symmetry
CHECK_DEADLOCK FALSE
INVARIANTS NoneForgotten TableBounded SweepsPaidFor
PROPERTIES AnswerNotLost
