CONSTANTS
  Images = {i1}
  Deleters = {d1, d2}
  Pool = {p1}
  Requests = 2
  Main = main
  None = none
SPECIFICATION Spec
INVARIANTS NotForgotten LeftoverIsLate
PROPERTIES ThreadsEnd
