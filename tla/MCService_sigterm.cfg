CONSTANTS
  Images = {i1, i2}
  Deleters = {d1}
  Pool = {p1}
  Requests = 1
  Main = main
  None = none
SPECIFICATION Spec
PROPERTIES SigtermAborts
