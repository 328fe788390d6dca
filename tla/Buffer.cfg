CONSTANTS
  Byte = {a, nl, nul}
  Newline = nl
  Nul = nul
  DefaultSize = 3
  MaxLength = 2
  MaxCapacity = 7
SPECIFICATION Spec
INVARIANTS NeverAborts BoundedByPeak
PROPERTIES IsByteQueue LineComesWhole
