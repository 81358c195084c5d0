\* Fractions in [0, 1], up to four rows fed between resets.
CONSTANTS
  Vals = {1, 2}
  Fractions <- MCFractions
  MaxChunk = 2
  MaxInput = 4
  NONE = NONE
  PANIC = PANIC
  NOVALUE = NOVALUE
SPECIFICATION Spec
INVARIANT TypeOK
INVARIANT OutputIsPercentileDisc
