\* A negative fraction literal; the doc comment's definition gives the
\* first value for a negative fraction.
CONSTANTS
  Vals = {1, 2}
  Fractions <- MCFractionsOutOfRange
  MaxChunk = 2
  MaxInput = 2
  NONE = NONE
  PANIC = PANIC
  NOVALUE = NOVALUE
SPECIFICATION Spec
INVARIANT OutputIsPercentileDisc
