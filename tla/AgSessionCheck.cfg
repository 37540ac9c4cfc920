CONSTANTS
  Literal = {l1, l2}
  Regex = {r1, r2}
  Broken = {b1}
  Null = Null
  Dangling = Dangling
SPECIFICATION Spec
INVARIANT BrokenIsReported
