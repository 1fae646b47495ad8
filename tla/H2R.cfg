SPECIFICATION Spec
CONSTANTS
  Conns = {c1, c2}
  Names = {a, b}
  Callers = {l1}
PROPERTY Listed
CHECK_DEADLOCK FALSE
