SPECIFICATION Spec
CONSTANTS
  Procs = {p1}
  Names = {a, b}
  Inodes = {i1, i2, i3}
  Handles = {h1, h2}
  None = None
  Cap = 3
  SizeLimit = 2
  Allowed = {"unlink_open"}
INVARIANTS CapIsEnforced
SYMMETRY Symmetry
