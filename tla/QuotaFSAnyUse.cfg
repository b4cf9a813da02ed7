SPECIFICATION Spec
CONSTANTS
  Procs = {p1, p2}
  Names = {a, b}
  Inodes = {i1, i2, i3}
  Handles = {h1, h2}
  None = None
  Cap = 1
  SizeLimit = 1
  Allowed = {"share_file", "short_write", "empty_write", "symlink",
             "rmdir_file", "unlink_open"}
INVARIANTS TypeOK UsedWithinCap
SYMMETRY Symmetry
