CONSTANTS
  Procs = {p1, p2}
  Versions = {1, 2}
  Bundles <- MCBundles
  Manifest <- MCManifest
  Paths = {"manifest", "program", "asset"}
  Credentials = {"key"}
  Mounts = {"data"}
  None = None
SPECIFICATION Spec
SYMMETRY Symmetry
INVARIANTS NothingUnapproved ImportedIsProvisioned RunsOnOnePut RunsWithItsMounts
