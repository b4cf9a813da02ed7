SPECIFICATION Spec
CONSTANTS
  Programs <- AllPrograms
  Cifs <- Signatures
  Closures = {"k1"}
  MaxSlots = 3
  MaxDepth = 2
  StackTop = 288
INVARIANTS LayersNest NothingIsLeft SlotsAreServed TargetsGetArguments CallsComeBack
CHECK_DEADLOCK FALSE
