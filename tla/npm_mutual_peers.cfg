SPECIFICATION Spec
CONSTANT Cases <- MutualPeers
CONSTANT MaxPaths = 40
INVARIANT Recreated
CHECK_DEADLOCK FALSE
