\* Every registry of the two shapes without circles through peers and without two optional
\* peers of one version, resolved in two batches.
SPECIFICATION Spec
CONSTANT Cases <- PlainCases
CONSTANT MaxPaths = 40
INVARIANTS
    Resolved
    PeersAgree
    CopiesApart
    Recreated
    BatchesEnd
CHECK_DEADLOCK FALSE
