SPECIFICATION Spec
CONSTANTS
    Nodes = {n1, n2}
    Sizes = {1, 3, 4}
    LossSize = 2
    MaxEventBytes = 3
    MaxFileBytes = 8
    MaxEvents = 3
    MaxFacts = 4
    MaxFaults = 2
SYMMETRY Symmetry
INVARIANTS LossNoticed
