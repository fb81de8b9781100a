CONSTANTS
    MaxUp = 3
    MaxDown = 2
    Room = 2
SPECIFICATION Spec
CHECK_DEADLOCK FALSE
INVARIANTS Linked Relayed
PROPERTIES EndTogether
