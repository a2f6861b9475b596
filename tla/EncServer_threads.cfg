SPECIFICATION Spec
CONSTANTS
    Clients = {c1, c2, c3}
    NoClient = none
    Fds = {4, 5}
    Slots = 1
    MaxMessages = 2
    Environments <- All
SYMMETRY Symmetry
INVARIANTS SlotsCoverServing OwnConnection NoSlotLost OwnAnswer
CHECK_DEADLOCK FALSE
