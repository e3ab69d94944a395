SPECIFICATION Spec
CONSTANTS
    d1 = d1
    d2 = d2
    d3 = d3
    Device = {d1, d2, d3}
    Groups = 4
    Slot = 2
    group <- Groups3
INVARIANT TypeOK
INVARIANT DueInOwnSlot
