\* A ring of three entries that overflows and is emptied at every instruction.
SPECIFICATION Spec
CONSTANTS
    RingSize = 3
    StageMod = 4
    MaxInputs = 7
    MaxSnaps = 4
INVARIANTS
    NotTorn
    RingIsExact
