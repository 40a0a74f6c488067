CONSTANTS
    Readers = {r1, r2}
    Half = 16
    Window = 14
SPECIFICATION Spec
INVARIANTS OrderIsAge
