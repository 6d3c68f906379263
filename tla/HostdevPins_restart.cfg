SPECIFICATION Spec
CONSTANTS
    VM = {"vm1"}
    Client = {c1, c2}
    Spelling = {"ab", "AB"}
    Canon <- CanonTwoSpellings
    Events = {"power", "pause", "save", "crash"}
SYMMETRY ClientSymmetry
INVARIANTS
    TypeOK
    AckedPinSurvives
    SavedUnlessFailed
