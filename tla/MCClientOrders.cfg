SPECIFICATION Spec
CONSTANTS
    Workers = {u1, u2}
    Cities = {almaty, astana}
    NoCity = NoCity
    Unnamed = Unnamed
    NoPlace = NoPlace
    NoSession = NoSession
    MaxWork = 3
    MaxTroubles = 1
SYMMETRY MCSymmetry
CHECK_DEADLOCK FALSE
INVARIANTS WizardsFit OneOrderPerDraft CitiesFit
