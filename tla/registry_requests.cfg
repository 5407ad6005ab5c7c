CONSTANTS
    r1 = r1
    r2 = r2
    r3 = r3
    Requests = {r1, r2, r3}
    Defs <- MCDefs
    Key <- MCKey
    Length <- MCLength
    Faults = {"open", "write"}
SPECIFICATION Spec
SYMMETRY Symmetry
INVARIANTS
    TypeOK
    LossHasACause
    ConceptAnswersAgree
