CONSTANTS
    None = None
    Versions = {v1, v2}
    Runs = {r1, r2, r3}
SYMMETRY Symmetry
SPECIFICATION Spec
INVARIANTS TypeOK ImageIsChecked
PROPERTIES ReleaseRecordsImage
