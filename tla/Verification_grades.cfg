SPECIFICATION Spec
CONSTANTS
    tien = tien
    hue = hue
    Agents = {tien, hue}
    Goals = {g1}
    g1 = g1
    Readings = {1, 2, 3}
    Nobody = Nobody
    None = None
    MaxAttempts = 2
    Judges = {tien}
    MaxUpsets = 2
INVARIANTS
    NobodyGradesThemselves
CHECK_DEADLOCK FALSE
