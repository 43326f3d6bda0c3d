CONSTANTS
    Analyses = {a1, a2}
    NoAnalysis = NoAnalysis
    Kbs = {k1}
    Topics = {t1}
    Spaces = {s1}
    NoModel = NoModel
    MaxEntries = 2
    MaxChanges = 1
    MaxRestarts = 0
SPECIFICATION Spec
INVARIANTS NoneOutlivesItsEvidence
CHECK_DEADLOCK FALSE
