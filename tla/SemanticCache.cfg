CONSTANTS
    Analyses = {a1, a2, a3}
    NoAnalysis = NoAnalysis
    Kbs = {k1, k2}
    Topics = {t1, t2}
    Spaces = {s1, s2}
    NoModel = NoModel
    MaxEntries = 2
    MaxChanges = 1
    MaxRestarts = 1
SPECIFICATION Spec
INVARIANTS AnswersStayInKb
PROPERTIES EquivalentUnlessFull InvalidatedIsGone
CHECK_DEADLOCK FALSE
SYMMETRY Symmetry
