CONSTANTS
    Category = {c1, c2}
    Metric = {m1, m2}
    Log = {l1, l2}
    Setting = {s1, s2}
    Alpha = Alpha
    Beta = Beta
    Word = {Alpha, Beta}
    Name <- MCName
    Moment = {t1, t2}
    Body <- MCBody
    Patch <- MCPatch
    Request = {r1, r2}
    MaxCalls = 4
    Foreign = Foreign
    None = None
SYMMETRY Symmetry
SPECIFICATION Spec
CHECK_DEADLOCK FALSE
CONSTRAINT Related Featured
VIEW View
INVARIANTS NoDuplicates MetricHasSettings SettingsWhole
PROPERTIES LosesNoUpdate AnswersDocumented
