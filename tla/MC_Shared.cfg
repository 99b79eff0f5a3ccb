CONSTANTS
    t1 = t1
    t2 = t2
    t3 = t3
    t4 = t4
    s1 = s1
    s2 = s2
    attrA = attrA
    attrB = attrB
    Task = {t1, t2, t3}
    TaskSeq = {s1, s2}
    Attr = {attrA}
    DeviceAttr = {attrA}
    NoAttr = NoAttr
    NoTask = NoTask
    Info <- SharedInfo
    SeqName <- DistinctNames
    MaxTasksInQueue = 3
    Reports = {"RUNNING", "COMPLETED", "FAILED"}
    MaxTime = 4
SPECIFICATION Spec
INVARIANTS
    DependenciesComplete
