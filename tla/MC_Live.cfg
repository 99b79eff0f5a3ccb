CONSTANTS
    t1 = t1
    t2 = t2
    t3 = t3
    t4 = t4
    s1 = s1
    s2 = s2
    attrA = attrA
    attrB = attrB
    Task = {t1, t2, t3}
    TaskSeq = {s1, s2}
    Attr = {}
    DeviceAttr = {}
    NoAttr = NoAttr
    NoTask = NoTask
    Info <- SynchronousInfo
    SeqName <- DistinctNames
    MaxTasksInQueue = 3
    Reports = {"COMPLETED"}
    MaxTime = 4
SPECIFICATION Spec
PROPERTIES
    QueueDrains
    ThreadStops
