CONSTANTS
    d1 = d1
    d2 = d2
    now = now
    later = later
    Device = {d1, d2}
    Work = {now, later}
    Delayed = {later}
SPECIFICATION Spec
PROPERTIES
    DeletionCompletes
