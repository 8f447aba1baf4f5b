SPECIFICATION Spec
CONSTANTS
    i1 = i1
    i2 = i2
    g1 = g1
    g2 = g2
    Ids <- MCIds
    Savers <- MCSavers
    NoSaver = NoSaver
    MaxClicks = 1
INVARIANT
    DeletedStaysDeleted
