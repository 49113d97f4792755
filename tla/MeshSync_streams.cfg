SPECIFICATION FairSpec
CONSTANTS
    Nodes = {1, 2}
    Keys = {k1}
    Owner <- OfClient
    Capacity = 2
    MaxEntries = 1
    MaxVersion = 2
    MaxRemoved = 1
    MaxBreaks = 1
    None = None
INVARIANTS
    WatermarkCovered
    ScannedMeansOffered
PROPERTY
    UpdatesArrive
