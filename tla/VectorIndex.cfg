CONSTANTS
    Dims = {2}
    Threshold = 20
    Ttl = 1
    MaxMemory = 7
SPECIFICATION Spec
INVARIANTS WasteBounded
PROPERTY IsVectorMap
