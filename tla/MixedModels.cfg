CONSTANTS
    Dims = {2, 3}
    Threshold = 16
    Ttl = 0
    MaxMemory = 5
SPECIFICATION Spec
INVARIANT CheckedVectorsAreOwn
