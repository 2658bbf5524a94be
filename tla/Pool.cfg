SPECIFICATION Spec
CONSTANTS
    Threads = {t1, t2}
    Nobody = Nobody
    Lost = Lost
    Keys = {k1, k2}
    NoKey = NoKey
    Kinds = {"named", "vm"}
    INT_MAX = 2
    MAX_POOL_SIZE = 2
    Addresses = {1, 2, 3}
    MaxQueue = 3
    MaxMoves = 1
SYMMETRY Symmetry
CHECK_DEADLOCK FALSE
INVARIANTS CacheIsFresh IndexIsSound WaitsForHolder OidsAreCovered
