CONSTANTS
    Inputs <- Batches
    MAX_CHUNK_SIZE = 5
    BaseOverhead = 1
    MAX_SPLIT_DEPTH = 2
    MAX_RETRIES = 3
    BudgetRetries = 20
    LogRetries = 2
    HttpTimeout = 24
SPECIFICATION Spec
INVARIANTS
    TypeOK
    ChunksCover
    OnlyHopelessLost
    SentTwiceOnlyIfHalved
    AttemptsBounded
    OneHang
