\* The image transfer: chunking, retries, drops, overflow.
SPECIFICATION FairSpec
CONSTANTS
    Before <- MCBefore
    Capacity = 4
    MaxChunk = 2
    MaxRetries = 2
    CountModulus = 3
INVARIANTS
    TypeOK
    ChunksTileImages
PROPERTIES
    ReleasedRightly
    ChunkResolves
