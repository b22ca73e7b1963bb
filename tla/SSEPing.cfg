CONSTANTS
    ChunkOf <- MCChunkOf
    Inputs <- CRLFInputs
    MaxLineBytes = 4
    MaxEventBytes = 8
    MaxPings = 1
SPECIFICATION Spec
INVARIANT PingsAtBoundaries
