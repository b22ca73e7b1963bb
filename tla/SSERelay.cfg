CONSTANTS
    ChunkOf <- MCChunkOf
    Inputs <- MCInputs
    MaxLineBytes = 4
    MaxEventBytes = 8
    MaxPings = 1
SPECIFICATION Spec
INVARIANTS
    FramingIsByteFunction
    PingsInvisible
    MessagesWellFormed
