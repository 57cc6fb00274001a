SPECIFICATION BufferSpec
CONSTANTS
    Handles = {h1, h2}
    NoBlock = NoBlock
    Blocks = {b1, b2}
    Chunk = 2
    MaxSize = 3
    MaxRefs = 3
\* Every block may be in use, and every size at its bound.
CHECK_DEADLOCK FALSE
INVARIANTS
    SelfFreeing
