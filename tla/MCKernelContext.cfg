\* A device interrupt runs the last turn of a copy.
SPECIFICATION Spec
CONSTANTS
    PREPARATION_MS = 1
    CUTOVER_MS = 1
    MaxTime = 2
    SequenceNumbers = {0}
    FRAMES = 8
    WORD_BITS = 4
    MAX_PROCESSES = 2
    MAX_VMOS = 2
    MAX_HANDLES = 3
    IMAGE = {0}
    BOOTFS_PAGES = 2
    VMO_PAGES = 2
    BULK = 4
    CATCH_UP = 4
    RECLAIM = 1
    ADOPTED_PROCESSES = 2
    Machines <- Computing
INVARIANT ResumesContext
