\* Append-only writer, padded last block staged alone, but a second file
\* may be created while the first is still being written.
CONSTANTS
    f1 = f1
    f2 = f2
    t1 = t1
    t2 = t2
    d1 = d1
    r1 = r1
    NoThread = NoThread
    Zero = Zero
    Names <- MCNames
    Threads <- MCThreads
    BlockSize <- MCBlockSize
    MaxBlocks <- MCMaxBlocks
    MaxCreates <- MCMaxCreates
    StagePolicy = "parallel_full"
    RandomWrites = FALSE
    ConcurrentFiles = TRUE
    WriteFaults = FALSE
    Recreate = FALSE
    Dirs = {}
    Key <- MCKey
    Readers = {}

SPECIFICATION Spec

INVARIANT StagedDataLandsInItsFile
