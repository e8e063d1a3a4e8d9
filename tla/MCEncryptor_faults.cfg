\* The ordered host with I/O errors on any WriteAt: the error paths still
\* release the mutex and never put a trailer on a record.
CONSTANTS
    f1 = f1
    f2 = f2
    t1 = t1
    t2 = t2
    d1 = d1
    r1 = r1
    NoThread = NoThread
    Zero = Zero
    Names <- MCNames
    Threads <- MCThreads
    BlockSize <- MCBlockSize
    MaxBlocks <- MCMaxBlocks
    MaxCreates <- MCMaxCreates
    StagePolicy = "parallel_full"
    RandomWrites = FALSE
    ConcurrentFiles = FALSE
    WriteFaults = TRUE
    Recreate = FALSE
    Dirs = {}
    Key <- MCKey
    Readers = {}

SPECIFICATION Spec

PROPERTY TrailerNeverClobbersRecord
PROPERTY CallsReturn
