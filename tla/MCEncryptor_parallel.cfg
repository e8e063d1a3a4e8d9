\* Append-only writer whose padded last block may be staged while a full
\* block is still in flight; one file is written at a time.
CONSTANTS
    f1 = f1
    f2 = f2
    t1 = t1
    t2 = t2
    d1 = d1
    r1 = r1
    NoThread = NoThread
    Zero = Zero
    Names <- MCNames
    Threads <- MCThreads
    BlockSize <- MCBlockSize
    MaxBlocks <- MCMaxBlocks
    MaxCreates <- MCMaxCreates
    StagePolicy = "parallel"
    RandomWrites = FALSE
    ConcurrentFiles = FALSE
    WriteFaults = FALSE
    Recreate = FALSE
    Dirs = {}
    Key <- MCKey
    Readers = {}

SPECIFICATION Spec

INVARIANT CommittedFileReadsBack
