\* Ordered host that may create a committed name again (O_CREATE, no
\* O_TRUNC) and write it with new content.
CONSTANTS
    f1 = f1
    f2 = f2
    t1 = t1
    t2 = t2
    d1 = d1
    r1 = r1
    NoThread = NoThread
    Zero = Zero
    Names <- MCNames
    Threads <- MCThreads
    BlockSize <- MCBlockSize
    MaxBlocks <- MCMaxBlocks
    MaxCreates <- MCMaxCreates
    StagePolicy = "parallel_full"
    RandomWrites = FALSE
    ConcurrentFiles = FALSE
    WriteFaults = FALSE
    Recreate = TRUE
    Dirs = {}
    Key <- MCKey
    Readers = {}

SPECIFICATION Spec

INVARIANT CommittedFileReadsBack
