\* The ordered host of MCEncryptor_ordered.cfg, where any WriteAt may fail
\* with an I/O error; a failed file is abandoned and the next one written.
CONSTANTS
    f1 = f1
    f2 = f2
    t1 = t1
    t2 = t2
    d1 = d1
    r1 = r1
    NoThread = NoThread
    Zero = Zero
    Names <- MCNames
    Threads <- MCThreads
    BlockSize <- MCBlockSize
    MaxBlocks <- MCMaxBlocks
    MaxCreates <- MCMaxCreates
    StagePolicy = "parallel_full"
    RandomWrites = FALSE
    ConcurrentFiles = FALSE
    WriteFaults = TRUE
    Recreate = FALSE
    Dirs = {}
    Key <- MCKey
    Readers = {}

SPECIFICATION Spec

INVARIANT CommittedFileReadsBack
