\* Append-only writer: full blocks may be staged in parallel, the padded
\* last block is staged alone; one file is written at a time.
CONSTANTS
    f1 = f1
    f2 = f2
    t1 = t1
    t2 = t2
    d1 = d1
    r1 = r1
    NoThread = NoThread
    Zero = Zero
    Names <- MCNames
    Threads <- MCThreads
    BlockSize <- MCBlockSize
    MaxBlocks <- MCMaxBlocks
    MaxCreates <- MCMaxCreates
    StagePolicy = "parallel_full"
    RandomWrites = FALSE
    ConcurrentFiles = FALSE
    WriteFaults = FALSE
    Recreate = FALSE
    Dirs <- MCDirs
    Key <- MCKey
    Readers <- MCReaders

SPECIFICATION Spec

INVARIANT TypeOK
INVARIANT CommittedFileReadsBack
INVARIANT ListingReportsLogicalSize
INVARIANT ToolDecryptsCommittedRecords
PROPERTY ImplementsLogicalFile
