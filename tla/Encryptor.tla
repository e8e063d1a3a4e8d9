----------------------------- MODULE Encryptor -----------------------------
(***************************************************************************)
(* The blobfuse encryptor component (encryptor.go, utils.go) driven by     *)
(* concurrent blobfuse worker threads.                                     *)
(*                                                                         *)
(* The component keeps ONE writer handle (e.handle) and ONE tracker        *)
(* (e.lastChunkMeta) for the whole mount.  StageData writes a record       *)
(* first and updates the tracker under the mutex afterwards; CommitData    *)
(* writes the trailer under the mutex and closes the handle it captured    *)
(* in its defer.  GetAttr and ReadInBuffer change no state and are         *)
(* operators over the disk, used by the properties as a reader would.      *)
(*                                                                         *)
(* Data is abstracted: the byte at logical position k of file f is the    *)
(* token <<f, block, position in block>>, a padding byte is the model     *)
(* value Zero.  Records are sealed and opened by AeadCodec with the       *)
(* mount's key; every nonce rand.Read draws has one identity (uniqueness  *)
(* of random nonces is probabilistic, not a property of the code).        *)
(***************************************************************************)
EXTENDS Integers, Sequences, FiniteSets, BlockLayout, AeadCodec

CONSTANTS
    Names,           \* logical file names the host writes
    Threads,         \* blobfuse worker goroutines calling the component
    NoThread,        \* model value: the mutex is free
    Zero,            \* model value: a zero padding byte
    MaxBlocks,       \* bound: blocks per file
    MaxCreates,      \* bound: CreateFile calls (os.File objects opened)
    StagePolicy,     \* host: "serial" | "parallel_full" | "parallel"
    RandomWrites,    \* host: may rewrite an earlier, full block
    ConcurrentFiles, \* host: may open a file while another is being written
    WriteFaults,     \* a WriteAt may fail with an I/O error (nothing written)
    Recreate,        \* host: may create a name again after committing it
    Dirs,            \* directory names the host may create (CreateDir)
    Readers,         \* goroutines listing the mount (StreamDir, GetAttr)
    Key              \* e.encryptionKey, as Configure decoded it

ASSUME MaxBlocks \in Nat \ {0} /\ MaxCreates \in Nat
ASSUME StagePolicy \in {"serial", "parallel_full", "parallel"}
ASSUME RandomWrites \in BOOLEAN /\ ConcurrentFiles \in BOOLEAN /\ WriteFaults \in BOOLEAN
ASSUME Recreate \in BOOLEAN /\ Dirs \cap Names = {}
ASSUME Key.len \in Nat

VARIABLES
    disk,      \* disk[f]: the ciphertext file under e.mountPointCipher
    fds,       \* the os.File objects CreateFile opened, in order
    handle,    \* e.handle: index into fds, 0 when nil
    meta,      \* e.lastChunkMeta: farthestBlockSeen, paddingLength
    lockOwner, \* holder of the lastChunkMeta mutex
    pc,        \* pc[t]: the call thread t is in and where
    session,   \* host: state of the write session of each name
    intent,    \* host: length of every block staged successfully, per name
    dirs,      \* directories created under e.mountPointCipher
    rd         \* rd[r]: the StreamDir call reader r is in and where

writerVars == <<disk, fds, handle, meta, lockOwner, pc, session, intent>>
readerVars == <<dirs, rd>>
vars == <<disk, fds, handle, meta, lockOwner, pc, session, intent, dirs, rd>>

Slots == 0..MaxBlocks
Hole == [kind |-> "hole"]
\* The nonce rand.Read fills in EncryptChunk.
FreshNonce == [id |-> "rand", len |-> GcmNonceSize]

\* The bytes StageData writes: append(nonce, encryptedChunk...).
Record(e) == [kind |-> "rec", nonce |-> e.nonce, ct |-> e.ct]
Rec(pt) == Record(EncryptChunk(pt, Key, FreshNonce, TRUE))

\* rand.Read fails only under the I/O fault model.
RandOutcomes == IF WriteFaults THEN BOOLEAN ELSE {TRUE}

\* ReadInBuffer's split of the B + 28 bytes read at a record offset:
\* encryptedChunk[:NonceSize] and encryptedChunk[NonceSize:].
NoncePart(s) == IF s.kind = "rec" THEN s.nonce ELSE [id |-> "bytes", len |-> NonceSize]
CipherPart(s) == IF s.kind = "rec" THEN s.ct ELSE Junk(RecordSize - NonceSize)
Trl(p) == [kind |-> "trl", pad |-> p]
NoFile == [exists |-> FALSE, psize |-> 0, slot |-> [i \in Slots |-> Hole]]
Idle == [op |-> "idle"]

MaxOf(a, b) == IF a >= b THEN a ELSE b
MinOf(a, b) == IF a =< b THEN a ELSE b

\* The padded plaintext StageData encrypts for n bytes of block i of f.
Plaintext(f, i, n) ==
    [k \in 1..BlockSize |-> IF k =< n THEN <<f, i, k>> ELSE Zero]

\* The handle is usable: not nil and not closed by a CommitData.
Usable(h) == h # 0 /\ fds[h].open

\* A WriteAt through e.handle fails: the handle is nil or closed (os.File
\* returns ErrInvalid or ErrClosed), or the filesystem reports an error.
WriteFails == ~Usable(handle) \/ WriteFaults

\* One positioned write of slot value v, ending at byte end, into file g.
WriteSlot(g, idx, v, end) ==
    disk' = [disk EXCEPT ![g].slot[idx] = v,
                         ![g].psize = MaxOf(@, end)]

-----------------------------------------------------------------------------
(* Host (blobfuse) discipline: which calls it issues and when.            *)

Staging(f) == {t \in Threads : pc[t].op = "stage" /\ pc[t].file = f}
Committing(f) == {t \in Threads : pc[t].op = "commit" /\ pc[t].file = f}
InFlight == {t \in Threads : pc[t].op = "stage"}

HostMayCreate(f) ==
    /\ \/ session[f] = "none"
       \/ Recreate /\ session[f] \in {"committed", "failed"}
    /\ ConcurrentFiles \/ \A g \in Names : session[g] # "open"

\* Blocks are staged in file order; the last block may be rewritten as it
\* grows; with RandomWrites an earlier (full) block may be rewritten.
HostMayStage(f, i, n) ==
    LET k == Len(intent[f]) IN
    /\ session[f] = "open" /\ Committing(f) = {}
    /\ \/ i = k /\ k < MaxBlocks /\ (k > 0 => intent[f][k] = BlockSize)
       \/ i = k - 1 /\ n >= intent[f][k]
       \/ RandomWrites /\ i < k - 1 /\ n = BlockSize
    /\ \/ InFlight = {}
       \/ StagePolicy = "parallel"
       \/ /\ StagePolicy = "parallel_full" /\ n = BlockSize
          /\ \A t \in InFlight : pc[t].pad = 0

HostMayCommit(f) == session[f] = "open" /\ Staging(f) = {} /\ Committing(f) = {}

-----------------------------------------------------------------------------
(* Component actions.                                                      *)

Init ==
    /\ disk = [f \in Names |-> NoFile]
    /\ fds = <<>>
    /\ handle = 0
    /\ meta = [farthestBlockSeen |-> -1, paddingLength |-> 0]
    /\ lockOwner = NoThread
    /\ pc = [t \in Threads |-> Idle]
    /\ session = [f \in Names |-> "none"]
    /\ intent = [f \in Names |-> <<>>]
    /\ dirs = {}
    /\ rd = [r \in Readers |-> Idle]

\* CreateFile: os.OpenFile(O_RDWR|O_CREATE) (no truncation) and install the
\* new os.File as e.handle, unsynchronised.
CreateFile(t, f) ==
    /\ pc[t] = Idle /\ HostMayCreate(f) /\ Len(fds) < MaxCreates
    /\ disk' = [disk EXCEPT ![f].exists = TRUE]
    /\ fds' = Append(fds, [file |-> f, open |-> TRUE])
    /\ handle' = Len(fds) + 1
    /\ session' = [session EXCEPT ![f] = "open"]
    /\ intent' = [intent EXCEPT ![f] = <<>>]
    /\ UNCHANGED <<meta, lockOwner, pc, dirs, rd>>

\* Mutant of StageData: a provisional trailer after every staged block.
StageDataEagerTrailer(t, f, off, n) ==
    LET i == BlockIndex(off)  g == fds[handle].file IN
    /\ pc[t] = Idle /\ HostMayStage(f, i, n)
    /\ \/ /\ Usable(handle)
          /\ disk' = [disk EXCEPT ![g].slot[i] = Rec(Plaintext(f, i, n)),
                                  ![g].slot[i + 1] = Trl(PaddingLength(n)),
                                  ![g].psize = MaxOf(@, TrailerOffset(i) + TrailerSize)]
          /\ pc' = [pc EXCEPT ![t] = [op |-> "stage", file |-> f,
                                      blk |-> i, pad |-> PaddingLength(n)]]
          /\ intent' = [intent EXCEPT ![f] =
                          IF i = Len(@) THEN Append(@, n)
                          ELSE [@ EXCEPT ![i + 1] = n]]
       \/ WriteFails /\ UNCHANGED <<disk, pc, intent>>
    /\ UNCHANGED <<fds, handle, meta, lockOwner, session, dirs, rd>>

\* StageData, up to the write: pad, EncryptChunk, WriteAt(e.handle) of
\* nonce || ciphertext.  When the encryption (lines 215-219) or the write
\* (lines 225-228) fails, the call returns its error before the tracker.
StageData(t, f, off, n) ==
    LET i == BlockIndex(off) IN
    /\ pc[t] = Idle /\ HostMayStage(f, i, n)
    /\ \E ok \in RandOutcomes :
       LET e == EncryptChunk(Plaintext(f, i, n), Key, FreshNonce, ok) IN
       \/ e.err # "nil" /\ UNCHANGED <<disk, pc, intent>>
       \/ /\ e.err = "nil" /\ Usable(handle)
          /\ WriteSlot(fds[handle].file, i, Record(e), ChunkOffset(i) + RecordSize)
          /\ pc' = [pc EXCEPT ![t] = [op |-> "stage", file |-> f,
                                      blk |-> i, pad |-> PaddingLength(n)]]
          /\ intent' = [intent EXCEPT ![f] =
                          IF i = Len(@) THEN Append(@, n)
                          ELSE [@ EXCEPT ![i + 1] = n]]
       \/ e.err = "nil" /\ WriteFails /\ UNCHANGED <<disk, pc, intent>>
    /\ UNCHANGED <<fds, handle, meta, lockOwner, session, dirs, rd>>

\* Mutants of StageTrack: the tracker takes the staged block index without
\* the "farthest so far" comparison; farthestBlockSeen off by one.
StageTrackNoMax(t) ==
    LET fr == pc[t] IN
    /\ fr.op = "stage" /\ lockOwner = NoThread
    /\ meta' = [farthestBlockSeen |-> fr.blk, paddingLength |-> fr.pad]
    /\ pc' = [pc EXCEPT ![t] = Idle]
    /\ UNCHANGED <<disk, fds, handle, lockOwner, session, intent, dirs, rd>>

StageTrackOffByOne(t) ==
    LET fr == pc[t] IN
    /\ fr.op = "stage" /\ lockOwner = NoThread
    /\ meta' = [farthestBlockSeen |-> MaxOf(fr.blk + 1, meta.farthestBlockSeen),
                paddingLength |-> fr.pad]
    /\ pc' = [pc EXCEPT ![t] = Idle]
    /\ UNCHANGED <<disk, fds, handle, lockOwner, session, intent, dirs, rd>>

\* StageData, after the write: Lock, raise farthestBlockSeen, set
\* paddingLength (unconditionally, line 236), Unlock.
StageTrack(t) ==
    LET fr == pc[t] IN
    /\ fr.op = "stage" /\ lockOwner = NoThread
    /\ meta' = [farthestBlockSeen |-> MaxOf(fr.blk, meta.farthestBlockSeen),
                paddingLength |-> fr.pad]
    /\ pc' = [pc EXCEPT ![t] = Idle]
    /\ UNCHANGED <<disk, fds, handle, lockOwner, session, intent, dirs, rd>>

\* CommitData: `defer e.handle.Close()` captures the current handle.
CommitBegin(t, f) ==
    /\ pc[t] = Idle /\ HostMayCommit(f)
    /\ pc' = [pc EXCEPT ![t] = [op |-> "commit", file |-> f, h |-> handle,
                                step |-> "lock", ok |-> TRUE]]
    /\ UNCHANGED <<disk, fds, handle, meta, lockOwner, session, intent, dirs, rd>>

CommitLock(t) ==
    /\ pc[t].op = "commit" /\ pc[t].step = "lock" /\ lockOwner = NoThread
    /\ lockOwner' = t
    /\ pc' = [pc EXCEPT ![t].step = "write"]
    /\ UNCHANGED <<disk, fds, handle, meta, session, intent, dirs, rd>>

\* CommitData's WriteAt of the 8-byte padding trailer after block
\* farthestBlockSeen, through e.handle (read again here, not the handle
\* captured by the defer).
WriteTrailer ==
    WriteSlot(fds[handle].file, meta.farthestBlockSeen + 1,
              Trl(meta.paddingLength),
              TrailerOffset(meta.farthestBlockSeen) + TrailerSize)

Reset == [farthestBlockSeen |-> -1, paddingLength |-> 0]

\* Mutants of CommitWrite: the tracker is not reset after the trailer is
\* written; the mutex is not released on the no-writes path, or on the
\* error path.
CommitWriteNoReset(t) ==
    /\ pc[t].op = "commit" /\ pc[t].step = "write"
    /\ \/ meta.farthestBlockSeen = -1 /\ UNCHANGED <<disk, meta>>
          /\ pc' = [pc EXCEPT ![t].step = "close"]
       \/ meta.farthestBlockSeen # -1 /\ Usable(handle) /\ WriteTrailer
          /\ UNCHANGED meta /\ pc' = [pc EXCEPT ![t].step = "close"]
       \/ meta.farthestBlockSeen # -1 /\ WriteFails /\ UNCHANGED <<disk, meta>>
          /\ pc' = [pc EXCEPT ![t].step = "close", ![t].ok = FALSE]
    /\ lockOwner' = NoThread
    /\ UNCHANGED <<fds, handle, session, intent, dirs, rd>>

CommitWriteKeepsLockOnError(t) ==
    /\ pc[t].op = "commit" /\ pc[t].step = "write"
    /\ \/ meta.farthestBlockSeen = -1 /\ UNCHANGED <<disk, meta>>
          /\ pc' = [pc EXCEPT ![t].step = "close"] /\ lockOwner' = NoThread
       \/ meta.farthestBlockSeen # -1 /\ Usable(handle) /\ WriteTrailer
          /\ meta' = Reset /\ pc' = [pc EXCEPT ![t].step = "close"]
          /\ lockOwner' = NoThread
       \/ meta.farthestBlockSeen # -1 /\ WriteFails /\ UNCHANGED <<disk, meta>>
          /\ pc' = [pc EXCEPT ![t].step = "close", ![t].ok = FALSE]
          /\ lockOwner' = t
    /\ UNCHANGED <<fds, handle, session, intent, dirs, rd>>

\* CommitData under the mutex: with no block staged since the last reset,
\* nothing is written; otherwise write the trailer and reset the tracker,
\* or, when the write fails, return the error without the reset (lines
\* 129-131).  The deferred Unlock runs before the deferred Close.
CommitWrite(t) ==
    /\ pc[t].op = "commit" /\ pc[t].step = "write"
    /\ \/ meta.farthestBlockSeen = -1 /\ UNCHANGED <<disk, meta>>
          /\ pc' = [pc EXCEPT ![t].step = "close"]
       \/ meta.farthestBlockSeen # -1 /\ Usable(handle) /\ WriteTrailer
          /\ meta' = Reset /\ pc' = [pc EXCEPT ![t].step = "close"]
       \/ meta.farthestBlockSeen # -1 /\ WriteFails /\ UNCHANGED <<disk, meta>>
          /\ pc' = [pc EXCEPT ![t].step = "close", ![t].ok = FALSE]
    /\ lockOwner' = NoThread
    /\ UNCHANGED <<fds, handle, session, intent, dirs, rd>>

\* The deferred Close of the captured handle; the call returns.
CommitClose(t) ==
    LET fr == pc[t] IN
    /\ fr.op = "commit" /\ fr.step = "close"
    /\ fds' = IF fr.h = 0 THEN fds ELSE [fds EXCEPT ![fr.h].open = FALSE]
    /\ session' = [session EXCEPT ![fr.file] =
                     IF fr.ok THEN "committed" ELSE "failed"]
    /\ pc' = [pc EXCEPT ![t] = Idle]
    /\ UNCHANGED <<disk, handle, meta, lockOwner, intent, dirs, rd>>

-----------------------------------------------------------------------------
(* Directory operations and listings (encryptor.go 292-329, utils.go).     *)
(* A reader goroutine lists the root (formatListDirName("/") is "") and    *)
(* runs GetAttr on every entry, through its own read-only handles.  Stat   *)
(* and the read of the last 8 bytes are separate steps (the TODO at        *)
(* utils.go:33).  Nothing deletes a file, so the ENOENT skip never fires.  *)

\* CreateDir: os.Mkdir; on an existing name it returns EEXIST and changes
\* nothing.
CreateDir(t, d) ==
    /\ pc[t] = Idle /\ d \notin dirs
    /\ dirs' = dirs \cup {d}
    /\ UNCHANGED <<writerVars, rd>>

\* ReadAt(currentFileSize - 8) of f returns the padding of a trailer only
\* when a trailer starts there now; otherwise the 8 bytes belong to a
\* record or a hole and decode to an arbitrary uint64.
TrailerAt(f, p) ==
    /\ (p - TrailerSize) % RecordSize = 0
    /\ disk[f].slot[(p - TrailerSize) \div RecordSize].kind = "trl"

Attr(e, kind, size) == [name |-> e, kind |-> kind, size |-> size]

\* StreamDir: os.ReadDir of the root, then the loop over its entries.
StreamDirBegin(r) ==
    /\ rd[r] = Idle
    /\ rd' = [rd EXCEPT ![r] = [op |-> "list", step |-> "stat", p |-> 0,
                                todo |-> {f \in Names : disk[f].exists} \cup dirs,
                                cur |-> CHOOSE f \in Names : TRUE, out |-> {}]]
    /\ UNCHANGED <<writerVars, dirs>>

\* Mutant of GetAttrStat: checkForActualFileSize without its short-file
\* check, reading the last 8 bytes of every file.
GetAttrStatNoSizeCheck(r) ==
    LET fr == rd[r]  e == CHOOSE x \in fr.todo : TRUE IN
    /\ fr.op = "list" /\ fr.step = "stat" /\ fr.todo # {}
    /\ \/ e \in dirs /\ rd' = [rd EXCEPT ![r].todo = @ \ {e},
                                         ![r].out = @ \cup {Attr(e, "dir", 0)}]
       \/ e \in Names /\ disk[e].psize < TrailerSize
          /\ rd' = [rd EXCEPT ![r].todo = @ \ {e}, ![r].out = @ \cup {Attr(e, "file", 0)}]
       \/ e \in Names /\ disk[e].psize >= TrailerSize
          /\ rd' = [rd EXCEPT ![r].step = "read", ![r].cur = e, ![r].p = disk[e].psize]
    /\ UNCHANGED <<writerVars, dirs>>

\* GetAttr of the next entry (ReadDir order), up to the trailer read:
\* os.Stat; a directory is reported as is; a file too short for a trailer
\* has size 0 (utils.go 25-28); otherwise keep the stat size for the read.
GetAttrStat(r) ==
    LET fr == rd[r]  e == CHOOSE x \in fr.todo : TRUE IN
    /\ fr.op = "list" /\ fr.step = "stat" /\ fr.todo # {}
    /\ \/ e \in dirs /\ rd' = [rd EXCEPT ![r].todo = @ \ {e},
                                         ![r].out = @ \cup {Attr(e, "dir", 0)}]
       \/ e \in Names /\ ~HasTrailer(disk[e].psize)
          /\ rd' = [rd EXCEPT ![r].todo = @ \ {e}, ![r].out = @ \cup {Attr(e, "file", 0)}]
       \/ e \in Names /\ HasTrailer(disk[e].psize)
          /\ rd' = [rd EXCEPT ![r].step = "read", ![r].cur = e, ![r].p = disk[e].psize]
    /\ UNCHANGED <<writerVars, dirs>>

\* checkForActualFileSize: ReadAt of the last 8 bytes at the size stat
\* returned, decoded as the padding (utils.go 36-43).
GetAttrRead(r) ==
    LET fr == rd[r]  f == fr.cur  p == fr.p IN
    /\ fr.op = "list" /\ fr.step = "read"
    /\ rd' = [rd EXCEPT ![r].step = "stat", ![r].todo = @ \ {f},
                        ![r].out = @ \cup
                           {IF TrailerAt(f, p)
                            THEN Attr(f, "file", ActualFileSize(p,
                                   disk[f].slot[(p - TrailerSize) \div RecordSize].pad))
                            ELSE Attr(f, "garbage", 0)}]
    /\ UNCHANGED <<writerVars, dirs>>

\* StreamDir returns the attributes it collected.
StreamDirEnd(r) ==
    /\ rd[r].op = "list" /\ rd[r].step = "stat" /\ rd[r].todo = {}
    /\ rd' = [rd EXCEPT ![r] = Idle]
    /\ UNCHANGED <<writerVars, dirs>>

\* The host has written and committed every name it could open (a name
\* never opened once the CreateFile bound is used up): nothing is left.
Finished ==
    /\ \A f \in Names : \/ session[f] \in {"committed", "failed"}
                        \/ session[f] = "none" /\ Len(fds) = MaxCreates
    /\ \A t \in Threads : pc[t] = Idle
    /\ \A r \in Readers : rd[r] = Idle
    /\ UNCHANGED vars

Next ==
    \/ \E t \in Threads, f \in Names :
          \/ CreateFile(t, f)
          \/ CommitBegin(t, f)
          \/ \E i \in 0..(MaxBlocks - 1), n \in 1..BlockSize :
                StageData(t, f, i * BlockSize, n)
    \/ \E t \in Threads :
          StageTrack(t) \/ CommitLock(t) \/ CommitWrite(t) \/ CommitClose(t)
    \/ \E t \in Threads, d \in Dirs : CreateDir(t, d)
    \/ \E r \in Readers :
          StreamDirBegin(r) \/ GetAttrStat(r) \/ GetAttrRead(r) \/ StreamDirEnd(r)
    \/ Finished

\* A goroutine that has started a call keeps being scheduled; one waiting
\* on the mutex gets it eventually (sync.Mutex starvation mode).
Fairness ==
    \A t \in Threads :
        /\ SF_vars(StageTrack(t)) /\ SF_vars(CommitLock(t))
        /\ WF_vars(CommitWrite(t)) /\ WF_vars(CommitClose(t))

Spec == Init /\ [][Next]_vars /\ Fairness

-----------------------------------------------------------------------------
(* Readers.  Both open their own read-only handle and change no state.    *)

\* The 8 bytes at physical offset p - 8 are a trailer (and decode to its
\* padding) only if a trailer starts there; otherwise they are bytes of a
\* record or a hole and decode to an arbitrary number.
TrailerFound(f) == TrailerAt(f, disk[f].psize)

TrailerPad(f) ==
    disk[f].slot[(disk[f].psize - TrailerSize) \div RecordSize].pad

\* GetAttr of a regular file: os.Stat, then checkForActualFileSize.  A size
\* computed from bytes that are not a trailer is reported as "garbage".
GetAttr(f) ==
    LET p == disk[f].psize IN
    CASE ~disk[f].exists -> [err |-> "ENOENT", size |-> 0]
      [] ~HasTrailer(p) -> [err |-> "none", size |-> 0]
      [] ~TrailerFound(f) -> [err |-> "garbage", size |-> 0]
      [] OTHER -> [err |-> "none", size |-> ActualFileSize(p, TrailerPad(f))]

\* ReadInBuffer(handle of f with Size = size, Offset = off, len(Data) =
\* bufLen): one record at block off / BlockSize, decrypted, copied to the
\* start of the buffer; the result length is the clamped request.  The
\* record is split into nonce and ciphertext and opened with e.encryptionKey.
ReadInBuffer(f, size, off, bufLen) ==
    LET dataLen == IF size < off + bufLen THEN size - off ELSE bufLen
        idx == BlockIndex(off)
        s == disk[f].slot[idx]
        d == DecryptChunk(CipherPart(s), NoncePart(s), Key)
    IN  CASE off > size -> [err |-> "ERANGE", n |-> 0, data |-> <<>>]
          [] dataLen = 0 -> [err |-> "none", n |-> 0, data |-> <<>>]
          [] ~disk[f].exists -> [err |-> "ENOENT", n |-> 0, data |-> <<>>]
          [] disk[f].psize < ChunkOffset(idx) + RecordSize ->
                 [err |-> "EOF", n |-> 0, data |-> <<>>]
          [] d.err # "nil" -> [err |-> "decrypt", n |-> 0, data |-> <<>>]
          [] OTHER -> [err |-> "none", n |-> dataLen,
                       data |-> SubSeq(d.pt, 1, MinOf(bufLen, BlockSize))]

-----------------------------------------------------------------------------
(* Properties.                                                             *)

Frame ==
    {Idle}
    \cup [op : {"stage"}, file : Names, blk : 0..(MaxBlocks - 1),
          pad : 0..BlockSize]
    \cup [op : {"commit"}, file : Names, h : 0..MaxCreates,
          step : {"lock", "write", "close"}, ok : BOOLEAN]

ByteValue == (Names \X Slots \X (1..BlockSize)) \cup {Zero}

SlotValue ==
    {Hole} \cup {Rec(pt) : pt \in [1..BlockSize -> ByteValue]}
    \cup {Trl(p) : p \in 0..BlockSize}

TypeOK ==
    /\ disk \in [Names -> [exists : BOOLEAN, psize : 0..(ChunkOffset(MaxBlocks) + RecordSize),
                           slot : [Slots -> SlotValue]]]
    /\ fds \in Seq([file : Names, open : BOOLEAN]) /\ Len(fds) =< MaxCreates
    /\ handle \in 0..Len(fds)
    /\ meta \in [farthestBlockSeen : -1..(MaxBlocks - 1), paddingLength : 0..BlockSize]
    /\ lockOwner \in Threads \cup {NoThread}
    /\ pc \in [Threads -> Frame]
    /\ session \in [Names -> {"none", "open", "committed", "failed"}]
    /\ intent \in [Names -> Seq(1..BlockSize)]
    /\ dirs \subseteq Dirs
    /\ \A r \in Readers : \/ rd[r] = Idle
                          \/ /\ rd[r].op = "list" /\ rd[r].step \in {"stat", "read"}
                             /\ rd[r].todo \subseteq Names \cup Dirs /\ rd[r].cur \in Names
                             /\ rd[r].p \in 0..(ChunkOffset(MaxBlocks) + RecordSize)
                             /\ rd[r].out \subseteq [name : Names \cup Dirs,
                                                    kind : {"file", "dir", "garbage"},
                                                    size : -BlockSize..(MaxBlocks * BlockSize)]

\* The host's view of f: every block but the last is full.
IntendedSize(f) ==
    IF intent[f] = <<>> THEN 0
    ELSE (Len(intent[f]) - 1) * BlockSize + intent[f][Len(intent[f])]

LogicalBytes(f) ==
    [k \in 1..IntendedSize(f) |-> <<f, (k - 1) \div BlockSize, ((k - 1) % BlockSize) + 1>>]

\* Round trip (spec 8.1, 8.2): once CommitData of f has returned success,
\* GetAttr reports exactly the number of bytes the host staged for f, and a
\* block-by-block ReadInBuffer with that size returns exactly those bytes,
\* ERANGE past the end.  Breaks if the tracker that StageData maintains
\* under the mutex, or the trailer CommitData derives from it, is wrong.
CommittedFileReadsBack ==
    \A f \in Names : session[f] = "committed" =>
        LET a == GetAttr(f) IN
        /\ a.err = "none" /\ a.size = IntendedSize(f)
        /\ \A i \in 0..MaxBlocks :
             LET off == i * BlockSize
                 r == ReadInBuffer(f, a.size, off, BlockSize)
             IN  IF off > a.size THEN r.err = "ERANGE"
                 ELSE /\ r.err = "none"
                      /\ r.n = MinOf(BlockSize, a.size - off)
                      /\ SubSeq(r.data, 1, r.n)
                           = SubSeq(LogicalBytes(f), off + 1, off + r.n)

Listed(r) == IF rd[r] = Idle THEN {} ELSE rd[r].out

\* Listings (spec 1: the logical length is preserved "across writes,
\* reads, listings, and commits"): every file a StreamDir reports has
\* size 0 (no trailer yet) or exactly the number of bytes committed, never
\* a number decoded from record bytes.  Breaks if the size GetAttr stats
\* and the 8 bytes checkForActualFileSize reads afterwards disagree.
ListingReportsLogicalSize ==
    \A r \in Readers : \A a \in Listed(r) :
        /\ a.kind # "garbage"
        /\ a.kind = "file" => a.size \in {0, IntendedSize(a.name)}

\* The TODO at utils.go:33: a listing never decodes the bytes of a record
\* as the padding length, i.e. the last 8 bytes at the size os.Stat
\* returned are a trailer when checkForActualFileSize reads them.
ListingNeverDecodesRecordBytes ==
    \A r \in Readers : \A a \in Listed(r) : a.kind # "garbage"

\* CommitData never writes its trailer over an encrypted block: a record
\* on disk stays a record (it may be rewritten by a later StageData).  Its
\* offset comes from farthestBlockSeen, so a tracker that lags behind a
\* block already on disk destroys that block.
TrailerNeverClobbersRecord ==
    [][\A f \in Names, i \in Slots :
         disk[f].slot[i].kind = "rec" => disk'[f].slot[i].kind = "rec"]_vars

\* Every call a goroutine makes into the component returns: nobody waits
\* forever on the lastChunkMeta mutex.
CallsReturn == \A t \in Threads : pc[t] # Idle ~> pc[t] = Idle

\* Per-file sessions (spec 3, 9: the writer handle and the tracker belong
\* to the file being written): every block record in the ciphertext file
\* of g holds data the host staged for g.  StageData writes through the
\* single e.handle, whichever file the call was for.
StagedDataLandsInItsFile ==
    \A g \in Names, i \in Slots :
        disk[g].slot[i].kind = "rec" => disk[g].slot[i].ct.pt[1][1] = g

Tool == INSTANCE AesEncryptorTool

\* The tool's request for the record in slot s: the same split as
\* ReadInBuffer's, with the mount's key.
ToolRequest(s) ==
    [json |-> TRUE, cipherText |-> CipherPart(s), nonce |-> NoncePart(s), key |-> Key]

\* Offline decryption (spec 2, 8: the record is nonce || ciphertext || tag,
\* and the JSON shim exists for consumers in other languages): every block
\* record of a committed file, handed to GoDecryptChunk with the mount's
\* key, comes back without an error envelope and holds the padded
\* plaintext last staged for that block.  Breaks if the layout StageData
\* writes and the one the tool expects disagree.
ToolDecryptsCommittedRecords ==
    \A f \in Names : session[f] = "committed" =>
        \A i \in 1..Len(intent[f]) :
            LET resp == Tool!GoDecryptChunk(ToolRequest(disk[f].slot[i - 1])) IN
            /\ resp.kind = "response" /\ resp.error = Tool!NoError
            /\ resp.plainText = Plaintext(f, i - 1, intent[f][i])

\* What a reader recovers from f's ciphertext file: GetAttr's size, then
\* ReadInBuffer block by block with one-block buffers (the block-aligned
\* contract of spec 4.3).  A read error gives a value no content equals.
Unreadable == <<Zero>>

ReadBack(f) ==
    LET a == GetAttr(f)
        r(k) == ReadInBuffer(f, a.size, BlockIndex(k - 1) * BlockSize, BlockSize)
    IN  CASE a.err = "ENOENT" -> <<>>
          [] a.err = "none" /\ \A k \in 1..a.size : r(k).err = "none" ->
                 [k \in 1..a.size |-> r(k).data[((k - 1) % BlockSize) + 1]]
          [] OTHER -> Unreadable

LF == INSTANCE LogicalFile WITH
        Data <- ByteValue,
        status <- session,
        staged <- [f \in Names |-> LogicalBytes(f)],
        visible <- [f \in Names |-> ReadBack(f)]

\* Refinement: the encryptor, driven by the host, implements LogicalFile.
\* Every step of CreateFile, StageData, CommitData or a reader either
\* leaves what a reader recovers from disk unchanged, or is the one step
\* (CommitData's trailer write) that makes it exactly the staged bytes;
\* CommitData reports success only after that step.  Breaks if a record
\* or trailer write makes partial or wrong content readable.
ImplementsLogicalFile == LF!Spec

=============================================================================
