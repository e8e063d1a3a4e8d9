# TLA+ models of azure-cleanroom's encrypting block store and ext_proc proxy

This directory holds TLA+ models of the two sidecars in `src/src`. Each run
listed in `PROJECT.json` is checked by TLC.

## 1. Inventory

### Core A: encrypting block store (`blobfuse-launcher/encryptor`)

A blobfuse pipeline component. The blobfuse host calls it from several
worker goroutines. It turns plaintext blocks into AES-GCM records in a
ciphertext file under `mountPointCipher`:
`record 0 | ... | record N-1 | 8-byte big-endian padding trailer`.

| Part | State | Operations | Interacts with |
|---|---|---|---|
| `AeadCodec` (`aes_encryption.go`) | none | `EncryptChunk`, `DecryptChunk` | called by StageData and ReadInBuffer |
| `AesEncryptorTool` (`tools/aes_encryptor/main.go`) | none | `GoEncryptChunk`, `GoDecryptChunk` (cgo-exported JSON shim) | a C consumer that decrypts the ciphertext files |
| `BlockLayout` (arithmetic in `encryptor.go`, `utils.go`) | none | block index, record offset, trailer offset, padding, `checkForActualFileSize` | used by every operation |
| `Encryptor` (`encryptor.go`) | one `handle *os.File`; one `lastChunkMeta {Mutex, farthestBlockSeen, paddingLength}`; the ciphertext files | `CreateFile`, `StageData`, `CommitData`, `GetAttr`, `ReadInBuffer`, `CreateDir`, `StreamDir`, `Configure` | shared state between host goroutines; the filesystem |

The state is **one writer handle and one tracker for the whole mount**, not
one per file. `StageData` writes its record first, then takes the mutex to
raise `farthestBlockSeen` and set `paddingLength`. `CommitData` captures
`e.handle` in a `defer Close`, takes the mutex, writes the trailer after
block `farthestBlockSeen`, resets the tracker (only on success), unlocks and
closes. Readers open their own read-only handles.

What makes this hard:
- stages that run concurrently and finish out of order;
- the write and the tracker update are separate steps;
- `CreateFile` replaces `e.handle` without the mutex;
- the error paths that skip the reset;
- `GetAttr`'s stat and trailer read are separate steps (the TODO in `utils.go`).

What makes it correct: after a successful commit, `GetAttr` reports
exactly the staged length, and block reads return exactly the staged bytes.
A trailer never lands on a record. Each file's records hold only that
file's data. Every call returns.

### Core B: ext_proc policy filter (`internal/filter`, `proxy-ext-processor`)

| Part | State | Operations | Interacts with |
|---|---|---|---|
| `ExtProcServer` (`externalprocessor.go`) | per stream: a filter, the loop, deferred span closures | `Process` loop: cancel check, `Recv`, span, `handleProxyRequest`, `Send` | Envoy over a gRPC bidi stream; the filter |
| `FilterSession` (`opaFilter`; source not in the repository, only `opafilter_test.go`) | per stream: accumulated `context`, the last decision | `OnRequestHeaders/Body`, `OnResponseHeaders/Body` | the shared, read-only prepared policy queries |
| `PolicyFactory` (`opafilterfactory.go`) | prepared queries per rule, TEE type | `NewHttpFilterFactory`, `CreateFilter` | the filesystem, the OCI registry, the env |
| `main`/`tracing` (`proxy-ext-processor`) | the deferred calls, the main span, the signal context | startup steps, `log.Panicf` unwinding, SIGINT | calls `NewHttpFilterFactory`; serves ExtProcServer |

What makes this hard:
- many streams at once, and strict order within each stream;
- cancellation is checked only between messages;
- Recv and Send errors;
- defers piling up inside the loop.

What makes it correct:
- responses come back in request order;
- a deny is final for its stream;
- the factory prepares exactly the policy the configuration names;
- streams do not affect each other.

## 2. Plan

Done:
- `BlockLayout`, `Encryptor` with writers, readers and faults;
- `LogicalFile` and the refinement;
- `ExtProc`, `PolicyFactory`;
- `ProxyMain` and its composition `Proxy`.

Still open (see the hazards in `PROJECT.json`):
- a host that commits on every flush and keeps writing (`encryptor.go:119`);
- two-block read buffers.

## 3. Modules

- `AeadCodec.tla` models `EncryptChunk` and `DecryptChunk` as pure
  operators. Keys and nonces are records of an identity and a byte length.
  `aes.NewCipher` fails unless the key is 16, 24 or 32 bytes long.
  `rand.Read` may fail. `gcm.Seal` gives a sealed message that is 16 bytes
  longer than its plaintext. `gcm.Open` panics on a nonce that is not 12
  bytes, fails on input shorter than a tag, and opens only messages sealed
  with its own key and nonce.
- `AesEncryptorTool.tla` models the FFI tool. A request is reduced to
  whether `json.Unmarshal` accepts it, plus its fields. The tool has three
  outcomes:
  - "fatal": `log.Fatal` ends the process;
  - "panic": a panic escapes the exported function;
  - a response with the `{Code, Message}` envelope.
- `BlockLayout.tla` holds the code's arithmetic: `BlockIndex`,
  `ChunkOffset`, `TrailerOffset`, `PaddingLength`, `TotalBlocks`,
  `HasTrailer`, `ActualFileSize`.
- `Encryptor.tla` has these variables:
  - `disk[f]`: exists, physical size, and one slot per record position
    (hole, record with its plaintext, or trailer);
  - `fds`: the `os.File` objects opened, each open or closed;
  - `handle`: `e.handle`;
  - `meta`: `lastChunkMeta`;
  - `lockOwner`: who holds the mutex;
  - `pc[t]`: which call each goroutine is in;
  - ghost variables `session` and `intent`: the host's view of what it
    staged.

  Actions:
  - `CreateFile`: lines 139-157 (O_CREATE without O_TRUNC: an existing
    file keeps its slots);
  - `StageData`: lines 205-228. It pads the block and seals it with
    AeadCodec under the constant `Key` (`e.encryptionKey`). An encryption
    failure returns before WriteAt. Otherwise the record (nonce and
    ciphertext) is written with WriteAt;
  - `ReadInBuffer` (in `ReadBack`): it splits the slot into nonce and
    ciphertext and opens them with DecryptChunk;
  - `StageTrack`: lines 230-238;
  - `CommitBegin`: line 119, the defer capture;
  - `CommitLock`;
  - `CommitWrite`: lines 121-136;
  - `CommitClose`.

  `CreateDir` (lines 292-300) is a host action. `StreamDir` of the root
  is a reader goroutine (`rd[r]`) with these actions:
  - `StreamDirBegin`: the `os.ReadDir` snapshot (lines 302-311);
  - `GetAttrStat`: `os.Stat` of one entry, a directory or a file, and
    `checkForActualFileSize`'s size check;
  - `GetAttrRead`: the 8-byte trailer read at the stat'd size
    (`utils.go` 22-44);
  - `StreamDirEnd`.

  The stat and the read are separate steps, so writers can run between
  them. `ReadBack` (GetAttr, then a block-by-block `ReadInBuffer`) is an
  operator over `disk`, because it changes nothing. Data is abstracted: a data byte is the token
  `<<file, block, position in block>>`, so a read that returns the right
  block but the wrong bytes of it is visible. Padding is the model value
  `Zero`.

  The host discipline is an environment assumption, not repository code:
  - `StagePolicy` (serial, parallel_full, parallel);
  - `RandomWrites`;
  - `ConcurrentFiles`;
  - `WriteFaults`: a WriteAt may fail with nothing written;
  - `Recreate`: the host may create a committed or failed name again;
  - `Dirs`, `Readers`: directory names and listing goroutines.

  Blobfuse stages blocks in file order, rewrites the growing last block,
  and commits after all of a file's stages have returned.
- `MCEncryptor.tla` supplies the values: 2 names, 2 goroutines, 2-byte
  blocks, 3 blocks per file, 2 creates, 1 directory and 1 reader.
- `LogicalFile.tla` is the abstract spec of a write session (spec 4.3,
  8.1). Create gives an empty session; writes change only the staged
  content; `Publish` makes the staged content visible in one step; a
  commit succeeds only once readers see the staged content. `Encryptor`
  instantiates it as `LF`:
  - `status` is mapped from the host's ghost `session`;
  - `staged` is the ghost `intent`;
  - `visible[f]` is what `ReadBack(f)` returns from disk.

  `ImplementsLogicalFile == LF!Spec` is checked as a property: every
  Encryptor step, readers included, is a LogicalFile step or a stutter.
- `ExtProc.tla` models `Process` and `handleProxyRequest`. Variables:
  - `c2s[s]`, `s2c[s]`: the two directions of a gRPC stream, as FIFO
    sequences (gRPC never reorders, loses or duplicates within a stream);
  - `envoy[s]`: whether Envoy still sends, and whether it reset the stream;
  - `proc[s]`: where the Process goroutine is (`init`, `top`, `recv`,
    `send`, `done`), the request in hand and the return value;
  - `closures[s]`: one entry per loop iteration, the value of that
    iteration's `err` that the deferred RecordSpanError closure will read;
  - `openSpans[s]`: request spans started and not yet ended;
  - `recorded[s]`: errors recorded on the stream span when Process returns;
  - `filters`: the sessions `CreateFilter` handed out, with their merged
    context and deny flag;
  - ghost logs `sentLog`, `gotLog` of what Envoy sent and received.

  Process actions: `ProcessStart` (CreateFilter), `Loop` (the closure
  defer and the `ctx.Done()` check), `Recv` (a request, EOF after
  half-close, or Canceled after reset), `Send`. `Return` runs all pending
  defers at once, as Go does. The Envoy actions (`EnvoySend`,
  `EnvoyReceive`, `EnvoyCloseSend`, `EnvoyCancel`) are the environment.
  `OnPhase` is modelled from spec 3 and 4.6, because the opaFilter source
  is not in the repository.
- `MCExtProc.tla`: `MaxMsgs` is per stream, with two settings:
  - one stream with 3 messages;
  - two streams with 3 and 1 messages.
- `PolicyFactory.tla` models `NewHttpFilterFactory` as a step machine. The
  configuration (`cfg`), `USE_HTTP` and `INSECURE_TEE` are chosen in `Init`
  from every combination. Steps: `SelectSource` (the else-if chain),
  `ReadPolicyFile` (one directory entry per step), `BundleClient`,
  `DownloadBundle`, `NewFactory` (store and transaction), `PrepareRule`
  (one rule per step), `CommitStore`. Every I/O step may fail, and a
  failure returns through `ReturnWith`, which models the deferred
  RecordSpanError calls.
- `MCPolicyFactory.tla`: a directory with `a.rego`, `b.txt` and a
  subdirectory `c.rego`.
- `ProxyMain.tla` models `main` (`main.go` 28-121) and the errors
  `initTraceProvider` can return (`tracing.go` 19-73). Variables:
  - `pc`: the startup step, `unwind` while `log.Panicf` unwinds, `exited`;
  - `defers`: the deferred calls registered so far, in order (`cancel`,
    `jsonFile.Close` after a successful open, then `tp.Shutdown`,
    `mainSpan.End`, `RecordSpanError` once tracing is up);
  - `err`: main's one `err` variable, which every `x, err :=` reuses and
    the Close and Shutdown closures assign;
  - `interrupted`: SIGINT has cancelled `ctx`;
  - `mainSpan`, `recordedErr`, `exported`: the main span, the error
    recorded on it, and whether it reached the collector;
  - ghost `panicErr`: the error passed to `log.Panicf`.

  Actions: `ReadConfig`, `TracingUp`, `Listen`, `BuildFactory`,
  `ServeFails`, `Serving`, `Interrupt`, `RunDefer` (the most recent
  defer), `Exit`. `tp.Shutdown` flushes the ended spans. With a
  cancelled `ctx`, it may return before the flush.
  `TracingUp` cannot succeed once `ctx` is cancelled:
  `otlptracegrpc.New` dials the collector with `ctx`, and the dial returns
  `ctx.Err()`. `net.Listen` and `Serve` do not take `ctx`.
- `Proxy.tla` composes the two startup parts. It extends `ProxyMain` and
  instantiates `PolicyFactory` as `PF`, with the factory's `pc` and `err`
  renamed. While main is at its factory step, `FactoryStep` runs `PF`'s
  steps. `FactoryReturns` then panics with the returned error or goes on
  to Serve.
- `MCProxy.tla` uses MCPolicyFactory's directory, and `MCProxyMain.tla`
  runs ProxyMain on its own.

## 4. Runs

| Run | Expect | What it shows |
|---|---|---|
| `encryptor_ordered` | pass | Host: one file at a time, full blocks staged in parallel, the padded last block staged alone, and a reader listing the root. Checks: `TypeOK`; `CommittedFileReadsBack`; `ListingReportsLogicalSize` (a listing never reports garbage, and a file's size is 0 or its intended size); `ImplementsLogicalFile` (refinement); `ToolDecryptsCommittedRecords` (the FFI tool's GoDecryptChunk, given the nonce and ciphertext of each record of a committed file, returns that block's plaintext with no error, spec 2 and 8). The writer behaviours here are a subset of `encryptor_faults`, so the lock and trailer properties are checked there. |
| `encryptor_parallel_last_block` | violation | `CommittedFileReadsBack` fails when the padded last block's tracker update runs before a full block's. Line 236 sets `paddingLength` unconditionally, so the trailer says 0 padding. This contradicts spec 4.3 and 9. |
| `encryptor_faults` | pass | The same host, but any WriteAt may fail (`WriteFaults`). Every call still returns, because the deferred Unlock also runs on the error path. A stale tracker never puts a trailer on a record. Checks: `TrailerNeverClobbersRecord` (an action property); `CallsReturn` (liveness). |
| `encryptor_commit_fault` | violation | `CommittedFileReadsBack` fails after a failed trailer write. CommitData returns before the reset, and the next file's commit (even of an empty file) writes a trailer from the stale tracker. |
| `encryptor_two_files` | violation | `StagedDataLandsInItsFile` fails as soon as a second `CreateFile` replaces `e.handle`. The spec describes per-file sessions. |
| `encryptor_recreate` | violation | `CommittedFileReadsBack` fails when a committed 1-byte file is created again and committed empty. CreateFile does not truncate, so the old record and trailer stay and GetAttr reports size 1. |
| `encryptor_listing_race` | violation | `ListingNeverDecodesRecordBytes` fails. StreamDir stats a re-created file at 38 bytes. Then StageData of block 1 overwrites bytes 30-60, and the trailer read at 30 decodes ciphertext as a size (`utils.go:36`). |
| `extproc_pipelined` | pass | Two streams, one with 3 messages and one with 1. Envoy pipelines, half-closes or resets at any point. Checks: `ResponsesMatchRequests` (the i-th response answers the i-th request, or is the deny); `StreamEnds` (Process always returns once Envoy stops or resets). |
| `extproc_request_spans` | violation | `RequestSpanEndsWithPhase` fails: `defer requestSpan.End()` inside the loop keeps a phase's span open into the next phase. |
| `proxy_startup` | pass | main's startup, with every step able to fail and SIGINT at any time. The factory call runs the PolicyFactory model over every configuration. Checks: `FactoryOutcomeInMain` (the factory is exactly what spec 4.5 describes, or an error); `StartupFailureReported` (a failure without SIGINT ends with the panic's error recorded on the main span, and the span exported). |
| `factory_download_span` | violation | `DownloadSpanErrorIsItsOwn` fails: the download span's defers run at function return, so a later transaction error is recorded on the download span. |
| `proxy_interrupt` | violation | `InterruptStopsProxy` fails. NotifyContext turns SIGINT into a ctx cancellation that nothing waits for, so Serve keeps serving, and the deferred `tp.Shutdown` never runs. In TLC's trace, SIGINT arrives after tracing is up, while main is at net.Listen; neither Listen nor a policy-directory factory takes ctx. A SIGINT before `initTraceProvider` stops the proxy, because the exporter's dial returns ctx.Err() (`TracingErrs`). |

Each property of a passing run has a mutant in `PROJECT.json`: a plausible
bug in the mapped code that TLC then finds.

**Bounds.** Encryptor: with 2-byte blocks and 3 blocks, the model reaches
- files with 0 to 3 blocks;
- a padded last block, and a last block that grows in a rewrite;
- a trailer slot after the last block;
- two stages in flight at once.

Two names are needed so that the tracker carries over between files, which
the `CommitWriteNoReset` mutant relies on. Two goroutines are the fewest
that can interleave. The padding value, 28-byte metadata and 8-byte trailer
are the real numbers, so the size arithmetic is the code's.

Listing: one reader and one directory give every interleaving of a
listing's stat and trailer read with the writers' steps. These include
the stat of a committed file followed by a stage of a re-created one.

ExtProc: 3 messages on a stream are enough for a request to be pipelined
behind an unanswered one, and for a deny to be followed by a later phase.
A second stream with 1 message interleaves with all of that, which is
enough for a shared session to leak context. 2 messages on each of two
streams, with liveness, took over 7 minutes.

PolicyFactory: three entries give a `.rego` file, a non-policy file and a
directory named `.rego`, which are the three cases of the directory loop.
Every configuration combination is enumerated in `Init`.

**Fairness.** Encryptor: each goroutine that has started a call keeps
running:
- weak fairness on the steps it can always take;
- strong fairness on taking the mutex, because `sync.Mutex` switches to
  starvation mode and hands the lock to a waiter.

No fairness is assumed for the host: it may stop issuing calls.
`Finished` is the terminal state, reached once every name is committed or
the create bound is used up. Deadlock checking stays on.

ExtProc: weak fairness on each Process goroutine's steps (the Go scheduler
runs a runnable goroutine) and on Envoy reading its responses (gRPC flow
control would otherwise block Send). Envoy's own choices (send, half-close,
reset) are unfair: it may stop at any point. `StreamEnds` therefore says
Process returns once Envoy has half-closed or reset.

PolicyFactory and main: one sequential goroutine. `proxy_startup` is
checked for safety only. The `proxy_interrupt` liveness check assumes
weak fairness on every step of main except `ServeFails`. Serve returns
only when the listener fails, which the code does not cause. SIGINT is
the environment and is unfair.

Proxy: 3.4 million states in about a minute. The composition multiplies
main's 7 steps and their unwindings by every factory configuration.

## 5. Not modelled and why

- The AES and GHASH computations themselves. AeadCodec keeps what the
  code branches on: key and nonce lengths, the tag length, the rand.Read
  error, and authentication. Every drawn nonce has one identity
  (`FreshNonce`), because nonce uniqueness is probabilistic and not a
  model-checking question. `Configure` does not check the key length
  (`encryptor.go:86`). With a 20-byte `Key`, every StageData would fail at
  NewCipher. The models fix `Key` to 32 bytes, as spec 3 requires.
- `Configure` runs once, before any file operation. Its only state is
  the tracker's initial value, which is `Encryptor`'s `Init`. The
  `block-size-mb` product wraps in uint64 (`encryptor.go:94`). This is
  listed as a hazard; the model takes the block size as a positive
  constant.
- Partial (torn) writes: a failed WriteAt writes nothing in the model.
- Flush-then-continue (`encryptor.go:119`) and two-block read buffers.
  Spec 4.3 and 9 make block-aligned, one-block reads the contract.
- The opaFilter (Rego evaluation, body mutation, Content-Length) is not in
  the repository. Its session is spec-modelled in ExtProc, and only its
  context and deny flag are kept. `RecordSpanError` is not in the
  repository either: it records the err it is given on the span.
- Stream independence (spec 8.7) is not a property. Each Process gets a
  fresh session from `CreateFilter`, so in the model it would hold by
  construction. The only state the filters share is the `policyQueries`
  map, which is written before the factory returns and only read after.
- In PolicyFactory, Rego compilation is abstracted to "Prepare may fail".
  `USE_HTTP` is parsed with `strconv.ParseBool`, so `1` also selects http;
  the model enumerates it.
- Two error returns that record nothing on their span are listed as
  hazards without a run: Process's `return ctx.Err()` on cancellation
  (`externalprocessor.go:45`) and the "Need to specify a bundle_resource"
  return (`opafilterfactory.go:195`). Neither assigns the `err` the
  deferred RecordSpanError reads.
- After SIGINT, a startup failure shuts the tracer down with a cancelled
  `ctx` (`main.go:69`), and the main span may be lost. The model allows
  this. `StartupFailureReported` excludes interrupted runs, and dropping
  that conjunct lets TLC find the loss.
- main's flag parsing, log formatting, Host/Port defaults and token
  masking change no modelled state.
- In the FFI tool, C string conversion and the JSON and base64 encodings
  are abstracted. The tool's `log.Fatal` on a malformed request
  (`main.go:95`, `:125`) and the panic on a short nonce (`main.go:129`)
  are modelled outcomes. They are listed as hazards, but no run builds
  such a request: the only requests come from the encryptor's own records.
