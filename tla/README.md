# goja_ext: a TLA+ model

goja_ext gives the goja JavaScript runtime the host facilities a Node-like
program expects: an event loop with timers, `fs`, WHATWG streams, `fetch`,
`WebSocket`, a Cloudflare-KV-like store, `require`, SQLite and so on. goja is
single-threaded, the host is Go: the hard part of the library is everything that
happens on other goroutines and has to come back to the one goroutine that owns
the runtime. These modules model that part, and the parts that run on the loop but
keep state across calls a script may order as it likes (keys, statements, decoders),
check them with TLC on small instances
and prove the central invariants with TLAPS for all instances.

## 1. Inventory

| component (src/) | state | operations | interacts with |
|---|---|---|---|
| `eventloop` | job table `jobs`/`jobCount`, aux queue, wakeup channel, `running`/`canRun`/`terminated` | setTimeout, setInterval, setImmediate, clear*, ref/unref (from JS and Go), RunOnLoop, RequireModule, Run, Start, Stop, StopNoWait, Terminate | everything that completes asynchronously calls `RunOnLoop` |
| `runtimehost` | per-runtime table of module state, scheduler and cwd bindings | GetOrCreate, Load, Store, BindScheduler, Detach | every module keeps its exports and intrinsics there; factories nest |
| `fs` handles | `FileHandle`: opMu, active, closeRequested, closeStarted, closeDone | read, write, ..., Close, closeAndWait | promises and streams of `fs`, several goroutines |
| `fs` promises, streams | a goroutine per operation, abort signals, stream writers | promiseCall(WithSignal), writeFile(stream), read/write streams | RunOnLoop, abort, streams, handles |
| `streams` | reader bridge (settled, closeOnce), writer bridge, consumers, text codec | NewReadableStreamFromReader/FromBytes, NewWritableStreamToWriter, ConsumeReadableStream, TextDecoderStream | third-party polyfill; RunOnLoop |
| `fetch` | in-flight request, cancel function, upload pipe | fetch, abort, upload, response body | streams, abort, HTTP transport |
| `websocket` | readyState, closeFired, conn, shutdownOnce; the manager's list | connect, send, close, CloseAll | RunOnLoop, gorilla connection |
| `cloudflarekv` | LRU cache with TTL and byte budget, rate limiter, bulk workers | get, put, delete, list, getMany, putMany, stream put | RunOnLoop, store drivers |
| `abort`, `timers` | AbortSignal listeners, timers/promises waits | abort, any, timeout, abortable waits | events, eventloop |
| `require` | the tables of modules by path or name, the registry's compiled programs and native loaders | require (search, evaluation, cycles), RegisterNativeModule | eventloop.RequireModule, the source loader, every module package |
| `crypto` | CryptoKey handles (kind, algorithm, extractable, usages, key material) | generateKey, importKey, exportKey, sign, verify, encrypt, decrypt, deriveBits, deriveKey, wrapKey, unwrapKey, digest | Go's cryptographic libraries |
| `sqlite` | the binding's tables of databases and statements, the facade's handles, tag stores, generators; the lock manager of the VFS | open, close, prepare, all, values, get, run, iterate, dispose, createTagStore; Lock, Unlock, Close of a file | the SQLite library, the backend of `fs` |
| `events`, `string_decoder`, `structuredclone`, `url`, `path`, `buffer`, `util`, `console`, ... | sequential, on the loop | | |

What is hard in it:

* **The loop.** The queue is appended under a lock and the wakeup is sent after
  the unlock; timers fire while they are being cleared; the interval goroutine is
  between its channel and the queue when Terminate waits for it; `jobCount`,
  which decides when `Run` returns, is changed in eleven places.
* **Refusal.** `RunOnLoop` returns false on a terminated loop, at any time; every
  caller has to clean up instead of delivering.
* **Close.** Files, readers and writers are closed by whoever finishes last:
  an operation, a cancel, an error, an abandoned delivery.
* **Panics.** A callback, a factory, a native module loader or the function
  given to `Run` may panic in the middle of a protocol.
* **Calls in any order.** A script exports, wraps and imports keys in six formats,
  and leaves a SQLite generator between two rows while it uses, disposes or closes
  what the generator works on; modules require each other while they are evaluated and
  some of them fail. Nothing runs at the same time, but no test tries the
  sequences.

PROJECT.json lists every component with its status and every hazard at its line.

## 2. Modules and the code they model

**Scheduler** (abstract). What `RunOnLoop` promises to the rest of the library:
a submission is accepted or refused; accepted functions run once, in order; after
Close nothing is accepted, until Reopen. It is refined by `EventLoop` and is an
assumption of `FsFile`, `ReaderStream`, `WebSocket` and `Fetch`, which instantiate
it for their own queues.

**EventLoop** (`eventloop/eventloop.go`). One variable per field: the job table
(`jobs`, `idx`, `jobCount`, `cancelled`, `refed`; `started` is ghost), the timer
and interval goroutines, the queue (`aux`, `terminated`, `token` for the one-slot
wakeup channel, `wakers` for the callers between unlock and wakeup), the lifecycle
(`canRun`, `running`, `waiting`/`bcast` for the condition variable) and the
goroutine that owns the runtime (`pc`, `batch`, `caller`). Closures are records
`[op, id]`. One action per function or per stretch of a function between two
points where another goroutine can act: e.g. Terminate is Terminate (stop and
wait), TerminateMark (set `terminated`, run the queue), TerminateAuxDone,
TerminateCancel (one per job) and TerminateReturn (wait for the interval
goroutines, clear the table). `jobChan` is never sent to in the program and is
left out. Expiry times are not modelled: an armed timer may fire at any time.

**FileHandle** (`fs/core.go`). Goroutines call operations and closes. `withOpen`
is LockOp, Begin (beginOperation), Finish (finishOperation) and Unlock;
Close/closeAndWait is Close, CloseFile, Complete (completeClose) and WaitReturns.
The file itself is external: an operation takes a while, a close succeeds or
fails. It says nothing about who calls; FsFile does.

**FsFile** (`fs/signal.go`, `fs/streams.go`, `fs/handles.go`, promiseCall of
`fs/api.go` and `streams/writer.go`). The callers of one handle: it extends
FileHandle, and its goroutines (the loop, the opener of writeReadableStream, the one
that closes an unwanted handle, a sink call, a promise call) are the handle's
`Callers`. `at` is where a goroutine is between two calls of the handle, `err` what
the last one returned. In one half of the behaviours (`shared`) JavaScript has an
FsFile, pipes into its writable and calls methods meanwhile; in the other
writeReadableStream opens the handle, and a readFile with the same signal runs
beside it. LoopCall, PromiseCall/CallReturns/SettleCall, WriteReadableStream/
OpenReturns/SettleOpen/LoopClose/CloseUnwanted, Abort and, for the sink, PipeChunk,
PipeEnds, SinkStart, SinkReturns, SettleSink are the stretches of the functions
between two points where another goroutine can act; Post is the call of RunOnLoop,
which may refuse. pipeTo is external: it makes one sink call at a time and aborts
the sink when the one in flight has ended. The path without a scheduler, where every
call is made inline, is left out.

**Decoders** (`streams/text.go`, TextDecoder and TextDecoderStream of
`streams/text_streams.js`, `string_decoder/module.go`). One decoder, any options or
encoding, any chunks. The decoding functions are recursive functions over the bytes;
utf8.Valid, FullRune, DecodeRune and the base64 encoder are external and given by
what they do. Bytes and UTF-16 units are numbers. A throw ends the history, since a
fatal decoder keeps the bytes it threw on.

**ReaderStream** (`streams/reader.go`). The bridge from an `io.Reader` to a
ReadableStream: Pull, the read goroutine (Read, CloseForRead, Post),
Deliver/DeliverRest on the loop, Abandon when the loop refuses, Error, Cancel and
the onCancel hook. Its configuration (with or without a scheduler, with or
without onCancel) is chosen in Init. The controller of the polyfill (queue,
desiredSize, pulling, pending read) is external and follows the Streams standard;
a call of `enqueue`, `close` or `error` that the standard refuses is recorded in
`panicked`.

**RuntimeHost** (`runtimehost/host.go`). Per goroutine a stack of calls, because
factories call GetOrCreate for the modules they use. Lock (under `mu`: found or
created), Wait (`<-entry.ready`), FactoryReturns, FactoryPanics and Unwind (the
deferred removal of the entry and close of `ready`), Load, Detach. `Uses` is
assumed acyclic: a factory that needs itself deadlocks, in the code and in the
model.

**WebSocket** (`websocket/websocket.go`). Per connection the two flags under
stateMu (`readyState`, `closeFired`), the `conn` field, `done` (shutdownOnce has
run), the goroutine of connect (`dial`: DialReturns, DialFailed, SetConn, TryOpen,
Abandon, TriggerOpen) and that of readPump (`pump`: PumpSelect, PumpMessage,
PumpFails, PumpState, PumpTrigger, PumpClose, PumpShutdown); and, for the loop and
for the goroutine of CloseAll, the close or send in progress (`act`). Events go
through Scheduler, which may refuse them. The socket is external: a read may fail
at any time, and a message buffered before a close may still be read after it. The
contents of messages, headers, the order of the manager's list and the listener
lists are left out.

**KV** (`cloudflarekv/cache.go`, `bulk.go`, and the get, put, delete and getMany of
`bridge.go`). The LRU cache (`order`, `size`), the write rate limit (`last`), one
record per call with the place it has reached (cache, store, fill; store,
invalidate), and the bulk get with its producer and workers. The store is external:
a write fails with or without having taken effect. Time is abstract: an entry may
be expired whenever it is looked at. The size of a list of entries is the number of
its (entry, byte) pairs (`Weight`), and the eviction loop is given by its result
(`Evict`): the longest front part that fits, which is what removing from the back one
by one leaves. `overlaps` is ghost: it marks a read that was
between store and cache when a write of its key finished.

**Fetch** (`fetch/dispatch.go`, `fetch/upload.go`, `fetch/stream.go` and send and
readBody of `fetch/internal/bare/facade.js`). One call of fetch() with a static or
a streamed body. The calls that a task of the loop still has to make are the
sequence `script`, so that the goroutines of the dispatch function, of the
transport (which reads the body and may close it meanwhile) and of an abandoned
response read act between any two of them. uploadBody is `finished`, `closed` (the
channel `aborted`), `once` (abortOnce, with callers that wait for the one inside),
the channel `items`, `current` and the pending JavaScript read. net/http is
external: a response may come before the upload has ended, the body may be closed
during a Read, and reads of the body may begin after either, so that an upload goes on
beside its response, or after the Close that discards it; a cancelled request ends. The stream of the response is ReaderStream
seen from outside (it settles once, on or off the loop). The failure of the stream's
constructor (`dispatch.go:140`), which happens only if the polyfill throws and which
leaves the listener and the context behind, is not modelled.

**WebCrypto** (`crypto/*.go`). The handles and byte strings a script holds; one
action per function of `crypto.subtle`, each one step because a call runs to its end
on the loop and a rejected call changes nothing. Operators with the names of the
code's helpers (importRawKey, privateKeyToHandle, exportJWK, signData, decryptData,
...) return the set of possible results, empty for an error. Cryptography is
symbolic: secret material is a term, `<<s>>` for a fresh random value, longer for
what is computed from it; a byte string says which part of which key it encodes, in
which format, and keeps the encryptions around it as layers. The lengths of DER, of
JSON and of ciphertexts are abstract, and so are the limits on what RSA encrypts.
CBC decryption under another key gives other bytes or an error, CTR is its own
inverse. A handle has the term of its secret (`t`) and that of its public half
(`pub`), which are not always of one pair: 64 raw bytes imported for Ed25519 are taken
for a seed and a public half as they come (privateFromRaw), and an EC JWK has `d` beside
a point that nobody compares with it (importECJWK). `Halves` says which 64 bytes of
those a script has from outside (`Holdings`) are a seed and a public half known
otherwise; the halves of any others are bytes of their own. `d` of an EC JWK is taken
to be within the order of its curve. newCryptoKeyObject keeps the Go handle in an
ordinary property of the CryptoKey, with exported fields, so that a script can get at
it without a call: the scripts in `Meddling` read the secret (readHandleSlot) or change
Extractable (setHandleSlot), and the ghost `reached` keeps whose handle they took. What
else can be written there (key fields, Algorithm, Usages, Type) is not modelled. What
the code does and a reader may not expect is in the model: no operation
looks at usages or compares the key's algorithm with the requested one; usages that
have nothing in common with the allowed ones grant all of them; the raw export of
a private key gives the public half; 32 raw bytes imported for Ed25519 with sign
only are a seed; an RSA JWK is accepted under any algorithm name; an HMAC length
below eight bits gives an empty key.

**Ciphers** (`crypto/key_io.go`, `crypto/legacy_cipher_helpers.go`). The arithmetic
the module does itself: recoverRSAFactorsFromNED on small moduli, PKCS#7 padding and
the AES key wrap with short words over a stand-in for the block cipher. tryBase is
`halvings` (k is 2^t times an odd number) and `climb` (at most t squarings). aesKeyWrap
and aesKeyUnwrap are two loops as in the code, each with its own order and count. A
behaviour is one call, for every argument within the bounds. A real modulus never meets
a base that shares a factor with it, a small one always does; so ArithmeticExact asks
separately that of the bases coprime to n at least half lead the climb to p and q, and
none to anything else (`ClimbFinds`).

**Sqlite** (`sqlite/facade.js` over `sqlite/binding.go`). The binding's tables
(`dbs`, `stmts`, `nextID`), the facade's objects (`dbHandle`, `disposed`, the tag
stores' caches) and the generators of `iterate`, which are at rest between two calls
of `next` while everything else may happen. dbOpen, dbClose, dbPrepare, stmtQuery
(all, values, get and run), the setters, stmtDispose, stmtIterate, iteratorNext,
iteratorReturn, tagQuery, tagIterate and tagClear are the methods. SQLite is
external: a statement is at a row or reset, a bind of a statement that is not reset
is refused, a step may fail, and so may the close of a connection. `clean`, `seen`,
`tagged` and `halfClosed` are ghosts. One tag store per database.

**VfsLocks** (`sqlite/vfs.go`). The lock manager: per file its `lock` field, per
name the `lockState`. One action per level of `lock`, and unlock, open and close. A
refused lock changes nothing. SQLite is assumed to ask in its own order (shared
first, reserved from shared, exclusive from any, and back to shared or nothing):
Lock with a level below the current one would set the field and release nothing.

**Require** (`require/resolve.go`, `require/module.go`). `modules` and `nodeModules`
are the tables of RequireModule, `compiled` and `native` those of the registry;
`objects` are the module objects with what became of their code, `evaluating` the
loads in progress, which nest. The search is a constant: `Tried` lists the files that
loadAsFile, loadAsDirectory, loadIndex and loadNodeModules try for a request, in
order, and `resolve` takes the first that is known or there. Code may require at any
time and ends with CodeReturns or CodeThrows; who required it may catch that, so a throw goes
one level up per step. Which files cannot be read is chosen per call. `partial` is a
ghost. A module's own exception that wraps ErrModuleFileDoesNotExist, after which
loadModule goes on as if the file were missing, is left out, and so are several
runtimes on one registry, where loadNative reads the map of native loaders without
the lock that RegisterNativeModule holds.

What RequireSound leaves open is what the code does. A module that fails inside a
cycle stays under the names that were required in the cycle without extension
(`delete` in loadModule removes one key), so that `./a` returns the failed object and
`./a.js` evaluates the file again. A native module whose loader panics stays for good.
Keys are shared: `./fs` of a script in "." and the name `fs` are one key of `modules`,
so a file can come before the native module although module.go says that native ones
"take precedence" (the host avoids this by giving scripts absolute names); and `x`
required in `d` and `d/x` required in "." are one key of `nodeModules`, so the first to
be loaded is returned for both.

**MCEventLoop**, **MCRuntimeHost**, **MCKV**, **MCFetch** give the values of constants.
**MCModules** puts Decoders, WebCrypto, Ciphers, Sqlite, VfsLocks and Require side by
side in one specification: a behaviour is one of them (`component`) at work.
**EventLoopProofs**, **FsFileProofs** (of FileHandle and FsFile), **WebSocketProofs**,
**RuntimeHostProofs**, **ReaderStreamProofs**, **KVProofs**, **FetchProofs** and
**ModulesProofs** (of VfsLocks, Sqlite, WebCrypto and Require) hold the proofs.

Definitions commented "Faulty variant" are not part of any specification: they
are plausible bugs, named under `mutants`, that show that a property depends on
the code it is about.

## 3. Runs

| run | instance | checks | shows |
|---|---|---|---|
| timers | a Go timeout, a JS interval, all lifecycle calls | JobsIndexed, JobCountExact, CountedJobCanEnd, TerminateIsClean | the table stays dense and indexed, `jobCount` is exact, no counted job is orphaned (Run could never return), Terminate leaves no job and no goroutine |
| queue | two tasks, one through RequireModule, an immediate, Run's function may panic | NoLostWakeup, ImplementsScheduler | a sleeping loop with work has a wakeup on its way; the loop implements Scheduler |
| live | an interval and a task, fair | AcceptedTaskRuns, LifecycleCallsReturn | what a running loop accepted is run; Stop and Terminate return |
| handle | five goroutines on one file, 2 chunks, abort at any time, a loop that may be terminated | NoUseAfterClose, ClosedAtMostOnce, ResolvedMeansWritten, CloseHappens, CallsEndAndRelease | one close, after the operation in progress, and it happens; a fulfilled writeFile has written everything; promises settle and handles are released unless the loop refused the result |
| reader | 3 chunks, an empty read, high-water mark 2 | ControllerCallsLegal, InOrder, HooksOnce, ReadAnswered, Released | no illegal controller call, no lost or reordered chunk, hooks once, reads answered, reader released |
| host | 3 goroutines, 2 keys, one factory uses the other | OneValuePerKey, CallsReturn | one value per key for everybody, nil only after a panic, calls return even when factories panic |
| socket | one connection, one message, one failing send, close() and CloseAll, a loop that may be terminated | TypeOK, EventsInOrder, ClosedForGood | one close event whoever ends the connection, open before messages, a close that was started locally is not reported as lost, a connection that is closed ends its goroutines and its socket |
| kv | 2 keys, 2 calls, a bulk get of 3 keys with a repeat, one worker | CacheAccounted, StaleOnlyByOverlap, BulkComplete, CallsEnd | the byte count of the cache is exact, stale entries come only from overlapping or failed writes, a bulk get is complete or an error, nobody waits for a worker that has ended |
| fetch | a body of two chunks (one read in parts, one empty), read before and after the response, abort at any time, a loop that may be terminated | EnqueueNeverBlocks, UploadInOrder, FetchEnds | the loop never blocks on the upload, the transport gets the body whole and in order, an aborted, failed or consumed request leaves no context, listener or lock behind |
| modules: Decoders | all decoders, up to 4 bytes in chunks of up to 2, bytes that are an ASCII letter, the byte order mark, leads and surrogate halves | SameInAnyChunks, WritesAreWhole | the text does not depend on the chunks, and a write gives out only what is complete |
| modules: WebCrypto | seven scripts with the algorithms of a family or of a key and what wraps it, one of which also goes for the Go handles; two random values, four handles and byte strings; from outside a seed, 64 bytes that are a seed and its public half, 64 that are not, an EC JWK with another key's point | Confined, RoundTrip, VerifiesOwn | the calls leave the secret of a key that is not extractable where it was generated; every export is read back as what it was, but for public halves that do not belong to their secret; a signature is accepted through all handles with the signing secret's public half and no others |
| modules: Ciphers | primes up to 19, blocks of 3, three words of 4 bits | ArithmeticExact | p and q are found, by the walk over square roots too, what was padded or wrapped comes back, what was damaged does not |
| modules: Sqlite | one database, 3 handles, 2 generators, 2 rows, a tag store of capacity 1 | TablesAgree, RowsFromTheStart | tables and objects agree after any closes, reopenings, disposals and evictions; queries start at the first row, and an undisturbed generator gives every row once with its own parameters |
| modules: VfsLocks | 3 files of one name | LocksExclude | one writer, alone when exclusive, visible to readers that ask |
| modules: Require | eight requests from two directories, seven files (a link, a package, two under node_modules), a core module that is also registered, 3 module objects, reads that fail | RequireSound | a file is evaluated once, in cycles too, unless it failed; a failed module stays only under names used in its cycle; every entry is what its search may find |
| immediate_leak | an immediate set while Terminate runs the queue | RunWaitsForAJob **violated** | finding 1 |
| run_panic | the function given to Run panics, fair | LifecycleCallsReturn **violated** | finding 2 |

Bounds. Two jobs are enough for a swap-remove of a job that is not last, and for
a clear of one job in the callback of another; one tick of an interval waiting in
the queue (`MaxTicks`) is enough for a tick to race with its clear, since further
ticks are identical entries. Two tasks distinguish order. Each kind of goroutine
that uses a handle is there once, which gives an operation, a close that leaves the
work to it and two that wait; two chunks give a write after a failed one. In
`modules` the seven bytes contain a whole byte order mark, leads of three and four
bytes, continuation bytes, and both halves of a surrogate pair; four bytes are a
character of the longest kind or a pair. Two random values are two keys, or a pair
and what wraps it, and four things held are a key, its wrapped form, the wrapping key
and what comes back. Two primes of 13 and 17 give a climb of more than one squaring, and
three words of four bits let the count of the key wrap pass the width of a word.
Three handles are a database and two statements, or a database
that is closed and opened again; with two generators one statement has two users.
Three module objects are a cycle of two and the evaluation that follows a failure.
Three chunks and a high-water mark of two give a full and an empty queue and a
last chunk that arrives with EOF or an error; `MaxEmpty` bounds the reads that
return no bytes. One connection is enough for `socket`: connections share only the manager's list.
In `kv` one worker and two misses are what makes the producer offer a key that no
worker is left to take; sizes 1 to 3 with capacity 2 give a record that fits beside
another, one that evicts and one that is too large. `MaxEntries` bounds the entries ever created by the host, enough
for a panic, a retry and the nested key. The proofs of section 4 lift the bounds
where they apply.

Deadlock is checked except where the system may stop: after a panic of the
function given to Run (`queue`, `run_panic`), where the loop is stuck (finding 2),
in `reader`, `handle`, `socket` and `fetch`, where the stream, file, connection or
request ends, in `modules`, where a throw ends the history of a decoder, a cipher is
called once and a script holds no more than its bound, and in `kv`, where every call is
made once.

Fairness. `EventLoop`: weak fairness of the loop's own steps (callbacks return),
of the lifecycle call in progress, of the second half of `addAuxJob`, of a fired
timer's enqueue and of an interval goroutine that was told to stop: each is a
goroutine that is runnable, which Go schedules. Calls by the user, expiry and
ticks are not fair. `FsFile`: weak fairness of each goroutine inside a call;
strong fairness of taking `opMu`, since a Go mutex in starvation mode serves
waiters in order, and of the loop taking its next closure, since it only has to wait
for calls that return; the source of a pipe owes nothing. `ReaderStream`: the loop, a Read that returns, the onCancel
hook; nobody has to read or cancel. `RuntimeHost`: each goroutine inside a call;
factories return or panic. `WebSocket`: the goroutines of connect and readPump and a
close in progress; a dial ends (the dialer has a handshake timeout) and a read on a
closed socket fails, a read on an open one may block for ever. `KV`: goroutines run
and the store answers. `Fetch`: goroutines run, and the transport returns once the
context is cancelled or the body fails; the server need not answer and JavaScript
need not produce, consume or abort.

### Findings

1. `setImmediate` counts its job before the queue may refuse it. A job executed by
   Terminate that calls it leaves `jobCount` one too high, and after a restart
   `Run` never returns (`eventloop.go:396`).
2. `Run` calls its function outside the deferred cleanup of `run()`; if it panics
   `running` stays set and Stop and Terminate wait forever (`eventloop.go:491`).

Noted and not checked by a run: a panic of the load in `RequireModule` is recovered by
safeExecute before anything is sent on the channel its caller waits on
(`eventloop.go:714`), so the call never returns, where the comment says "It blocks
until the module is loaded or an error occurs" (`eventloop.go:700`). The result of an
fs promise, or of a sink call, that a terminated loop refuses is lost: the promise
stays pending and a pipe stops with its file open, also after a restart
(`signal.go:70`, `writer.go:68`); CallsEndAndRelease says that this is the only way.
A fatal TextDecoder that threw on a chunk keeps the bytes of earlier chunks, so
decodes after it may throw again (`text_streams.js:59`); a final decode gives one
U+FFFD for an unfinished sequence and drops everything after its lead, F0 41 at the
end loses the letter (`text.go:150`), where StringDecoder keeps it. After a factory panics, the callers that waited
for it get nil from GetOrCreate (`host.go:125`), and so does a Load that waited
(`host.go:164`), where the comment promises "the canonical value" (`OneValuePerKey`
says this is the only way to get nil); and a cancel whose onCancel hook owns the
reader races with an in-flight read that closes it too (`reader.go:267`), where
WithOnCancel's comment says "the bridge does not close it". A close() or CloseAll
between tryOpen and triggerOpen makes the close event precede the open event
(`websocket.go:573`); `send()` on the loop and CloseAll on another goroutine may
write to the same gorilla connection at once (`websocket.go:632`), which the model,
whose writes are atomic, does not show. When the response
has arrived before the upload ended, an abort reaches the upload through the cleanup
of the response first, so that its stream is cancelled with "fetch: request body is
closed" and not with the reason (`dispatch.go:42`), which
TestFetchAbortCancelsPendingUploadReaderWithExactReason (`upload_test.go:264`)
checks only for a request without response. A get that overlaps a put may leave the old
value in the cache until its ttl ends (`cache.go:19`); StaleOnlyByOverlap states how
far this goes. The Go handle of a CryptoKey
is a property of the object with exported fields that a script can read and write
(`runtime_helpers.go:274`, `crypto.go:38`), so that `extractable: false` binds the calls
of crypto.subtle only; the 64 raw bytes of an Ed25519 private key are not checked
(`crypto.go:838`), nor is `d` of an EC JWK against its point or the order of the curve
(`key_io.go:143`), so that such a key may reject its own signatures, and comes back from
most exports with another public half. RoundTrip and VerifiesOwn state exactly how. In
sqlite, `all` or `get` of a statement whose generator is suspended
starts in the middle of the result and resets it (`binding.go:205`), unless the
statement has parameters, when the bind is refused after the old values are cleared;
when a step of a generator fails, the reset in its finally block throws again and
replaces the converted error (`facade.js:76`); a tag store forgets its statements in
`clear` without closing them, and keeps those of a database that was closed, so that
the same text fails after a reopen until it is evicted (`facade.js:112`). A connection
that fails to get the exclusive lock leaves no pending lock behind (`vfs.go:304`), so
a stream of readers may keep a writer out.

## 4. Proofs

**EventLoopProofs** proves, for any finite set of timers and immediates and any
set of tasks, `Spec => []P` for P = TypeOK, JobsIndexed, JobCountExact and
NoLostWakeup. The first three come from one inductive invariant, `IInv`:

* JobsIndexed is inductive only if a job is started at most once. Jobs made
  through the Go API are started by a queued closure, so `StartsOnce` says a start
  is queued at most once in batch and queue together, and `EntryOK` that a start
  in a queue is of a job not yet started.
* JobCountExact needs that a clear finds its job started: `StartBeforeClear` says
  that a queued clear has the start before it.
* `ExecInv` ties the goroutine that owns the runtime to the lifecycle state: it
  says when a batch exists, who executes it, and when run's own hold on `jobCount`
  counts.

The step lemmas (TableStep, ExecStep, QueueStep, CountStep, WakeStep) go action by
action; lemmas on swap-remove (StartJobTable, RemoveJobTable), on the queue
(QueueAppend, QueueStart, QueueSwap, QueueTake) and on cardinalities
(CountedFacts) carry them. NoLostWakeup uses its own strengthening, proved in
WakeStep.

CountedJobCanEnd and TerminateIsClean come from three more invariants, proved together
in `Ends`:

* `CloseInv`: a terminated loop does not run, and its queue is empty except while
  Terminate itself is draining it.
* `AliveInv`: every timeout and interval that has not ended is in the table, where
  Terminate finds it; the closing entry of a timeout follows its expiry and that of
  an interval its cancellation, so a queued entry never belongs to a job that is still
  waiting for its timer.
* `EndInv`: until Terminate refuses work, each such job can end; after it there is
  none. In between, while Terminate cancels job by job, neither holds, which is why the
  invariant names that stretch.

The refinement `Spec => ImplementsScheduler` maps the scheduler's queue to the
functions among `batch \o aux` (`TasksOf`, by rank, so that no recursion is needed),
its submissions to the started tasks and `open` to `~terminated`. TasksAppend and
TasksTail say what a queue step does to that sequence; swapping the queue leaves it
alone (PromiseTake); starting an entry is RunNext or a stutter (PromiseRun); a restart
maps to Reopen because `CloseInv` says that the queue is empty (PromiseReopen).

Assumptions of this module: the job sets are finite and disjoint, `GoHandles` and
`Requires` are subsets of what they should be, `MaxTicks` is a natural number.

**FsFileProofs** proves first, of FileHandle, TypeOK, NoUseAfterClose, ClosedAtMostOnce
and DoneMeansClosed for any set of goroutines. The invariant adds: opMu is held by
whoever is inside withOpen and `active` means that one of them is inside the
operation (`MutexInv`); a close starts only with no operation active and none can
begin afterwards (`StartInv`); there is one closer, and the number of closes
follows from where it is (`CloserInv`).

Then it proves that FsFile implements FileHandle (`FsSpec => Spec`), so that
NoUseAfterClose and ClosedAtMostOnce hold of promises and streams, and that
ResolvedMeansWritten holds for a stream of any length. The assumption is the set of
goroutines (`GoroutineAssumption`). The invariant `FsInv` adds to the handle's:

* `QueueInv`: a sink call has at most one closure in the queue, and its goroutine
  waits for it; so the closure that settles a call is that of the last call.
* `SinkInv`: where the sink's goroutine is says how many chunks are written and what
  the call is; a close call is made with all chunks written.
* `SinkWaits`: closeAndWait returns no error only if the file is closed well, which is
  stable since there is no second close (`ClosedWellStable`); this needs that the
  goroutine that waits is not the one that holds opMu, from the handle's `MutexInv`.

**WebSocketProofs** proves TypeOK, CloseEventOnce, OpenBeforeMessages, LostMeansLost
and ReadyStateForward for any finite set of connections and any number of messages
and failing sends (`SocketAssumption`). The invariant adds what the code relies on
without saying so:

* `DialInv`: the read loop does not exist before connect is done, a connection is
  not open before tryOpen, and a dial is abandoned only if somebody is closing. This
  is why conn is set whenever Send or readPump uses it.
* `CloseInv`: closeFired is the right to dispatch the close event. Until it is
  taken there is no such event; at most one goroutine is between taking it and
  dispatching, and there is no such event while one is.
* `MessageInv`: there is no message event until connect is done, so triggerOpen
  appends the open event to a list without messages.
* `LostInv`: a read loop that goes on to report a loss has seen the connection open
  when its read failed, since a connection in any other state is being closed.

DispatchEvents and DeliverFacts say what a dispatch and a delivery do to the list of
accepted events; the step lemmas (TypeStep, FlagStep, CloseInvStep, MessageStep) go
action by action.

EventsAreInOrder joins the theorems on open, close and lost events, which are what the
run checks as EventsInOrder.

**ModulesProofs**, part 1, proves LocksExclude for any files and names (`FilesAssumption`:
every file has a name, and "no file" is not one). The invariant says where a file
with a given `lock` field is registered in the lockState of its name: a reader is in
`shared` unless it is exclusive, a level from reserved on is in `reserved` unless
exclusive was taken from shared, and nobody is registered who does not hold a lock.

**RuntimeHostProofs** proves TypeOK and OneValuePerKey for any keys, factories and
goroutines (`HostAssumption`; the uses need not be acyclic, which only liveness
needs). The invariant says who owns an entry that is not ready:

* `HeldInv`: the entry of a running factory is in the table and not ready; the entry a
  caller waits for is in the table or was given up by a factory that panicked (`Gone`).
* `OneMaker`: no two frames, of one goroutine or of two, run the factory of the same
  entry; so a panic removes the entry of its own factory and no other.
* `Nested`: only the innermost call of a goroutine is outside its factory, and one that
  unwinds is in a factory.
* `TableInv`, `MadeInv`, `ReturnedInv`: a ready entry has its value, and how many
  factories returned and what callers got follow from the table.

**ReaderStreamProofs** proves TypeOK, ControllerCallsLegal, InOrder and HooksOnce for
a reader of any length, any number of empty reads and any high-water mark
(`ReaderAssumption`). The argument is that at most one readOnce is under way, the last
one (`ReadsInv`); the scheduler has at most its result (`TasksInv`); a delivery is to
a readable stream and of that readOnce (`LoopInv`), which makes the controller's calls
legal; while the stream is not settled a pull is pending exactly while a readOnce is
under way (`PullInv`) and nothing taken from the reader is lost (`CountInv`), which
with the numbering of the chunks (`OrderInv`) gives InOrder; and whoever settled the
stream has called its hook or is about to (`HookInv`), which counts the pending call
and is therefore inductive where HooksOnce is not.

**KVProofs** proves CacheAccounted, StaleOnlyByOverlap and BulkComplete for any keys,
calls, record sizes, capacity, list of bulk keys and number of workers
(`KVAssumption`):

* The lemmas on `Weight` (WeightAdds, WeightMoves, WeightOne) say that sizes add up and
  do not depend on positions; Removes, Pushes and Evicts what the operations on the
  list do to it and to its size; HitKeeps, DeleteKeeps and PutKeeps what is in the
  cache after each operation of lruCache.
* `Fresh`: a record is what the store has, or is marked as overlapping, or its key is
  `Unsettled` (a write of it has run and its invalidation has not, or never will).
  StaleOnlyByOverlap says this of the cache only; it is inductive if it also holds of
  what a get carries between store and cache (`FillInv`) and of what the pool has
  found (`PoolInv`). Only Invalidate settles a key (`NothingSettles` for all other
  steps), and it removes or marks everything of that key.
* `BulkInv` and `PoolInv`: every key of the bulk get was found or is a miss, and every
  miss handed out was read, is being read, or an error is recorded; the producer stops
  early only after an error.

**ModulesProofs**, part 2, proves TablesAgree and RowsFromTheStart for any databases,
texts, rows, generators and any capacity of the tag stores (`SqliteAssumption`: the
capacity is positive, as the constructor demands):

* `HandlesInv`: every handle was given out by `nextID` and none twice, so that a new
  object never meets an old entry; `StatementsInv`: a statement in the table belongs to
  the database that its object was made for, which is why dbClose takes the right ones.
* `StoresInv`: an object is in one place of one tag store. A hit moves an entry to the
  end and a miss may evict the first (MoveToEnd says what is then where); without this an
  eviction could dispose of an object that another entry still names.
* RowsFromTheStart is not inductive: that an undisturbed generator goes on where it
  stopped needs that it is alone on its statement, and that the statement stands at the
  row it saw last (`CleanInv`). The steps are of five forms (QuietRows, StartRows,
  QueryRows, StepRows, EndRows), and every method is one of them.

**ModulesProofs**, part 3, proves Confined, RoundTrip and VerifiesOwn for any algorithm
objects, formats, usages, bit lengths, byte strings from outside and any stream of random
values that does not repeat and is not known outside (`FreshAssumption`). An algorithm
object has texts and numbers as fields (`CallAssumption`), as the code converts them, and
only elliptic curve keys that come from outside name a curve.

* `HandleOK` and `BytesOK` say which fields handles and byte strings of each kind have:
  a symmetric key has a length its algorithm takes, an elliptic curve key the name of its
  kind, an RSA key a hash. An export is read back only because of this. They say nothing
  of how the two halves of a handle belong together, since an import may bring any.
* `Drawn`: a secret that the stream has not given yet is in no handle and in no byte string
  (a public half that comes from outside may bear any name). `SEC1`: the form that an import
  takes for a private key whatever its label is made of private keys only; without it
  Confined could be left through the import of a public key.
* `Made` and `ReadFrom` describe what the calls can make of what there is: what is
  computed (derived, shared, cut from 64 bytes, taken from under an encryption) is a longer
  term, or the half of outside bytes, and so never a secret of the stream (`NotSecret`); encryption keeps the term, part and format
  (SealOpen); an export is of the secret only for an extractable secret handle (Exported);
  an import yields a secret only from bytes that hold one. Confined then needs three
  steps only, more bytes (AddBytes), an imported handle (AddKey), a generated one
  (AddGenerated); a script that reads or sets a Go handle puts its secret into `reached`
  (ReadSlot, SetSlot) and moves no other.
* VerifiesOwn is a fact about signData and verifyData with any two handles, whose halves
  belong together or not (OwnVerified), since the two copies of the choice of the hash
  agree (SameHash). RoundTrip goes through the formats with HandleOK: an export is one part
  of the handle (`IsExport`), the DER formats and the JWK of an RSA or OKP key give the
  public half of the secret they hold (ParsedBack), and the JWK of an EC key gives the
  halves as they were (ParsedPairBack).

**ModulesProofs**, part 4, proves RequireSound for any files, requests, search, core and
native modules (`NamesAssumption`: a request is for a path or for a name, and names are
sequences):

* `EntriesInv` and `LoadsInv`: the tables name module objects, a load in progress is of an
  object whose code runs, and of each once, and was found by the search for its key.
* `CycleInv`: a file whose code has not returned is entered under its own path; any other
  entry for it was made for a request from inside its cycle. `FailedInv`: after a throw its
  own entry is gone, which gives that a failed module is left only in the entries of its
  cycle.
* EvaluatedOnce and FoundByTheSearch are inductive beside these. FirstOfThree,
  IndexFiles, DirectoryFiles and their like say that a file path is the first of the files
  tried for it; this is why the entry that a load makes is never another file's own.

The four parts share no constant and no variable; the assumptions of one say nothing of
another.

**FetchProofs** proves EnqueueNeverBlocks and UploadInOrder for a body of any number of
chunks of any sizes (`FetchAssumption`), read in any portions, with the abort, the
failures and the termination of the loop at any time, and with reads of the body that
begin after the response or after a Close as well as before:

* `OneTurn`: the upload is in one place at a time. Either JavaScript is asked for a chunk,
  or a call of the script is about to hand one over, or it lies in the channel, or the
  transport reads it, or the request for the next one is queued. So the channel of one
  slot is empty whenever the loop sends, and the send does not wait. `EarlyInv` says that before host.dispatch there is nothing of this.
* `BytesInv` says for each of these places what the transport has received when the turn
  is there: all bytes of the chunks produced, or all before the last of them, or those up
  to the place in it (`UpTo`).
* `InOrder` is UploadInOrder but for the end of the body. It orders bytes by
  (chunk, position), with no concatenation of chunks, so that no induction is needed; a
  read of k bytes extends it by consecutive positions.
* Steps that leave the item alone are taken together: calls of a script that do not take
  the turn (`QuietCall`), steps of other goroutines (OtherStepKeeps), a task refused or
  queued (QueueingKeeps).

Only model-checked: all liveness (LifecycleCallsReturn, CallsEnd, FetchEnds and the like),
which is out of the prover's reach, and SameInAnyChunks, WritesAreWhole and ArithmeticExact:
what the recursive decoders compute from bytes of any length, and what the bitwise
arithmetic of the ciphers computes from words of any width, needs an induction over the
data.

## 5. Plan

In this order, each with a module, properties and then proofs where the argument
is an invariant:

1. streams: ConsumeReadableStream, the text encoders; fs: the operations that are
   several backend calls (copyFile, writeFileBytes, removal), one of which may fail.
2. abort and timers/promises; require with several runtimes; events' emit over a
   listener list that changes.
3. cloudflarekv: the pipe of a streamed put, list; websocket: listener lists; fetch:
   the event source with its retries.
4. Pure checks: path (normalize, relative, parse), structuredclone, the integers of
   buffer, URLSearchParams.
5. Proofs: every safety invariant of the runs is proved except those of Decoders and
   Ciphers; what is added under 1 to 3 gets its theorem with its module.

Not planned: digest, random values and text globals of `crypto`, value conversion and
file I/O of `sqlite`, the rest of `url`, `util`, `console`, `process`, formatting and
libraries, third-party JavaScript (the streams polyfill, the fetch bundles),
which are data transformations without a protocol or code of others.
