# Raildrop: a TLA+ verification project

Raildrop moves files from a browser or an app straight into an S3-compatible
bucket (Railway buckets, AWS, MinIO).  A TypeScript server package, a Go SDK with
the same wire format, browser and Go clients, and a set of maintenance jobs share
one protocol.  This directory models that protocol in TLA+, checks it with TLC on
small instances and proves its main safety properties with TLAPS.

## 1. The system

### Components, their state and operations

| component | source | state | operations |
|---|---|---|---|
| upload handler | `src/server/handler.ts`, `sdk/go/handler.go` | none; all it knows is in the token and the bucket | `prepare` (open sessions, sign URLs), `finalize` (complete, verify, validate, call the application), `abort` |
| session tokens | `src/server/session.ts`, `sdk/go/session.go` | encrypted into the token: id, key, size, expiry, multipart upload id | mint, read (refuses an expired or foreign token) |
| bucket | `src/server/storage.ts`, `sdk/go/storage.go`, `sdk/go/s3store/*` | objects with metadata and lastModified, open multipart uploads with their parts | head, put, presign, create/complete/abort multipart, list, bulk delete |
| maintenance jobs | `src/server/cleanup.ts`, `sdk/go/cleanup.go` | none between runs | `cleanupExpiredObjects`, `reconcileUntrackedObjects` |
| TypeScript client | `src/client/index.ts` | resume store (local storage); per call: files, finished parts | `uploadFiles` |
| Go client | `sdk/go/client.go` | per upload: cursor, finished parts, progress | `Prepare`, `UploadPut`, `Finalize`, `Upload` |
| global assets | `src/server/global-assets.ts`, `sdk/go/globalassets.go` | the manifest object and content-addressed assets | `sync`, `upsert`, `mirror` |
| gateway | `src/server/gateway.ts`, `sdk/go/gateway.go` | none; caches in front of it keep what it answers | serve keys and aliases with cache headers, answer "not modified" |
| bucket adapter | `src/server/storage.ts`, `sdk/go/s3store/client.go` | none between calls | paged listings, bulk delete in chunks, verified put |
| route builder, policies, file rules | `src/server/router.ts`, `src/core.ts`, `sdk/go/router.go` | none | configuration, `validateFiles`, the middleware's override of the policy |
| keys, expiry days, part layout | `src/core.ts`, `src/server/handler.ts`, `sdk/go/handler.go` | none | `tmp/<day>` of a key, sizes and number of parts |
| server API | `src/server/api.ts`, `sdk/go/api.go` | none | store a file with a policy and an expiry; single bucket calls |
| React hook, Expo helper | `src/react`, `src/expo` | loading flag | wrap the client |
| CLI, adapters, test storage, JSON and S3 encoding of the Go SDK | the rest | none | glue and formatting |

### How they interact

The client asks the server to *prepare* a batch of files and gets, for each, a
token and either a signed PUT URL or the signed URLs of a multipart upload's
parts.  It sends the bytes to the bucket itself and asks the server to
*finalize* each file; the server completes the multipart upload, heads the object,
compares it with the token and calls the application's `onUploadComplete`, which
records the file.  Nothing tells the server that a client has gone: abandoned
uploads and objects are left to the two jobs, which look at nothing but the bucket
and one callback of the application (`isTracked`).

### What is hard about it

* Every handler is a chain of awaits without a lock; two finalizes, a finalize and
  an abort, or a job and a finalize of one file interleave at each of them.
* Answers get lost and the clients retry (`retry` of both clients), so everything
  may run twice.
* A crash between two awaits leaves a multipart upload, an object without a record
  or a record without an answer.
* The jobs act on listings that are old by the time they delete.
* Expiry is checked once, when a request arrives; the jobs' windows are relative to
  what the bucket remembers, not to the session.
* The TypeScript client does not stop the workers of a call that has failed: they
  go on beside the next call and write to the same resume store.
* The Go client does join its goroutines, but they share a cursor, a failure and a
  list of parts under two locks, and the context may end between any two steps.
* Runs of the global-asset commands have no lock: each reads a manifest, works for a
  while and puts a manifest.
* The gateway reads a manifest and then an object, beside publishers and deletions;
  its answers are aged by caches it does not see, and may overtake one another.
* A listing or a bulk delete takes many requests, between which the bucket changes.
* Two SDKs decide policy, expiry, key and parts in two languages with two notions
  of "not set", of whole numbers and of how far time goes; cleanup relies on it.

`PROJECT.json` lists each of these under `hazards`, at its line, with the
properties that cover it.

### What makes each component correct

* **Handler**: a file is recorded only after the stored object was seen to be the
  declared file, and only in time (`TrackedInTime`); what was recorded is there, and a
  multipart file is the one that was verified (`TrackedIsStored`); a stored file is
  final, one sent with a signed PUT from the end of its session on (`ObjectsSettle`); a
  client is told success only after the record, and a record is final
  (`KeepsContract`); an acknowledged abort leaves nothing open (`AbortedIsClosed`); the
  sessions a client holds can be used (`IssuedIsUsable`, proved).
* **Jobs**: nothing recorded is deleted before its time (`RecordedSurvives`), no
  upload is taken from a client that may still use it (`LiveUploadKept`), and in the
  end everything abandoned goes (`AbandonedUploadsClosed`, `ExpiredObjectsDeleted`,
  `OrphansDeleted`).
* **TypeScript client**: parts are never counted that are not in the bucket
  (`CountedPartsAreStored`), a file is finalized with all of them
  (`FinalizeIsComplete`), call after call it takes the files in order, counts what is
  stored and stores nothing else (`KeepsClientContract`), and an application that
  calls again after a failure gets there, whatever stale session the store remembers
  (`EventuallyUploaded`).
* **Go client**: the same of one call whose goroutines share the parts out
  (`FinalizeIsComplete`, `KeepsClientContract`; `FullProgress`, proved), and none of them
  is left behind (`NothingLeftBehind`, `EventuallyReturns`).
* **Global assets**: an alias always leads to the file it was published for
  (`ManifestResolves`), nobody's object is overwritten (`NothingOverwritten`), runs
  made one at a time keep each other's aliases (`UpsertPreserves`,
  `MirrorKeepsAliases`) and a mirror leaves all targets equal (`MirrorMerges`).
* **File rules**: a batch is accepted exactly when it keeps the rules as a whole,
  in whatever order its files come (`VerdictIsRight`), and the two SDKs agree where
  the rules are ordinary (`SdksAgree`).
* **Preparation**: both SDKs plan the same from ordinary settings, privacy above all
  (`PlansAgree`); a
  temporary object is found and deleted by the first cleanup from its expiry on and
  by none before (`SweepIsRight`); the parts are the file, byte by byte
  (`PartsCover`).
* **Gateway**: nobody is served a temporary object after its expiry
  (`ServedInTime`); what is served for an alias it names, or has named not long ago
  (`AliasIsBounded`); a request fails for a missing asset only if the alias was moved
  meanwhile (`AliasIsServed`).
* **Bucket adapter**: a listing is right about all that did not change under it
  (`ListingIsExact`), a delete that succeeds removed every key
  (`SuccessMeansDeleted`), a put that succeeds stored its object and found it there
  (`SuccessMeansStored`), and every call returns (`CallsReturn`).

## 2. The modules

    UploadContract            what an application is promised, per session
       ^ implemented by
    Uploads                   handler + tokens + bucket, seen by any client
       ^ extended by
    Cleanup                   ... and the two maintenance jobs

    ClientContract            what a client promises the application, per call
       ^ implemented by
    UploadClient              uploadFiles of the TypeScript client, call after call
    GoClient                  Client.Upload of the Go SDK, one call and its goroutines

    GlobalAssets              sync, upsert and mirror on several buckets
    Gateway                   requests for aliases and files, and a cache in front
    S3Store                   one call of the bucket adapter and the bucket under it
    FileRules                 validateFiles of both SDKs, side by side
       ^ extended by
    Preparation               ... and what prepare and the server API then decide

    X_proofs                  theorems about X: all but the two contracts; those about
                              FileRules are in Preparation_proofs
    MCX                       model values, symmetry and inputs for TLC

`UploadClient` and `GoClient` have a server of their own, which is `Uploads` as one
client sees it: a session is open, stored, damaged or closed.  Composing them with
`Uploads` itself would multiply the steps of the two without a new question:
`Uploads` lets its clients do anything, so what it promises holds for these too.

A definition called `XSlip` stands just before `X`.  It is `X` with one plausible
mistake and a comment naming the property that must notice; no specification refers
to it.

### Uploads

One *session* is one file of one prepare request.  Its object key contains its
random id, so sessions share nothing and the model keys everything by session:

| variable | in the code |
|---|---|
| `token`, `expires`, `retainUntil` | the payload minted by `createSessionToken` and what became of it: being minted, held by a client, or lost with its answer |
| `upload`, `received`, `object` | the bucket: multipart upload, its parts, the object (`whole` is what the second head of finalize accepts, `damaged` anything else) |
| `tracked` | the application's record, made in `onUploadComplete` |
| `acked` | a client has seen a successful finalize |
| `call[r]` | the invocation in progress: the await it stands at, the files of the batch still to do, the session and the parts it was sent, its arrival time, its answer |

An action is what runs between two awaits: `BeginPrepare`, `PrepareFile`,
`PresignParts`, `PresignFails`, `Unwind`, `PrepareFails`, `PrepareReplies` are
`prepareUploads`; `BeginFinalize`, `Probe`, `Complete`, `Verify`, `Validate`,
`RunCallback`, `CallbackThrows` are `finalizeUpload`; `BeginAbort`, `AbortProbe`,
`Abort` are `abortUpload`.  `StorageFails` is any storage call that throws, `Crash`
the end of the process at any await; an abort or complete that takes effect but
whose answer is lost is the effect followed by either.  `Deliver` is the answer
reaching the client, `Forget` its getting lost.  `UploadPart` and `PutObject` are the
client's own transfers, which may happen at any time while the URL is valid, in any
order and number, with any bytes (`Store`): a signed PUT may be repeated with other
bytes until its URL runs out, after the file was verified and recorded as well.  A
client is arbitrary throughout: it may send any set of parts to finalize, retry
anything, abort and finalize at once.  The code compares the size and type of an
object and the metadata it signed, never the bytes, so "declared" means these.

The TypeScript and the Go handler take the same steps in the same order; `map`
gives the Go lines with the disjuncts of `Handler`.

Left out: requests that are refused before anything was stored (unknown endpoint,
file rules, middleware) are requests that never arrive, so `BeginPrepare` is what
follows the middleware; encryption and signatures are assumed to work; names,
policies and metadata are compared by the code with values it signed itself.

### Cleanup

Adds `initiated` and `modified`, the times the bucket notes (an assembled object
may carry either the time of assembly or of initiation: providers differ; a repeated
PUT renews the time, `PutAgain`), and `job`, the runs in progress.  `Undated` are the
sessions of which the bucket lists no times: their uploads are aborted whatever their
age, their objects are passed over by reconcile.  A job reads the clock once (`Start`), lists, heads the
listed objects one by one, and deletes; reconcile asks the application batch by
batch and deletes each batch before the next (`CheckTracked`, `DeleteOrphans`).  A
job that throws or dies is `JobFails` or `DeleteFails` (a bulk delete that removed
some of its keys); `AbortOld` of an upload that is gone throws and ends the run, as in
the code.  The pages of one listing are read as one step.

### UploadContract

`content` of a session is what the bucket has (absent, whole, damaged), `record` how
far it has come with the application: none, verified, tracked, acknowledged, expired.
The mapping reads the one off the object and the other (`Record` in `Uploads`) off the
requests that have verified it, the record, the end of retention and what the client
was told.  What it says is in what has no transition: nothing is verified unless it is
whole and nothing tracked unless it was verified, there is no way back from tracked
and none to acknowledged but through it, nothing that is verified or recorded is
discarded, and no file is stored twice but those of `Replaceable`, the PUT sessions.

### ClientContract

`stage` of the call (idle, working, done), `entry`, the session of each file,
`confirmed`, how many files count, and `stored`, what the server has stored.  `Start`
gives each file a session of its own, `Store` and `Confirm` are about the file the
call is at, `GiveUp` ends a call that failed.  Parts, workers, retries and the resume
store do not occur.  What it says is in what has no transition: a file is not counted
before it is stored, nor before those in front of it; nothing but the current file is
stored while a call works; and a result is final.

`UploadClient` maps the call that has sessions (`Now`), if there is one; calls that
have failed are not seen, whatever their workers still do.  `GoClient` maps its one
call, with the sessions of the prepare it was answered.  A finalize that was executed
and whose answer was lost is `Store` in both.  A small file of the TypeScript client
counts as stored when its PUT has succeeded, as there is nothing to assemble.

### UploadClient

The application uploads the same files again and again until a call succeeds.

| variable | in the code |
|---|---|
| `store[f]` | the resume store's entry of a file: session, finished parts, age (`savedAt`) |
| `call[c]` | a call of `uploadFiles`: where it stands, the session of each file (`entries`), the saved parts it read (`kept`), the finished parts of the current file (`list`), the parts no worker has taken (`pending`), those being sent (`busy`), those of them that have reached the bucket (`sent`) |
| `session[s]` | the server's view: state of the upload, parts received, age |

`ReadSaved`, `Resume`, `AskPrepare`, `Prepared` are the start of a call: the
snapshot of the store, and the decision to resume every file or none.  `SendPart`,
`PartDone`, `PartFails`, `PartRefused` are the workers of `uploadPut`, `PutFile` and
`PutFails` its single PUT, `Assemble`, `Finalized`, `FinalizeFails` the finalize, `Pause`, `CancelUpload`, `Reload` the signal, `abortOnCancel` and the
page.  A call that fails while workers are busy stays in `call` as "failed" until
the last of them has gone; meanwhile another call may run.

`Begin` is an assumption about the application: it uploads these files again only when
its last call has returned.  `uploadFiles` itself does not keep calls apart, and two
that overlap share the resume store; nothing is said of them.  The saves after a
prepare are one step (`Prepared`); the code awaits one after the other.

`Wait` is time between calls, which is free; time during a call (`Lag`) counts as
a fault, because without a bound on it every call may outlast its session.  A
session nobody refers to any more is handed out again as a new one, which keeps the
model finite.  The retries within a call are one request that may be slow.

### GoClient

| variable | in the code |
|---|---|
| `at`, `file`, `tries`, `asked`, `prepared` | the call: request in progress, attempt of `retry`, the prepare attempt whose sessions it uses |
| `worker[w]` | a goroutine of `uploadPut`: take a part, try, wait for the answer, append, count, report |
| `cursor`, `failure`, `parts`, `reported` | what the goroutines share, and the progress the application has seen |
| `cancelled` | the context |
| `received`, `status` | the server: each attempt to prepare opens sessions of its own |

A step of a goroutine is what it does under one lock, or one request.  Computing the
progress takes a lock of its own and reporting it none, so the three are three
steps.  `Again` is what `retry` does after a failed attempt.  The pauses between
attempts take no time; a request that was given up is not executed later.  Parts are
taken once, so the sorted slice of finished parts is its set.  Every request is taken
to end: `http.DefaultClient`, which the client uses unless it is given another, has no
timeout, so that is up to the context or to the application's client.

### GlobalAssets

| variable | in the code |
|---|---|
| `object[b][f]` | a bucket's object under the file's checksum key: absent, as a publisher writes it (the content type it was declared to have), with the bytes but without content type and metadata (`plain`), other bytes (`foreign`) |
| `manifest[b]` | the bucket's manifest: from aliases to files |
| `publish[p]` | a run of sync or upsert on one bucket: files still to be looked at with their declared types, the manifest it read |
| `mirror[m]` | a run of mirror: what it listed and read of each bucket, the merged manifest, keys to compare and to copy, buckets to publish to |

`Head`, `Put`, `Verify`, `WriteManifest` are `writeGlobalAssetEntries` and
`writeGlobalManifest`; `ListObjects`, `ReadManifest`, `Merge`, `RefuseMerge`,
`Compare`, `Copy`, `PublishMerged` are `mirrorGlobalAssets`.  A run may die anywhere
(`PublishStops`, `MirrorStops`).  `ListsPlain` says whether the adapter's listing has
content types: the bundled TypeScript adapter's has none, the Go SDK heads each
object instead.

A key is made of namespace, checksum and extension, without the content type, which
verification compares (`global-assets.ts:107`, `:133`).  `Declared` are the types
publishers give their files: in the runs two aliases declare the same file to be of
different types, in one run or in two.

`overlapped` collects the runs that another run was beside, and `Undisturbed` is the
premise of the properties that hold of overlapping runs too: no two runs overlap, or
no key holds other bytes than its checksum says.

### Gateway

| variable | in the code |
|---|---|
| `manifest[a]`, `stored`, `expiry[t]` | the bucket: what each alias names, which keys hold an object, `raildrop-expires-at` |
| `request[r]` | a request: the storage call it stands at, its URL, the key it works on, the content its cache has (`prior`), when it began, and its answer |
| `cache[u]` | what the cache holds for a URL and until when it may serve it |
| `unnamed[a][k]` | when alias `a` last stopped naming `k`; only the properties read it |

`Resolve` reads the manifest, `Fetch` the object, `Judge` compares its expiry with the
clock and `Stamp` reads the clock again for `max-age`: the three readings may be at
three instants.  `Deliver` hands the answer to the cache, which counts its age from
then, in ticks that are finer than the seconds of `max-age`.  Answers are delivered
in any order or dropped.  `Publish` is a run of `GlobalAssets` seen from outside: the
asset is stored before the alias moves (that is `ManifestResolves` there).

### S3Store

`objects` and `uploads` are the bucket, `call` the call in progress with its
continuation, the entries read and the keys left to delete.  `TruncatedPage` and
`LastPage` are one page of a listing of objects or of open multipart uploads (whose
continuation is a key and an upload id); `DeleteChunk`, `DeleteFails`,
`DeleteUnread` and `Deleted` one chunk of a bulk delete; `Put`, `PutAnswerLost` and
`Verify` a put and the head after it, which cannot tell the object stored from an
older one of the same key.  A truncated page without a marker is refused; the bucket's
markers are taken to move on, which the adapter does not check.  Others change the bucket between the requests
(`Interfere`), and `always` and `ever` record what it has held all the while and at
some time: the properties compare the answer with those two.

### FileRules and Preparation

`Preparation` goes on where `FileRules` ends: `Prepare(s)` is what SDK `s` decides for
an accepted batch, `Upload` what the server API decides for a file.  `setup` is the
configuration of the route, the override in the middleware's metadata (a JSON value:
`Malformed` is a field of the wrong type, `Other` a string that is no policy) and the
instant; `plan` what was decided.  The operators keep what differs between the
languages: a 0 is "not set" in Go, a number of seconds may have a fraction in
TypeScript (`halves`), Go drops the whole override for one malformed field,
durations of Go wrap around after 2^63 nanoseconds and dates of JavaScript end.

In `FileRules` both SDKs walk the same batch against the same rules: `next` is the
file each is at, `counts` the files counted under each rule's key.  A limit is a number
or a text that has been parsed (`text`); `Unset` is a count or list of types that a rule
does not have.  Where the SDKs differ is in the model: sizes beyond 2^53 - 1 and 2^63 - 1
(`MaxSafe`, `MaxInt`: `SizeRefused`, `RefusedAtOnce`), a limit that is not positive, which
TypeScript refuses as a number and reads as a text (`LimitRefused`), a count of 0 and an
empty list of types.  `option` is which of its two options sets a route's time to live in
Go: `WithRetention` ignores one that is not positive, `WithTemporaryTTL` does not.

## 3. What the runs check

| run | instance | question |
|---|---|---|
| `uploads_requests` | a multipart session and a temporary PUT session, whose clients send what they like and repeat the PUT while its URL lives, 2 requests, 4 instants | do prepare, finalize, abort, retries, crashes and lost answers, interleaved at every await, keep what is recorded (`TrackedIsStored`, `AbortedIsClosed`, `TrackedInTime`), do files settle (`ObjectsSettle`), and does the server implement `UploadContract`, ends of retention included? |
| `cleanup_joint` | a temporary multipart file, both jobs, a request | do the jobs spare what was recorded (`RecordedSurvives`) and what may still be finalized (`LiveUploadKept`), keep the contract, and is `SystemInv` an invariant? |
| `cleanup_abandoned` | two multipart sessions under fairness, one of them listed without a time, one job failure | are abandoned uploads closed, although a run stops at the first abort that is refused? |
| `cleanup_leftovers` | a temporary PUT session whose client may repeat its PUT, under fairness, both jobs, one job failure | are expired objects and orphans gone in the end, those a late PUT brings back too? |
| `client_calls` | a small file and one of 3 parts, 2 workers, 2 calls, 5 sessions, 2 faults, under fairness | are parts counted that are not there, when the workers of a failed call write beside the next one (`ClientInv` and the two properties it implies); does the client keep `ClientContract`, and does an application that calls again succeed from any stale state of the store (`EventuallyUploaded`)? |
| `go_upload` | a small file and one of 3 parts, 3 goroutines, 2 attempts, under fairness | are the parts shared out, counted, reported and joined, with failures and a cancelled context anywhere; does the call keep `ClientContract`, and does it return? |
| `assets_runs` | two buckets, with or without other bytes under a key; two aliases whose publishers declare types of their own; 2 publishers and a mirror, 3 runs, one after the other or at once, dying anywhere | do aliases resolve and is nothing overwritten; are aliases kept and targets equal after runs that had the buckets to themselves; are conflicts of bytes or of declared types the only reason to refuse? |
| `prepare_files` | three types in two groups, rules for a type and its group, batches of up to 3 files, sizes and limits at the ends of what either SDK takes for one; and one file of any size with every kind of route setting, override, server upload and limit | `VerdictIsRight`, `SdksAgree`, `SweepIsRight`, `PartsCover`, `PlansAgree` |
| `gateway_caches` | an alias and two assets, a temporary object, 2 requests, 2 publications, a cache | `ServedInTime`, `AliasIsBounded`, `AliasIsServed`, and is `GatewayInv` an invariant? |
| `bucket_calls` | 4 names, pages and chunks of 2, 2 changes by others during a call, any request failing | `ListingIsExact`, `SuccessMeansDeleted`, `SuccessMeansStored`, and does every call return? |

Two more runs are expected to end with a violation; section 5 says what they show.

| run | property | statement it tests |
|---|---|---|
| `client_progress` | `ProgressKept` | the repository's README: progress persists, so interrupted uploads resume |
| `assets_plain` | `RefusedOnlyOnConflict` | the same: sync publishes to every configured bucket |

Why the bounds are enough.  Sessions share no key, token or upload, so what can go
wrong between them goes through a batch (two sessions) or a job's list (two
uploads, `cleanup_abandoned`).  Two requests give every race of a pair of handlers;
beside the jobs there is one, since the jobs race with a request and not with a pair
of them, and the theorems hold for any number.  Which parts an object is assembled
from does not decide what it holds, as a client may have sent anything, so one part is
enough.  `Horizon` is long enough for a session to be opened, to end, for a handler
begun at its end to finish, and for a job with the windows of that cfg to start
afterwards.  `Retention` is longer than the window in `cleanup_joint`, so that a
reconcile may meet a recorded file whose retention has not ended.  `MaxFaults`
bounds how often a job dies; the safety run allows one (two failures of jobs that
remember nothing add no state that one does not reach), the liveness runs need it
finite.  The liveness runs have short windows: what they ask does not depend on
`SafeWindows`.  The theorems cover what the runs have no room for: the jobs beside PUT
sessions, several files at once, and sessions listed without a time.

In `UploadClient`, two calls are the current one and one that left workers behind;
two faults are a failure and what may go wrong with the call after it; five sessions
are those of two calls and one in the store, so that a new one is always there.
With `FreshFor` = 1 and `UploadExpiry` = 2, in the order of the defaults of 50 and 60
minutes, progress may be stale while its session lives, and fresh while that has
expired (each saved part renews the age).  Three parts for two workers let one take a second part while the other is
sending, and the large file is the second of the batch, so that its saved parts are
read long before they are used.
`Attempts` = 2 tells the last attempt from the others.  In `GlobalAssets`, two aliases,
two files and two types give every conflict of names, contents and types; three runs are two publishers with a mirror beside or between them, or one of
them dead.  A `Foreign` object is there from the start, since nothing
in the repository writes one.

In `prepare_files` sizes, seconds and limits are scaled down: a day has 3 seconds, a
Go duration holds 12 and a JavaScript date 30, a part is at least 2 bytes and a file
has at most 4 parts, so that every comparison has inputs below, at and above its
bound; the largest integers are 40 and 100; the theorems hold for the real values.  Batches of several files keep the
settings at their defaults, since settings do not look at other files.  In
`gateway_caches` a second has two ticks, so that rounding matters, and an answer may
take one tick; two publications move an alias away and back.  In `bucket_calls` two
uploads share a key across a page's end, and two changes are one on either side of
the continuation.

Deadlock is not checked, since every model really stops: requests stop coming and
the clock stops at `Horizon`; calls and runs return; a verdict and a plan are final.

Fairness (only in `FairSpec`): the clock moves; a handler that has been called
answers or is cut off; the jobs are started again and again and their storage
calls return or throw.  Clients owe nothing.  Under it no request has to arrive,
which is why the liveness properties of `Cleanup` are about leftovers.

In `UploadClient` the application calls again after a failure and every request ends
with an answer or an error (weak fairness of `Begin` and of `Advance` or `Fail`:
which of the two is not said), and time passes between calls.  The last is strong
fairness of `Wait`, because the time between two calls is interrupted by calls.  In
`GoClient` the Go scheduler runs each goroutine and each request ends (a context that
ends, or an HTTP client with a timeout; the default one has none).  In `S3Store` the bucket answers the
request of a call (weak fairness of `Answered`, without the failures: it must not be a
failure that ends a listing).  `GlobalAssets`, `Gateway`, `FileRules` and
`Preparation` state no liveness: commands are run by people, requests come when they
like, and the rest computes.

## 4. What is proved

For every number of sessions, requests, parts, jobs, files, calls, workers, goroutines,
aliases, assets, keys and pages, every value of the times and limits and every set of
rules, batches and settings:

| theorem | says |
|---|---|
| `TypeCorrect`, `Invariance` | `IInv`, the inductive invariant of `Uploads`, holds |
| `RecordedFilesAreStored` | `TrackedIsStored` |
| `FilesSettle` | `ObjectsSettle` |
| `HandedOutSessionsAreUsable` | `IssuedIsUsable` |
| `AbortedUploadsAreClosed` | `AbortedIsClosed` |
| `RecordsAppearInTime` | `TrackedInTime` |
| `ContractKept` | `Uploads` implements `UploadContract` |
| `SystemInvariance`, `RecordedFilesSurvive`, `LiveUploadsKept`, `SystemKeepsContract` | `SystemInv`, `RecordedSurvives`, `LiveUploadKept` and the contract with the jobs running, if `SafeWindows` |
| `Invariance` (`GoClient_proofs`) | `IInv`, the inductive invariant of `GoClient` |
| `FinalizesCompleteFiles` | `FinalizeIsComplete` of `GoClient` |
| `GoroutinesAreJoined` | `NothingLeftBehind` |
| `SuccessMeansStored` (`GoClient_proofs`) | `ResultsAreStored` |
| `ProgressIsCompleted` | `FullProgress` |
| `ClientInvariance` | `ClientInv`, the inductive invariant of `UploadClient` |
| `CountedIsStored` | `CountedPartsAreStored` |
| `FinalizesWholeFiles` | `FinalizeIsComplete` of `UploadClient` |
| `ReportedFilesAreStored` | `ReportedIsStored` |
| `ClientContractKept` (both clients) | `UploadClient` and `GoClient` implement `ClientContract` |
| `AssetsInvariance` | `AssetsInv`, the inductive invariant of `GlobalAssets` |
| `AliasesAlwaysResolve`, `StoredBytesStay` | `ManifestResolves`, `NothingOverwritten` |
| `UpsertsPreserve`, `MirrorsKeepAliases`, `MirrorsMerge` | `UpsertPreserves`, `MirrorKeepsAliases`, `MirrorMerges` |
| `RefusalsAreConflicts` | `RefusedOnlyOnConflict`, if listings have content types (`~ListsPlain`): other bytes under the key, or the same file declared to be of two types |
| `GatewayHolds` | `GatewayInv`, the inductive invariant of `Gateway` |
| `NeverServedLate`, `AliasesAreBounded`, `AliasesAreServed` | `ServedInTime`, `AliasIsBounded`, `AliasIsServed` |
| `StoreHolds` | `StoreInv`, the inductive invariant of `S3Store` |
| `ListingsAreExact`, `DeletesAreDone`, `PutsAreStored` | `ListingIsExact`, `SuccessMeansDeleted`, `SuccessMeansStored` |
| `SweepsAreRight`, `PartsAlwaysCover`, `PlansAlwaysAgree` | `SweepIsRight`, `PartsCover`, `PlansAgree` |
| `RulesInvariance` | `IInv`, the inductive invariant of `FileRules` |
| `AcceptsWhatIsAllowed` | `VerdictIsRight` |
| `SdksAlwaysAgree` | `SdksAgree`: under ordinary rules the same batches are accepted, and refused for the same reason unless a size is beyond 2^53 - 1 |
| `StopsAtFirstObjection` | `StopsAtFirst`: a refusal is about the first file that anything is wrong with |
| `PrepareChecksFiles`, `PreparedFilesAreChecked` | `Preparation` implements `FileRules`, so both hold of what is prepared |

Argument for `Uploads`.  `TrackedIsStored` is not inductive: a finalize that has
verified its object records it two awaits later.  `VerifiedStays` says that the object
stays meanwhile, and that one assembled from parts stays what it was; that needs that
no second finalize replaces it (`StoredMeansCompleted`: the object of a multipart
session exists only when its upload is completed, and a completed upload cannot be
completed again).  Of a PUT session only the presence of the object survives, since
its client may send other bytes until the URL runs out; `ObjectsSettle` says when
that ends.  `IssuedIsUsable` needs that a batch belongs to one invocation
(`BatchOwned`) and how far that has come (`BatchProgress`).  `TrackedInTime` follows
from `WorksOnIssued` and `OnTime`.  That `Uploads` implements the contract uses both:
a verifier holds its record back only for an object it has seen, and what replaces a
recorded object is a PUT of a session in `Replaceable`.

Argument for `Cleanup`.  A job believes things about sessions it read of earlier;
`CleanerSound` and `ReconcilerSound` say which beliefs stay true.  The key is that
`Spent(s)` (retention ended, or the session is over and not recorded) is stable,
and that the bucket's times bound the session's end (`TimesNoted`), so an object
older than a window that exceeds a session plus a handler's run belongs to a
session that is over.  A repeated PUT only makes the time later.  An object without a
time is never an orphan to reconcile; an upload without one is aborted at any age, and
for those `LiveUploadsKept` claims nothing.

Argument for `GoClient`.  `FinalizeIsComplete` is about what all goroutines did
together.  `NoPartLost` accounts for every part below the cursor: it is finished, or
a goroutine holds it, or the pool has failed; and a goroutine leaves only when the
cursor is at the end or the pool has failed.  `HeldIsTaken` says that what a
goroutine holds it took, and that a part to be appended has reached the bucket.  When
all have gone without a failure nobody holds anything, so all parts are finished.
`LastOneCounts` does the same for progress: whoever appended the last part still has
to count, and will count all of them.  `ResultsAreStored` needs `StoredSoFar` (the
files before the current one) and `HasSessions`.

Argument for `UploadClient`.  The properties are about a call, but the store is
shared with calls that have failed and whose workers go on.  `OneFilePerSession` is
what keeps them apart: whatever remembers a session, in the store or in a call,
remembers it for the same file, so a late worker writes where its session belongs.
`BeliefsAreRight` then holds of everything that counts parts: the store, what a call
has read of it for later files, its list, and the parts that have been sent but not
counted.  `PartsAccounted` gives all parts of the file to the list, the workers or
those not taken, while the call has not failed; the call turns to finalize when the
last worker finds nothing to take, which uses that a set of part numbers has a least
one (`LeastPart`, from the well-foundedness of the natural numbers).  A session a
prepare hands out is new because nothing remembers it, and there is one for each file
(`FreshFacts`).

Argument for `ClientContract`.  Whether a step is seen depends on which call has
sessions, and that must be one.  This is assumed of the application (`Begin`), and
`OneAtATime` is the invariant that carries the assumption to the later steps.  Each step of `UploadClient` is
then a step of the one call (its state before and after satisfy `Moves`), or of a call
that has failed and is not seen.  A PUT or a finalize (`PutFile`, `Assemble`) is about
the current file only, and the sessions of a call that begins are one to a file
(`OneFilePerSession`); nothing else stores.  In `GoClient` a finalize stores the file and
does not damage it because it is complete (`FinalizeIsComplete`), and before its
prepare is answered nothing is stored (`ResultsAreStored`).

Argument for `GlobalAssets`.  `ManifestResolves` is not inductive, since a run writes a
manifest made from what it read and verified long before.  `AssetsInv` says what a run
may rely on between its reads and its writes.  Any run: what a publisher has verified,
or found named in the manifest, is there (`PublisherVerified`), and so is what a mirror
has compared or copied for a target it is about to publish to (`MirrorCompared`); that
lasts because bytes under a key do not change (a declared type may be refused, it is not
replaced), for which `ConflictsStay` is needed:
while a conflict is known to one run there is one in a bucket, so `Undisturbed` fails
before anything is overwritten.  A run that is alone: what it read is still so
(`PublisherAlone`, `MirrorAlone`).  `Alone` says that a run not in `overlapped` has the
buckets to itself.  `MirrorMerges` is then the end of the loop: a target that is
published has the merged manifest, and every key has been compared or copied.

Argument for `Gateway`.  `RequestOK` says of a request under way that its key was
right for its URL at its arrival or later, `AnswerOK` that the life of an answer
counted from its arrival ends by the expiry, and `CacheHolds` the same of the cache,
with the time the answer took added.  A "not modified" renews an entry only for what
the object is: that is where the entity tag is used.

Argument for `S3Store`.  `ListedSoFar` is the loop invariant of paging: what was there
all the while, up to the continuation, has been read.  `DeletedSoFar` is that of the
chunks.  `PutSoFar` says that a put that was answered with success has stored its
object, and that a head that found something read one that was there.

Argument for `Preparation`.  The plans are functions of the request (the lemma
`PlansFollow`); what remains is arithmetic of rounding division, of wrapping durations
and of the part layout, in lemmas about `DayOf`, `Duration`, `PartCount` and `PartEnd`.

Argument for `FileRules`.  `CountsAreRight` says what the loop has counted (an
induction over the batch, carried by the loop itself), `PrefixAllowed` that the files
it has let through keep the rules as a whole; a refused file breaks them for the
whole batch because using a rule for more files never makes it fit again
(`UsesGrow`).  `SdksAgree` compares two loops that may be at different files, so it
needs to know what a verdict is: by `StopsAtFirst`, a second invariant, it is the
objection to the first file that has one.  With ordinary rules the SDKs let the same files through,
and object alike where sizes are at most `MaxSafe` (`AcceptAlike`, `ObjectAlike`), so
neither can have passed the file at which the other has stopped.
`Preparation` leaves the loop's variables alone, so its behaviours are behaviours of
`FileRules` and the theorems carry over.

The assumptions are those of the constants (`SessionsAssumption`, `TimeAssumption`,
`JobsAssumption`, `ClientAssumption`, `GoClientAssumption`, `RulesAssumption`,
`PreparationAssumption`, `GatewayAssumption`, `StoreAssumption`, `AssetsAssumption`)
and, for the jobs, `SafeWindows`.  The code does not enforce `SafeWindows`: both windows default to 24
hours, `uploadExpirySeconds` may be up to seven days.  With the default session of
one hour it holds.

Only model-checked: liveness (`AbandonedUploadsClosed`, `ExpiredObjectsDeleted`,
`OrphansDeleted`, `EventuallyUploaded`, `EventuallyReturns`, `CallsReturn`), which under
fairness is out of the proof system's reach, like ENABLED.  Every other property of a
passing run is proved.  Of the inductive invariants `SystemInv`, `ClientInv` and
`GatewayInv` are run too, since they say more of their components than the properties
beside them.  The others (`IInv` of `Uploads`, `GoClient` and `FileRules`, `AssetsInv`,
`StoreInv`, and the strengthenings `StopsAtFirst` and `OneAtATime`) were found and tried
with TLC and are left to the proofs, as are `IssuedIsUsable`, `FullProgress`,
`ReportedIsStored` and `ResultsAreStored`, which follow from them.
No module declares a recursive operator: loops are state machines, so what they
compute is proved by their invariants.

## 5. Where the code and its documents disagree

* **Workers of a failed call outlive it** (`src/client/index.ts:239`, `:357`).
  `Promise.all` rejects with the first worker that fails; the others go on, beside
  the next call.  One that still waits for an answer saves the list of its own call,
  which may lack parts the current call has finished (`client_progress`): an
  interruption then loses that progress.  It may also save a session after the next
  call has finalized it and removed it from the store; the upload that resumes it is
  refused by the bucket until the entry is too old.  Neither loses or damages a file:
  `CountedPartsAreStored`, `KeepsClientContract` and `EventuallyUploaded` hold.
* **A mirrored file cannot be synced again** (`src/server/global-assets.ts:280`).
  Content type and metadata of a copy come from the listing, which in the bundled
  TypeScript adapter has none; the next sync finds the key and fails its verification
  (`assets_plain`).  The Go SDK heads each object, and there it does not happen
  (`ListsPlain = FALSE`).

* **A file sent with a signed PUT can be replaced after it was verified**
  (`src/server/storage.ts:115`, `src/server/handler.ts:337`, `:365`).  The repository's
  README says that upload keys are immutable (`README.md:38`).  The key is; what is
  stored under it is not, while the URL lives: its client may send other bytes of the
  signed size and type after the second head, or after the callback has recorded the
  file.  The model lets it (`PutObject`), and so `TrackedIsStored` says no more of a PUT
  session than that there is an object, `ObjectsSettle` when it becomes final, and
  `Replaceable` of `UploadContract` which sessions it is about.  An assembled file is
  immutable from the start.  No run of its own looks for this violation.

More that a reader of the properties should know; but for the second, the documents
do not speak of these situations:

* A batch is resumed as a whole or not at all (`src/client/index.ts:293`): if one
  file has no fresh progress, that of the others is removed and their open uploads
  are left to the cleanup job (`AskPrepare`).
* `upsert` and `mirror` publish a manifest made from what they read long before
  (`src/server/global-assets.ts:212`, `:342`), so an alias published meanwhile is
  dropped or set back.  `UpsertPreserves`, `MirrorKeepsAliases` and `MirrorMerges` are
  therefore about runs that no other run overlapped.  In the same way a mirror looks for
  a key, finds nothing and stores its copy: if another process has stored other bytes
  under it meanwhile, they are overwritten.  The repository's README says of mirror
  that it refuses to overwrite conflicting object keys (`README.md:241`); that holds
  of what it found, and `NothingOverwritten` of the case that all publishers write
  what the checksum in the key says, or run alone.
* The key of a global asset leaves out the content type, which verification compares
  (`src/server/global-assets.ts:107`, `:133`).  The same bytes under the same extension,
  declared to be of another type, are refused like a conflict of bytes.
  `RefusedOnlyOnConflict` counts that among the conflicts.
* The file rules of the SDKs differ for a limit that is not positive (Go refuses it; so
  does TypeScript, unless it is written as a text like `0KB`, when every file is
  `TOO_LARGE`), for a size beyond 2^53 - 1 (TypeScript refuses it as no safe integer, Go
  may find it within no limit), for a count of 0 and for an empty list of types.  The
  differences are in the model; `SdksAgree` says what is left.  In Go
  `WithTemporaryTTL` refuses a time to live that is not positive and `WithRetention`
  ignores it (`sdk/go/router.go:126`).
* A multipart upload that the bucket lists without a time is aborted whatever its age
  (`src/server/cleanup.ts:42`), so a client may lose it while its session lives:
  `LiveUploadKept` leaves out the sessions in `Undated`.
* Neither job looks at how long a session lives (`src/server/cleanup.ts:42`, `:57`):
  a window shorter than that takes objects and uploads from running sessions
  (`SafeWindows`, section 4).
* A listing goes on as long as the bucket gives a marker
  (`sdk/go/s3store/client.go:537`); a bucket that gave the same one again would keep it
  for ever.  `CallsReturn` takes the markers to move on.
* The SDKs differ where a setting is malformed or 0.  The override of a middleware
  with one field of the wrong type is dropped as a whole in Go
  (`sdk/go/router.go:272`) and field by field in TypeScript, so a file that the
  override makes private is stored with the route's access in Go.  `PlansAgree` is
  about well-formed settings; the difference is in the model.
* A time to live of more than 292 years wraps around in Go (`sdk/go/handler.go:309`):
  `SweepIsRight` leaves it out (`Representable`).
* An answer to a bulk delete that cannot be parsed counts as success
  (`sdk/go/s3store/client.go:435`): `SuccessMeansDeleted` leaves it out (`unread`); the
  next cleanup finds the keys again.
* A cache that revalidates by date alone may be told "not modified" when an alias is
  moved back to an older object; the caches of `Gateway` send the entity tag they were
  given, which is compared first.

## 6. Plan

Done, in the order of importance: `UploadContract` and `Uploads` with proofs;
`Cleanup` with proofs; `UploadClient` with proofs; `GlobalAssets`, `GoClient`,
`FileRules`, `Gateway`, `S3Store` and `Preparation` with proofs; `ClientContract`, proved
of both clients.

Worth doing next:

1. A contract between publishers and readers of global assets: what `Gateway` takes of
   `Publish` for granted (an asset is stored before its alias moves) is
   `ManifestResolves` of `GlobalAssets`, but no theorem joins the two.
2. Caches that revalidate by date alone, in front of `Gateway`.
3. Calls of `uploadFiles` that overlap by the application's choice and share the resume
   store; today `Begin` of `UploadClient` rules them out.

## 7. What is not modelled, and why

* Encryption, signatures, canonical JSON, XML and S3 encodings (`session.ts` and
  `session.go` but for the expiry, `sdk/go/jsjson.go`, `sdk/go/s3store/sigv4.go`), the
  formatting of object keys and namespaces, the parsing of sizes, names and content
  types: formatting, compared with fixtures by the repository's tests.
* The route builder, whose methods return changed copies; signed URLs, copies and
  listings of the server API, which pass one call on to the bucket; the reading of
  files and environment, `health` and `cors` of the command line; the adapters to web
  frameworks and the React and Expo wrappers: configuration and glue without a state
  of their own.  (The React hook has one flag, `isUploading`, which the first of two
  overlapping uploads to end clears while the other is running.)
* Ranges, content headers and paths of the gateway, permanent files (cached for ever)
  and presigned download URLs.
* The in-memory storage, which is used by tests only.
* Paging inside the jobs and runs of `Cleanup` and `GlobalAssets`: there a listing is
  one step, `S3Store` shows what it may contain.  Retries inside the AWS SDK, rate
  limits, the CORS rules of a bucket.
* Checks that refuse a request before anything is stored: in `Uploads` such a request
  never arrives; the file rules and policies among them are `FileRules` and `Preparation`.
