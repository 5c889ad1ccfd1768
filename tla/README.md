# rldyour-clipboard, specified

TLA+ models of the clipboard daemon and of the parts of its clients that it
depends on, model-checked with TLC. With TLAPS it is proved, for every value of the
constants, that the archive is safe, keeps its budget, leaks nothing and implements
what it promises, that a pin outlives power cuts (its
files where directories can be synchronized), that one daemon serves, and what the
session, the broadcasts, the native watchers and the picker are for.

    tlc -workers 2 -config StoreFaults.cfg MCStore     # any of the runs below
    tlapm StoreProofs.tla                              # the proofs

Line references below are to the repository's files.

## 1. The system

A daemon keeps an archive of everything copied. Watchers feed it, clients browse
it over a local socket, and everything a client learns later comes as broadcasts.

| component | its state | its operations | whom it meets |
| --- | --- | --- | --- |
| Store, `daemon/src/store/mod.rs` | budget, retention, the index mutex | `accept`, `incoming`, `commit`, `discard`, `sweep`, `set_pinned`, `remove`, `clear`, `expire_before`, open and `reconcile` | called by every session, native watcher and by maintenance |
| Index, `store/index.rs` | SQLite: entries, parts, thumbnails, `blob.refs` | one transaction per operation: `touch`, `insert`, `evict_to`, `expire_before`, `remove`, `clear`, `set_pinned` | under the Store's mutex |
| Blobs, `store/blobs.rs` | one file a digest, `incoming/`, the lease registry | `writer`, `finish`, `remove`, `sweep_incoming`, dropping a lease | under a mutex of its own |
| Files and flushes, `storage_fs/` | none | `sync_file`, `sync_parent`, `sync_directory`, `private_open` | called by Blobs, Store and pins |
| Session, `session.rs` | role, open drafts, its place in the stream | greeting, `begin`, `part` whole or in chunks, `commit`, `abort`, `fetch`, queries, edits | Store, its Outbox, Watchers |
| Outbox and Watchers, `outbox.rs` | a socket's writer lock; per watcher a queue of 64 and a worker | `send`, `send_blob`, `broadcast`, `add`, drop | every thread that changes the archive |
| Server, sockets and Maintenance, `server.rs`, `net.rs`, `maintenance.rs` | the socket's name, `daemon.lock`, the count of connections, the time since the last | bind or inherit, lock, open, reconcile, accept, serve; expire, exit when idle | other daemons that start, Session; the service manager keeps the socket |
| Capture, `capture/` | per platform: on X11 the window, its property and its event queue, on macOS the change count last seen, on Windows nothing | convert, read, incremental transfer, reconnect; poll, open, read; `Recorder::record` | selection owners, other programs at the clipboard, Store, Watchers |
| Kinds, `kind.rs`, `extension/lib/mimes.js` | none | `is_sensitive`, `recordable`, `rank`, `classify` | every watcher, Store |
| GNOME client, `extension/lib/client.js` | the connection, the pending requests, the chain of writes | `_request`, `part`, `_dispatch`, `_connect`, `_retry` | a Session |
| GNOME capture and restore, `extension/lib/capture.js`, `restore.js` | the event queue, the markers of its own restores | `_onOwnerChanged`, `_record`, `_recordOne` | the compositor, the client |
| Picker and indicator, `extension/lib/picker.js`, `indicator.js` | the rows shown, the cursor, the generation, tab, kind and query | refresh, load, scroll, filter, search, `onArchiveEvent` | the client |
| macOS menu, Python CLI | nothing between two questions | one request at a time | a Session |

What is hard here:

* *Collection beside recording.* Contents are shared by digest, between rows, a
  row's parts and thumbnails. Counts are kept by hand in SQL, leases in memory,
  files on disk, each under another lock, and `commit()` works between two
  critical sections. A sweep runs on a list of orphans that is stale when used.
* *Durability by halves.* An ordinary commit is in the log and not on the disk, a
  published or unlinked name is in memory until its directory is written, and a pin
  must hold all the same.
* *Starting beside another.* The socket's name outlives its process and the lock does
  not; a daemon binds first and locks second.
* *One stream, two writers, and payloads in it.* A session must skip exactly what
  it refused, and the notification worker writes beside it.
* *Broadcasts* leave after the lock that ordered the changes was given up, through
  queues that may overflow, to readers that may not read.
* *Selections* are read by conversions that carry no identity: answers come late,
  never, in pieces, or from the next owner. A macOS pasteboard is read type by type
  while anybody may replace it; a Windows clipboard may be open elsewhere.
* *A list over pages and broadcasts.* A page overtakes the broadcasts of changes it
  does not know of, or is overtaken; ids are used again; a refresh finds a load
  running.
* *The extension* writes a part as many asynchronous writes while others ask and
  the daemon may exit.

## 2. The modules

| module | what it is | checked by | proved in |
| --- | --- | --- | --- |
| `Index` | the transactions of `index.rs`, as expressions on one record | through Store | `IndexProofs` |
| `Store` (`MCStore`: instances) | Store, Blobs and the threads that use them | `store_*` | `StoreProofs` |
| `Archive` | what the archive promises: a shelf of entries | refined by Store | `StoreProofs` |
| `Durable` (`MCDurable`) | the archive over a log and file names that a power cut may take back | `durable` | `DurableProofs` |
| `Launch` (`MCLaunch`) | daemons starting, dying and retiring beside one another | `launch` | `LaunchProofs` |
| `Session` | one connection's conversation, byte by byte where payloads are | `session` | `SessionProofs` |
| `Watch` | changes, answers, broadcasts, queues, workers, watchers | `watch*` | `WatchProofs` |
| `Picker` (`MCPicker`) | picker.js over the archive's pages and its broadcasts | `picker` | `GnomeProofs` |
| `Selection` | the X11 watch, its server and its owners | `selection*` | `CaptureProofs` |
| `Native` (`MCNative`) | the macOS and Windows watchers, and Recorder | `native` | `CaptureProofs` |
| `Kinds` (`MCKinds`) | which names are archived, ranked, refused, and how they are shown | `native` | `CaptureProofs` |
| `Extension` | capture.js over client.js over a daemon that comes and goes | `extension` | `GnomeProofs` |

Store and Durable extend Index. Store's `Spec` implies `Promise!Spec`, an instance of
Archive under a mapping that forgets files, counts, leases, locks and threads
(`KeepsPromise`). The other modules meet at their edges and repeat only what they
need of each other: Watch takes the archive as the set of live and pinned ids, with
the changes Store makes of it; Session takes a call of the store as succeeding or
failing; Extension takes of Session what a client sees that keeps the grammar;
Picker takes of Watch that a page and a broadcast may overtake one another; Launch
takes of Store the temporaries of the daemon that has the archive.

### Index and Store

A row is what it holds: a function from slots to parts, the thumbnail one of the
slots. `refs` is `blob.refs`, `at` the timestamp, `pinned` and `live` the rest.
`Insert`, `Touch`, `Release`, `Victims` and `Expired` are the transactions; each is
one expression, for SQLite makes each one step.

In Store a thread is a session, a native watcher or maintenance, and `pc` says
where in the code it is. Everything under the index mutex is one step, except
`sweep()`: it holds the mutex over several unlinks, and meanwhile `Writer::finish`
takes the lease mutex only, so each file swept is a step (`Sweep`), as is every
`Publish`. `commit()` is the steps `BeginCommit` (the budget), `Look` (first
lock), `Derive` (thumbnail, no lock), `Record` (second lock: look again, insert or
touch, evict), `DropDerived` and the sweeps. Errors return by `?` as they do in
the code: `LookFails`, `DeriveFails`, `RecordFails`, `EvictFails` each leave behind
what the code leaves. `Crash` clears memory and keeps disk and database;
`Restart`, `Reconcile` and `Serve` are the order of start-up.

Abstracted: a digest is its content; bytes are `Size[d]`; the kind, source and
preview of a row are not kept; a thread has one draft at a time (the four of a
connection meet in Session); the temporary of a thumbnail and the transcoder's
scratch file are not counted. A crash here loses memory only; Durable has the
power cut.

### Durable

`log` is the index after each commit, from the last that is surely on the disk to
the current one: `Commits` appends (`synchronous=NORMAL`, `index.rs:45-60`), or a
checkpoint makes everything sure; `CommitsFull` is what `set_pinned` does with
`synchronous=FULL` (`index.rs:388-403`). `loose[d]` says what a power cut may leave
of the name of file d: a rename or an unlink adds an outcome, `SyncPinned`
(`blobs.rs:109-118`) leaves one where `posix` holds, and changes nothing where it does
not: on Windows `sync_dir()` is empty (`storage_fs/windows.rs:16-18`). `posix` is chosen
at first and never changed, so that each run and each proof has both platforms.
`PowerCut` takes any prefix of the log and any of the outcomes, each by itself; `Crash`
takes neither. `promise` is what each pin that
was answered is to keep, until a client takes it back. A pin is its steps: `Pin`
(lock, look), one `SyncPinned` a digest, `CommitPin`. One client works at a time,
since Store has the threads; which rows an eviction or an expiry takes is left open,
so a drop is any set of unpinned rows.

Calls fail here as they do in the code, and what they leave is `stray`: a commit that
fails after `derive()` sweeps its parts and not its thumbnail (`CommitFails`,
`mod.rs:258`), a commit whose answer cannot be sent sweeps its thumbnail and not its
parts (`Hangup`, `session.rs:502`), a sweep that fails gives the file up
(`SweepFails`), and a `reconcile()` that fails is reported and served after
(`ServeUnreconciled`, `server.rs:27-31`). The next one that is done takes them all.

### Launch

A process goes `bind`, `probe`, `unlink`, `rebind`, `listen`, `permit`
(`net.rs:53-96`), or is handed the manager's socket; then `open` (the lock, `store/mod.rs:116-132`),
`sweep`, `reconcile`, `serve`. Each system call that looks at or changes the name
is a step, bind(2) and listen(2) each one: a socket refuses (`Refuses`) when its
process is gone, and also when it does not listen yet. `name` is what lies there: a live process, a stale socket, a file, the
manager's. Ending (`End`) leaves the name stale, drops the lock and leaves a
transfer's temporary over.

### Session

`input` is the stream the client has sent: frames, and one token a payload byte.
`Take`, `TakeByte`, `DrainByte`, `ChunkFrame` consume it as the code does, and
`part` is the part or payload under way. `reader` is what the client makes of the
output: which requests were answered, and whether a payload came whole. A client
sends whatever the protocol allows, out of turn too (`misuse`), ahead of the
answers by `Window` tokens, and hangs up anywhere.

### Watch

`shelf` is the archive, `told` what all broadcasts so far add up to, `heard[c]`
what client c has made of those it read. A change and its broadcasts are separate
steps, as the lock is given up between them; `Deliver` fills a queue or, when it is
full, shuts the connection. `Record` is a commit of a copy that is new, with what it
evicts, itself perhaps; `Touch` one of a copy that is held, which evicts nothing, as the
first lock returns an empty list (`mod.rs:237-246`) and the second finds the archive
within its budget; a store call that fails changes nothing here and is left out.
`Notify` is a queue's worker; `Answer`, `ReadList` and
`SendList` are the session's own writes, past the queue.

### Picker

`shelf` is the archive with what `list` sorts by; `Page` is the query with its
cursor (`index.rs:219-308`), `Serve` the session's answer, which a full frame may cut
short. `asked` is the request under way with the page once it was read, `stale`
whether the generation has moved on, `events` the broadcasts on their way. `Land`,
`Settle` and `Refresh` are `_load` and `refresh`; `Hear` is `onArchiveEvent`.
`ghosts` and `lost` are history: rows that landed after the event that ends them, and
a page read past a cursor that was gone.

### Native and Kinds

The platform is chosen once. On macOS `count` is `changeCount`, an application
claims the pasteboard and fills it type by type (`Claim`, `Give`), and the watcher
polls, looks at the types, reads them one a step and compares the count (`Poll`,
`Look`, `ReadOne`, `Check`). On Windows one process at a time has the clipboard open
(`holder`), a change posts a message when it is closed, and the watcher opens, reads
and closes. `Record` is `Recorder::record_borrowed`, with any representation refused
by the store. `short` is history: what is on the clipboard could not be read whole.
Kinds is `kind.rs` as operators, which `MCKinds` compares, in assumptions TLC
evaluates with the run, with what they are for: `FilterIsRight`, which says of an offer
and its places what `recordable()` does name by name; `FilterIsStable`, that filtering
twice is filtering once; `BestIsFirst`; and `HintsAgree`, that what the daemon refuses
as a secret the extension has refused (the extension trims a hint, the daemon does
not). What is kept is trimmed (`Trim`, `kind.rs:130`). `Take` is the body of its loop, and `Ranked` the stable sort of the library, which
puts a name behind as many as come no later.

### Selection

`pc` follows `run`, `read_clipboard`, `read_one`, `convert` and `wait_event`; the
server keeps one property, a queue of events in order, and the conversions its
owners have not answered. A copy is a number and its content a set of pieces each
naming its copy, target and chunk, so an archived entry shows what it was made of.
`excused` and `muddled` are history: whether a copy's reading was disturbed by
others, and whether a stray answer is still about. `stage` is the watch's place and
`collected` the parts it has; a name that Native has too begins with `X11` here, as one
module proves both.

### Extension

A job is one run of `_record()`, numbered as the copy whose event started it. It
waits in the capture queue (`Turn`), begins a draft, transfers and streams one
representation after another, and commits or aborts. `chain` is the client's chain of
writes, with the connection each was queued for; `pending` the requests without an
answer; a link is one connection, `up` and `down` what is on its way. The daemon
accepts or turns away (`Accept`), takes a frame at a time (`Take`), and ends a link
by breaking or by the idle exit (`FindIdle`, then `Exit`, with an accepted
connection in between). A part is its head, one chunk and its terminator: the
shortest in which each kind of frame can be the last one written. Reading a
representation (`transfer_async`) ends or fails in one step, at some moment
between two answers; see the hazard about owners that do neither.

## 3. What is checked

All runs finish; the state counts are of distinct states.

| run | bounds | shows |
| --- | --- | --- |
| `store_faults` | 2 threads, 2 ids, one representation a draft: a picture, its thumbnail or a text; 2 seconds; crashes, failing calls, hang-ups (587,858) | `TypeOK`, `CountsExact`, `NoHole`, `TemporariesOwned`; the steps `PinnedSurvives`; the refinement `KeepsPromise` |
| `store_collect` | 2 threads, 2 ids, drafts of a picture, a text or both; crashes only (62,524) | `NoLeak`, `WithinBudget`, and the liveness `OrphansCollected` |
| `durable` | 1 client, 2 ids, a picture, its thumbnail and a text, 2 commits not surely on the disk; Unix and Windows; failing calls, hang-ups, crashes and power cuts anywhere (2,613,080) | `PinsLast`, `NothingLeaks` |
| `launch` | 3 processes, 6 starts, 2 deaths; a name free, stale, a file or the manager's (10,584 up to symmetry) | `OneServes`, the steps `OwnTransfers` |
| `session` | 3 requests of up to 2 bytes, 2 chunks, 1 broadcast; store failures, hang-ups, misuse (693,218) | `Aligned`, `InOrder`, `PayloadWhole`, `ClosedAborts` |
| `watch` | a client that does everything and a native thread, one id, queue and socket of one frame, hang-ups (155,776) | `NoGap`, `NeverBlocked` |
| `picker` | 2 ids, 2 copies, 2 seconds, pages of 2 that may be cut to 1, 1 broadcast on its way, 2 tabs, 1 kind, 1 query, reconnections (3,925,890) | `RowsTrue`, `ListRight`, `PageUnderWay` |
| `selection` | 2 copies of one representation, whole, empty or in 2 chunks; refusals, silence, late answers, copies at any moment, one lost connection (523,330) | `OneCopyAtRest`, `CopiesCaught`, `ComesBack` |
| `native` | 3 copies (a text with a flag, a picture in two forms, a secret), 4 changes, any representation refused (112,080) | `OneCopy`, `NoSecret`, `Caught`; the rules of Kinds over lists of 4 of 14 names |
| `extension` | 2 copies of 2 representations, 1 request of the picker, 2 connections; broken and refused connections, idle exit, failing transfers, a refusing archive (297,824) | `OneDraft`, `OneOpen`, `Legal`, `GoesOn` |

And these, in which the code does not do what is said of it:

| run | property | what happens |
| --- | --- | --- |
| `watch_order` | `WatchersLearn` | a commit evicts its own copy, which does not fit; another thread records one under the id that came free and announces it first; the removal told after it ends the new entry for the watchers, who stay without it for good (`session.rs:507-508`) |
| `selection_rush` | `OneCopyEach` | a copy made during a read leaves an answer over, which the next conversion takes for its own: `convert()` does not compare the notification's target (`x11.rs:276`) |

`PROJECT.json` quotes each line in full. Every property of a passing run has a
mutant: a deviation of one definition (named in comments as such, never used by
`Next`) under which the same run finds the property violated.

Six more configurations lie beside these and are not among the runs. Each ends, by
design, in the counterexample it is about:

| configuration | property | what happens |
| --- | --- | --- |
| `StoreLeak.cfg` (`MCStore`) | `NoLeak` | a draft that names one mime twice fails in `insert()`; its thumbnail's file is left until a restart, though "failed and abandoned drafts ... remove unreferenced bytes" (`docs/quality.md:7-8`) |
| `StoreFutile.cfg` (`MCStore`) | `EvictionBuysRoom` | a copy that fits the budget but not together with its thumbnail evicts every older row and then itself, though "nothing is worth emptying the whole archive to hold" (`mod.rs:166-167`) |
| `SessionTorn.cfg` (`Session`) | `PayloadWhole` | a payload cut short leaves the lock, and the next event lands inside it, though "a payload never interleaves with another frame" (`docs/protocol.md:49-51`) |
| `ExtensionRush.cfg` (`Extension`) | `OneCopy` | `_record()` transfers from whoever owns the clipboard by then: one entry of two copies, though "two transfers" must not be "interleaved into one draft" (`capture.js:111-113`) |
| `DurableHole.cfg` (`MCDurable`) | `NoHole` | a copy is recorded, a power cut takes the file's name and leaves the row, and the daemon serves it without its content, though "a blob is on the disk before anything in the index points at it" (`blobs.rs:251-252`). Rows that are pinned are spared |
| `LaunchSteal.cfg` (`MCLaunch`) | `NeverUnlinksLive` | a process probes a socket that is bound and not yet listening, takes it for stale and unlinks it (two that find one name stale can do the same to each other), though "Never unlink another live daemon" (`net.rs:86`). The lock lets one of them go on, perhaps the one whose name is gone |

What the properties of the passing runs excuse, since the code does not promise it:

* *Picker.* A row whose page was read before a removal and landed after its event
  stays until the next refresh (`ghosts`). When the cursor's row is gone, or its id was
  used again, a page may skip rows and the list still takes itself to be complete
  (`lost`). A list that removals have emptied says that nothing is there without
  asking for more. The order of rows is not claimed: a page newer than events on
  their way may be followed by an older row on top.
* *Native.* A copy found while another process has the Windows clipboard open is
  lost: nothing asks again. `changeCount` moves when the pasteboard is claimed, so data
  given after the poll is missed. Both are `short`.
* *Launch.* That the process that serves can be reached by the name.
* *Durable.* Rows that are not pinned: they may go, or come back without content. On
  Windows the files of pinned rows too: a power cut may take a name that no call has
  made certain (`docs/quality.md:15-17`). And the strays, until a `reconcile()` is done.

### Why the bounds are enough

Each bound is the least in which the case of interest occurs with another one
beside it. *Store:* two threads, since each race here is of one thread's section
with another's; two ids, so that a row is evicted while another stays, and is
reused; three contents of which two fit the budget, so that everything shares and
everything evicts. Two seconds, so that a row is older than another and expires while that one
stays (`store_faults`); one where time decides nothing. A thumbnail that is itself
copied shares its content with the picture's row, and a draft of two
representations with the rows of each: the first is in `store_faults`, the second
in `store_collect`. A draft that names one mime twice is in `StoreLeak.cfg`; a clock
that is set back is in no run and in every proof. *Session:* three requests, so that a refused part
has one before and one after it; two bytes, so that a payload breaks between them;
the limits of four drafts and eight parts are constants, here one and one. *Watch:*
queue and socket of one frame overflow and block at the second event; the queue's
64 are only more of the same. *Durable:* a log of two, so that a power cut takes a
commit and leaves one; two rows that share a digest, one pinned. *Launch:* three
processes, so that a third meets the race of two; two deaths, so that a stale name
comes up again. *Picker:* two ids, so that one is removed and used again while another
stays; pages of two that may be cut to one, so that a list is loaded in pages and
whole; one broadcast on its way, since a page overtakes it or not. *Native:* four
changes, so that several fall into one read and one comes after it. *Selection:* two copies, since a stray answer needs
one to leave it and one to take it; two chunks, so that a transfer is left between
them. *Extension:* two jobs, since draft numbers begin again with each connection
and one job's late frames could meet the other's draft; two connections, so that
everything queued can outlive its connection.

### Fairness

* *Store*: `WF` for each thread that is inside an operation (`Proceed`), `SF` for
  one that wants the index mutex (`TakeLock`: std's mutex is not fair, but a waiter
  is not passed over for ever while the mutex keeps coming free), `WF` for start-up.
  No fairness for clients, faults or the clock. `OrphansCollected` assumes besides
  that crashes end.
* *Session*: `WF` for its thread. A client that has not hung up owes nothing.
* *Watch*: `WF` for every thread that has something to tell and for each worker. A
  write to a socket nobody reads ends after two seconds (`server.rs:95`): that is
  what makes `SessionEnds` and the worker's failure fair. Clients owe nothing.
* *Selection*: `WF` for the watch's thread, its timeouts with it, and for owners:
  one that has not fallen silent answers. Falling silent is a step they may take.
* *Extension*: `WF` for the shell's main loop (the client, the jobs) and for each
  session's thread. Breaking, exiting and copying are under no fairness.
* *Durable*, *Launch*, *Picker*, *Native*: safety only, no fairness. `OneServes`,
  `ListRight` and `Caught` say what holds at rest.

## 4. What is proved

Every theorem holds for any constants that meet the assumptions of its module, and
every assumption is evaluated by a run. `StoreProofs` proves, for any constants that meet `IndexAssumption` and
`StoreAssumption` (finitely many threads, slots and digests; a budget, a retention
and a batch; any subset of the faults):

| theorem | |
| --- | --- |
| `Inductive` | `Spec => []IndInv`, the parts below and what holds them together |
| `TypeCorrect` | every variable keeps its type; no count or lease goes below zero |
| `CountsAreExact` | `blob.refs` and the lease registry equal the number of places that name a digest |
| `ArchiveHasNoHole` | what a row names or a draft holds has its file |
| `IdentitiesAreUnique` | no two rows have the same content |
| `TemporariesAreOwned` | while the daemon serves, a temporary is a transfer's |
| `PinnedRowsSurvive` | only an explicit removal takes a pinned row or changes what it holds |
| `PromiseIsKept` | Store implements Archive: each step is one of its steps or a stutter |
| `BudgetIsKept` | unless calls fail, the rows' bytes, pinned ones included, are within the budget |
| `NothingLeaks` | where only crashes and the clock disturb it, every file has a row, a lease or a sweep to come |

*The argument.* None of these is inductive alone. `NoHole` rests on the collector
removing only what has neither references nor leases (`Removable`), hence on the
counts being exact; the counts stay exact only if a row that is gone holds nothing
and a thumbnail is leased only between `Derive` and `DropDerived`; and
`OneRowPerIdentity` holds because `Record` looks again under the second lock.
`IndInv` is the conjunction of these with `Settled`, which names the rest: who may
hold the mutex between steps, that a transfer has a slot to end in, that start-up
has removed the temporaries.

`IndexProofs` has the lemmas on data: counting occurrences over finite sets
(`DisjointUnion`, `RowsReplaced`) and what each transaction does to the counts
(`TouchSound`, `InsertSound`, `ReleaseSound`), from which
`UnreferencedIsUnnamed` follows: a count of zero means nobody names it. The counting
is over sets of (row, slot) pairs so that no fold and no induction is needed.
`StoreProofs` then takes `IndInv` apart: `IndexKept`, `DraftsKept`, `FilesKept`,
`IdentitiesKept`, `PlacesKept`, `ThreadsSettledKept`, `HolderKept` and
`TemporariesKept` each show one part preserved by every action, under `NextIndInv`.
`IndInv` and `OneRowPerIdentity` are no longer checked by a run of their own:
the theorems say more, and `KeepsPromise` fails with the same mutant as the second.
All but the last two theorems hold for every set of faults. `BudgetIsKept` assumes
`"io" \notin Faults`: an eviction that fails leaves its row, as the code has it.
`NothingLeaks` assumes that the faults are among crashes and the clock;
`StoreLeak.cfg` shows why failing calls are left out. Crashes are not:
`Reconcile` collects what they leave.

*Sums.* `Bytes` adds up the sizes of the contents that are named, by a fold, and so has
no equation the provers could unfold. `IndexProofs` gets one: were there a set of
contents that does not lose the size of one of them when that one is taken out, there
would be a smallest, and for that one it does after all (`TotalWithout`). From it come that
less weighs less, and `EvictionFits`: if what is pinned fits the budget, so does what an
eviction leaves.

*Leaks.* `NoLeak` needs that the lists are kept by those who hold them: what a
transaction stops naming is on the list its thread goes on to sweep, a lease that is
dropped leaves its digest on one too, and `Sweep` drops a digest from a list only
after it has removed the file or seen it named.

*The refinement.* Under the mapping `Insert` and `Touch` inside `Record` are the
archive's recording, `Remove`, `Clear`, `Expire` and the eviction its removals,
`SetPinned` its pinning; everything between two locks, every sweep, crash and restart
leaves the shelf alone. What makes it more than bookkeeping is that a row recorded
under the second lock is the only one of its content, that an id that is given out
was free, and that an eviction spares what is pinned: these are parts of `IndInv`.

`DurableProofs`, for any slots, digests, ids and length of the log:

| theorem | |
| --- | --- |
| `DurableInductive` | `Spec => []IndInv` |
| `DurableTyped` | every variable keeps its type; the files there are among the outcomes a power cut may leave |
| `PinsOutlivePowerCuts` | an acknowledged pin keeps its row; and its files, where directories are synchronized (not on Windows) |
| `NothingIsLeaked` | in a daemon at work every file is named, leased, about to be swept, or a stray of a failed call or a client who hung up |

`PinsLast` speaks of the present and is lost at the next power cut unless the past
holds it as well. `PromisesSafe` is that: every index still in the log has the pin and,
where `posix` holds, every digest of it can only be there. It is kept by `CommitPin` because the commit
cuts the log to one and because `PinSafe` says that what was flushed stays flushed
while the pin is under way, which holds as a pin keeps the index mutex and only a
sweep, under the same mutex, unlinks. Elsewhere it is kept because a drop spares
pinned rows and the counts of each index in the log are sound (`Index!Sound`, with
`ReleaseSound` and its siblings), so that no sweep takes a promised file.

`LaunchProofs`, for any processes and bounds:

| theorem | |
| --- | --- |
| `LaunchTyped` | every variable keeps its type; one process at most is inside the archive |
| `TransfersAreTheirOwn` | only the daemon at work ends a transfer of its own |
| `SomebodyServes` | when all that were started have settled and none has died, one serves |

`TypeOK` is inductive: whoever is inside holds the lock, whoever has a transfer
serves. A sweep is of one that holds the lock, so nobody else serves. `SomebodyServes` rests on `Coming`: while nothing has broken, somebody is past the
lock, or the name is a live process's (listening or not: a probe that refuses leads to
a bind of one's own), or somebody is about to bind or to free it; and
on `Kept`, that a file or the manager's socket is not touched.

`CaptureProofs` proves the modules of the capture; it extends the three. For Native, for
any copies, offers and marks:

| theorem | |
| --- | --- |
| `NativeTyped` | every variable keeps its type; the Windows clipboard is open exactly while it is read |
| `EntriesAreOneCopy` | an entry is of one copy |
| `SecretsStayOut` | no entry holds a part of a marked copy |

The invariant ties what was read to the count it was read under: while the count is
still the one that was seen (macOS), or while the reader has the clipboard open
(Windows), everything read is of the copy that is there, and that one is no secret.
Where the count has moved nothing is said of the parts, and `Check` throws them away.
`Caught` needs besides what the watcher owes (`Catching`): while it has noticed the
last copy and nothing excuses it, all that it passed and wanted was read, so that
what it records is the copy whole.

For Selection, for any representations, forms, numbers of copies, chunks and losses, and
any subset of the faults:

| theorem | |
| --- | --- |
| `SelectionTyped` | every variable keeps its type; what is read belongs to a stage of reading |
| `EntriesAtRestAreOneCopy` | an entry whose reading no leftover answer could reach is one copy's, whole and under its own names |

X11 gives an answer no identity: the invariant (`X11Inv`) says where an answer of which
conversion can be. Unless an answer is left over (`muddled`), all that is under way
belongs to one conversion of the latest copy (`Placed`): it has not been answered
(`Unanswered`), or it was and the property holds what was asked for (`Answered`), or it
never will be (`InVain`). A transfer is followed through its stages the same way: its
owner waits, or a chunk is on the property, or the end is. Elsewhere nothing is under
way but a notice of the watch's own deletion. Then what the watch takes is what it
asked for, and what it has collected is the latest copy's (`Gathered`). `muddled`
entries are excused, and rightly: `selection_rush` shows one that mixes two copies.
`muddled` ends with a copy that is made at rest or with the connection, and the step
that ends it must find everything in its place again: `Orderly`, which holds always,
has the little that this needs.

For Kinds, for any names, keys and limit, and every list of names:

| theorem | |
| --- | --- |
| `FilterSound` | `FilterIsRight`: the content on offer is kept, each key once and as first spelled but for outer blanks, the best first, up to the limit |
| `FilterStable` | `FilterIsStable`: what was kept is kept again, in the same order |
| `BestSound` | `BestIsFirst`: a preview is made of the first of the kept parts that can carry it |

The loop is a fold, and the table argument of Watch serves it: after k names, what was
taken are the first places of content among these, in order (`Accepted`). The sort is
sound because places are distinct: of two names one comes no later than the other,
so that its set of such names is the smaller one (`PlaceOrders`); as many places as
names are then all taken, by counting. That filtering is stable is that places which
grow and are no more than there are names are the names' own (`Grows`), and that a
trimmed name has nothing left to trim (`TrimIs`); it has the key, and so the rank, that
it had (`TrimmedIs`).

`WatchProofs`, for any clients, threads, ids and bounds of queue and socket:

| theorem | |
| --- | --- |
| `WatchTyped` | every variable keeps its type; no queue and no socket holds more than its bound |
| `NothingMissed` | what a watcher has heard, with what is on its way to it, is all that was broadcast |

`NoGap` follows the events in a socket, in a worker's hands and in a queue, one after
the other: a fold over a sequence. Two facts about it are needed, that following two
sequences joined is following one and then the other, and that following a tail goes
on from the head's effect. Both are proved of the table of the fold: the least prefix
at which they fail is not the empty one, and its last event shows that it is no
failure (`FollowsAgree`, and those after it). A step then moves an event from one of
these places to the next, or appends one to all queues at once, or ends a connection.

`GnomeProofs` proves both modules of the GNOME extension; it extends the two, which is
why the names they would share begin with `Ext` in Extension (`ExtSpec`, `ExtTypeOK`).
For Picker, for any ids, copies, kinds, pages and bounds:

| theorem | |
| --- | --- |
| `PickerTyped` | every variable keeps its type; no id has two rows on the screen |
| `RowsStandForTheirEntries` | a row shows its entry as it is, or the event that ends it or changes it is on the way |
| `NoRefreshIsLost` | a list that waits for its first page has a request under way |
| `ListIsRight` | at rest the list shows the newest of what belongs on it, and all of it once it takes itself to be complete |

`RowsTrue` needs the same of everything that could become a row: of a page that was read
and not yet landed, and of the events not yet heard, each only as far as the events
after it leave it standing (`Truthful`, `Heralded`, `Carried`). A page read on a connection
that is gone lands nowhere (`Severed`), and one of another tab is stale (`SameTab`).
A page is added row by row, by a fold; the table argument of Watch serves again.

`ListRight` says nothing of a list that is not at rest, and a list seldom is: changes are
told while a page is on its way. `ListInv` divides the archive instead. An entry that
belongs on the list is on it, or an event to come tells of it (`ToCome`), or it comes
after every row's entry and after the cursor (`Divided`); and of a page that was read, the
same with the page in the rows' place (`PageDivided`). The division is made by
`list()`, which reads what comes after the cursor in order: a page that is cut leaves
out only what comes after all of it, and one that is not cut leaves out nothing, which is
a fact of counting (`PageTakes`). It survives a change because a change reorders
only the entries it tells of in its one event; whatever it does not tell of keeps its place
and stays after what is new (`Accounted`, `Unshaken`). It survives an event because
what the event takes from or puts on the list is what the archive holds, or another
event follows (`Returned`, `Topmost`). It survives a landing because the page was asked
for this list and this cursor (`Fitting`), or is thrown away. A cursor that is gone, and the rows
that were removed before their page came (`ghosts`), break the division in the code
itself: `ListRight` excuses them, and the hazards say so.

For Extension, for any number of copies, representations, requests of the picker and
connections, and any subset of the faults:

| theorem | |
| --- | --- |
| `ExtensionTyped` | every variable keeps its type; no job makes more requests than its copy accounts for |
| `EntriesAreOneDraft` | an entry is what one job streamed whole |
| `DraftsAreOne` | a connection has one draft open at most |
| `GrammarIsKept` | the daemon sees no chunk that no part announced, and no other frame among a part's chunks |

The last three are one invariant (`ExtInd`). A piece of a job may be in four places: in the
chain, on its way to the daemon, in the daemon's session, and, as an answer, on its way
back. The invariant reads them together. `Linked`: only the last connection can stand, so
whatever an older one carries reaches nobody. `Stream`: from what the session is in the
middle of, the frames on the way are grammatical and end where the chain goes on. A
part that was broken off (`Spoilt`) may end without its chunk. `Turns` and `Idle`: one job at
a time, and when none is at work nothing of any job is left. `Mine`, of the job at work,
says what may be where at each of its stages (`Queued`, `Sent`, `Received`, `Opened`): a
commit or an abort has nothing of the job's behind it, and until it is taken every frame
names the job's own draft. A draft holds parts of this job only, whole unless the job
knows that one failed. That is what `_record()` achieves by aborting after a failed part, and
what a job that went on instead would break. Request numbers are used once (`Fresh`), so
no answer settles another's request. `ExtensionTyped` counts besides: the jobs before the one at work
made no more requests than they may, and it itself as many as its stage says (`Counted`).

`SessionProofs`, for any drafts, parts, requests, lengths, chunks and window:

| theorem | |
| --- | --- |
| `SessionTyped` | every variable keeps its type; drafts and parts are within their limits |
| `StreamAligned` | no payload byte is taken for a frame and no frame for a payload byte |
| `AnswersInOrder` | each request is answered once, in the order sent |
| `PayloadsWhole` | unless writes fail, nothing falls between the bytes of a payload |

`Aligned` speaks of the first frame only. `Framed` says of each place of the stream
what follows it: a frame, its payload as far as it was sent, then no byte; and of place
zero, what the session is in the middle of. Then a step that takes a token moves
each place by one, and one that sends puts a frame at the end with its payload
behind it. `InOrder` counts, and counting does not survive a step by itself: `Numbered`
says that the unread requests bear just the numbers after the last one read, in order,
and `Answerable` that the request being answered is the next. The number of the unread
ones is then the cardinality of an interval (`UnreadCounted`). `PayloadsWhole` assumes
`"write" \notin Faults`; `SessionTorn.cfg` shows what a write that fails midway does.

*Only model-checked.* Every invariant a passing run checks is stated by a theorem.
Liveness (`OrphansCollected`, `NeverBlocked`, `ClosedAborts`, `CopiesCaught`, `ComesBack`,
`GoesOn`) is out of the prover's reach. `Classify` and the hints of Kinds are evaluated
on the names of the run. The violated properties of section 3 are false, so there is nothing to prove.

## 5. The plan

Done: Store, Index and Archive with the proofs of the archive's safety and of the
refinement; Session, Watch, Picker, Selection, Extension, Durable, Launch and Native with
the proofs of their safety; Kinds with those of its filter. What is left, in this order:

1. *Extend.* `Restore`: the markers of `capture.js:72-96` and the helper of
   `restore.js`, with the property that a restore is never archived and a copy
   always is. In Watch, the subscription that could not be started
   (`server.rs:112`).
2. *Refine.* Session's drafts as the threads of Store, and Extension's daemon as
   Session, where a mapping pays for itself.

## 6. What is not modelled

* The macOS menu, the Python client and the preferences, which ask one thing at a
  time, and drawing.
* Previews, full-text matching, thumbnails' pixels, transcoding, the conversions of
  Windows formats (UTF-16, CF_HTML, DIB), links and colours: pure functions of their
  input, with tests of their own.
* Permissions, refused links, configuration, the contents of frames: I/O and parsing.
* In Watch, calls of the store that fail, a frame a failed write cuts short, and
  watchers whose worker cannot be spawned; in Extension, `stop()`, broadcasts, the exclusion of applications, the
  markers of restores, and an owner that neither ends nor fails a transfer.
* In Durable, threads beside one another (Store has them) and content that a disk
  loses although it was synchronized; in Launch, what a client finds behind a name.
* `at` is in Store, but no property says that it never moves back: two threads that
  record one copy at a time may leave the older second.
