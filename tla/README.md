# Verification of torrentfs-go

TLA+ models of the parts of torrentfs where correctness depends on the order of
events. TLC checks small instances of all of them; TLAPS proves the safety of most
of them for every instance (the Proofs section says which and how).
`PROJECT.json` gives, for every definition, the source lines it models, and for every
hazard of the code the properties that would catch it.

## The system

torrentfs shows the files of torrents as a filesystem (FUSE and SMB) and as signed
links. Nothing downloaded is stored on disk: pieces live in a byte-bounded memory
cache and are fetched again when they were evicted.

| Part | Source | State | Module |
|---|---|---|---|
| Piece cache | `internal/cache/cache.go` | resident sizes, LRU list, byte counters, pins | `PieceCache`, `LossyMap`, `Totals` |
| Piece store | `internal/piecestore/store.go` | lifetimes of torrents, staging buffers, generations, verified epochs | `PieceStore` |
| Registry | `internal/session/{manage,registry,metadata,favorite}.go` | sidecar, metainfo and magnet files, their mirror in memory, metadata workers, deletions | `Registry` |
| Legacy migration | `internal/session/metadata.go` | the same files in their old and new places | `Migration` |
| Start, lock, identity | `internal/session/{session,identity,stream}.go` | instance lock, peer ID, stream key | `Instance` |
| Piece fetcher | `internal/session/{file,torrents}.go` | flights and the reads waiting for them | `Fetcher` |
| Prefetch coordinator, shared handles | `internal/session/{prefetch,file}.go` | tickets, anchor, window pins, leases, budget, handle counts | `Prefetch` |
| Names: torrents, categories, subtitles | `internal/session/{category,subtitle,subtitle_store}.go`, `internal/vfs/layout.go` | categories file, subtitle files, index | `Namespace` |
| Upload limit | `internal/session/upload_rate*.go` | settings file, policy, limiter, runner | `UploadRate` |
| Snapshot cache | `internal/{vfs,filesystem}/snapshot_cache.go` | slots, observations, listings | `SnapshotCache` |
| Link files | `internal/vfs/strm_cache.go` | projections, sizes | `StrmCache` |
| Directory versions, SMB name index | `internal/vfs/tree.go`, `internal/smb/names.go` | versions, snapshots and their cleanups, index | `DirectoryCache` |
| FUSE directory indexes | `internal/filesystem/view_cache.go` | versions, indexes being built | `ViewCache` |
| SMB handle | `internal/smb/vfs.go`, `internal/vfs/tree.go` | two locks, a wait group, a `sync.Once` | `Handles` |
| Tokens | `internal/auth/service.go` | tokens and their expiry | `AuthService` |
| Process | `cmd/torrentfs/main.go` | what was started, the shutdown sequence | `Process` |

How they interact. A read of a file goes through a handle to the fetcher, which
takes the piece from the cache or waits for the client to download it. The client
writes chunks into the store's staging buffers, hashes them through `WriteTo` and
reports the verdict; a verified piece is promoted to the cache. The coordinator pins
the window of a reader in the cache and asks for pieces ahead of it. The registry
decides which torrents exist, across restarts; its deletion closes the torrent in
the fetcher and the store and invalidates the cache. Names, directories and link
files are projections of the registry that the frontends cache. The process starts
all of this behind the instance lock and takes it down in order.

Interfaces between modules. `PieceStore` and `Fetcher` see the cache as the map that
may lose entries which `PieceCache` is proved to implement. `PieceStore` and
`Fetcher` both contain the steps of `Torrent.close`, each with its own side of it.
`StrmCache`, `DirectoryCache` and `ViewCache` are built on the operators of
`SnapshotCache`; `Namespace`, `UploadRate` and `Instance` on those of `StateFile`, a
file replaced by rename whose directory may not have been synced. `Migration` is the
stage of the start that comes before the `Registry`'s restore.

## Modules

### PieceCache

One action per exported call that changes the cache; each holds `c.mu` throughout,
so each is one atomic step. A value is its length (`size[k]`, 0 when not resident).
The LRU list is the strict order `lru` of the resident keys. An eviction pass is the
set `Victims`: an entry goes exactly if what is in front of it and stays, with what
cannot be evicted, is still above the low-water mark. That this is what the loop of
`evictLocked` removes is itself checked (`VictimsMatchLoop`, against `EvictLoop` in
`MCPieceCache`). `Pin` and `UnpinTorrent` are exported but not used in production
code; `LegacyAPI` says whether they are called. `Totals` defines a sum as a
cardinality, so that it needs no recursion; `PieceCacheProofs` proves its laws.
`LossyMap` is the abstract specification: a map that may forget any entry and may
refuse an insertion, but never shows a value other than the last one stored.

### PieceStore

The store for a small set of torrents. A chunk of a buffer is `"zero"` (not
received), `"good"` or `"bad"`; a piece verifies exactly when all chunks are good.
Each PieceImpl call is one step, as it holds the store's mutex throughout, except
the hash: `WriteTo` reads window after window, so `HashWindow` takes one chunk per
step. An *agent* is an activity of the client that took its PieceImpl in some
lifetime of the torrent and may go on after that lifetime has ended. External
assumptions, about the client library, whose source is not in the repository: it
hashes a piece in one goroutine at a time, and reports the verdict of the bytes
`WriteTo` gave it.

### Registry

One info hash: `lockHash` serializes what is done to a hash. Every disk operation is
a step, so that `Crash` fits between any two; its outcome is `ok`, `failed` (no
effect) or `unsynced` (effect, but an error is returned because the directory could
not be synced). The threads are `add`, `worker[w]` (the goroutines of
startMetadataFetch) and `del` (runDelete); `HashLocked` and `MuHeld` say where they
hold the locks. A worker that `startMetadataFetch` registers and then does not run,
because the session is no longer active, is `abandoned`: its done channel is never
closed.

### Migration

`migrateLegacyLayoutOnce` for several hashes with the passes in the code's order
(entries, moves, removals, marker) and the restore after it. Any failed operation
makes the start fail and the next start reads the disk again, which is also what a
crash amounts to, so `Crash` stands for both. `given` and `doomed` record what the
older version left, for the properties.

### Instance

The stages of `New`, by each of several processes on one directory, and the order of
`Close`. A stage that fails releases the lock, except the one that configures the
proxy (`session.go:325`): there the lock stays with the process until it exits,
which `main` does at once. The peer ID and the stream key are files in one directory,
so the write of either that is synced makes both durable. A process that finds a
file an earlier start could not sync uses it as it is; `memory.unsynced` remembers
that, and `IdentityDurable` makes it an exception, which it has to be: without the
exception TLC shows a key that was signed with and is then lost to a power failure.

### Fetcher

The reads of one torrent and the flights that download for them: look up, join or
start a flight, wait, give up, retry, put; and `Torrent.close`. The record of a
flight that has ended and that no read holds is garbage, so two identities stand for
any number of flights. The client's Reader is external: it ends well, short, with an
error, or with the cancellation of its context.

### Prefetch

The coordinator of one torrent. Reads are goroutines that may interleave between any
two critical sections of the coordinator's mutex. Generation numbers and candidate
numbers are only compared with the current one, so a ticket records whether they are
equal. Byte spans are sets of offsets. Other torrents are an environment that takes
and returns units of the shared budget and pin room without signalling this
coordinator. The shared handle of a file, whose count drops to zero before the
window is released (`file.go:492`), is part of the module.

### Namespace

Torrents, categories and subtitles that share the names of a directory:
AddTorrent, Resolve, SetTorrentCategory, CreateCategory, uploads step by step,
deletion, crash and start. `rootNamespaceMu` serializes the decisions; a deletion
does not take it. A name is a model constant per torrent, with the suffixed form the
layout gives it when two torrents collide. `stale` are torrents whose deletion could
not sync the removal of the subtitles: `removeManagedSubtitlesForDelete` returns
before it clears the index when a retry finds the directory gone, so a torrent that
is added again shows subtitles that do not exist. The properties exclude them.

### UploadRate

Settings, policy and runner. The clock counts ticks; `Wall` says which minute each
tick shows, with one day on which minutes are left out and one on which they repeat.
A goroutine may be held up for `MaxLag` ticks between reading the clock and acting on
it.

### SnapshotCache, StrmCache, DirectoryCache, ViewCache

The snapshot cache compares pointers to slots and values, which are never reused; so
an observation is "same" or "changed". The three users ask the source outside the
lock and come back to the cache with an answer that may be old. In `StrmCache`,
`epoch` and `applied` number the changes of the source and the answers acted on; only
properties read them. `DirectoryCache` adds the snapshots of a directory with their
eviction callbacks, and the SMB server's index. `ViewCache` adds indexes that one
read builds while others wait. The deferred `finish` of an observation turned out to
be redundant in `StrmCache`: the placeholder is gone on every path before.

### Handles, AuthService, Process

`Handles` is one open SMB file with concurrent reads and closes. `AuthService` is the
token store, with the password compared outside its lock. `Process` is `run`:
stages, failures, servers and unmounts as goroutines, the shutdown in the order of
`shutdownSequence.run`. It takes for granted that `Session.Close` returns, although
`registry_close` shows a case where it does not, and that a server whose Close was
called before Serve does not serve (net/http and the SMB library).

### Faulty variants

Definitions commented "faulty" are plausible bugs of the code (a dropped guard, a
swapped order, a missing reset). No specification uses them: each is listed in
`PROJECT.json` with the property that fails when it replaces the real definition.

## Runs

| Run | Instance | Shows |
|---|---|---|
| `cache` | 2 torrents x 2 pieces, sizes 1, 2, 7, capacity 8, all exported calls | capacity, counters, reservations, LRU order; Put keeps what fits; eviction takes the oldest unpinned entries and always finds one; refinement of `LossyMap` |
| `store` | 1 piece of 2 chunks, 3 agents, 2 buffers, 2 lifetimes | only verified pieces become resident; no read sees zero fill; late calls of an ended lifetime are harmless; nothing of a closed torrent is left |
| `registry` | 2 workers, 2 lives, 1 fault, 1 crash, Close | the disk is always restorable, memory mirrors it unless a sync failed, deletions are never undone and complete, favorites are kept |
| `prefetch` | 2 pieces, one shared by 2 files, 2 readers, budget of 1 | pins and leases accounted for exactly, none left when the files are closed; no lost wake-up; seeks need two reads |
| `parts` | the eleven other modules, below | their safety |
| `liveness` | Registry, Fetcher, Handles, UploadRate, Process | what others wait for, ends |
| `registry_mirror`, `registry_adding`, `registry_close`, `prefetch_handles`, `prefetch_hysteresis`, `namespace_restart` | as small as the case needs | disagreements of code and comments, below |

`parts` and `liveness` each hold several modules that share no state: `component` is
chosen in the initial state, the variables of the chosen module live in `v1`, `v2`,
..., and the properties of a module are checked under `component = ...`, together
under one name where several say what one part of the code promises. The composition
of `parts` is `Parts`, in groups that can be proved about apart from each other:
`MountParts` (`tree`, `fuse`, `proc`, `handle`), `StreamParts` (`strm`, `fetch`, `auth`)
and `StateParts` (`names`, `rate`, `migrate`, `lock`), on the variables of `PartState`.
What the two runs show, part by part:

| Part (`component`) | Instance | Checked as | Properties of the module |
|---|---|---|---|
| `strm` StrmCache | 2 overlapping reads, 2 changes, 2 contents, 2 sizes | `LinksFresh`, `NoStalePublication` | `PlaceholdersOwned`, `ProjectionFresh`; `NoStalePublication` |
| `tree` DirectoryCache | 2 reads, 2 changes, 3 snapshots | `SnapshotsOwned` | `CacheableIsOwned`, `OwnedIsCacheable`, `IndexOwned` |
| `fuse` ViewCache | 2 reads, 2 changes, 2 directories | `ViewsOwned` | `AnswersFromOwnView`, `PendingIsBuilt` |
| `fetch` Fetcher | 2 reads of 1 piece, 2 flights, 2 attempts, close | `FlightsShared`, `WaitsEnd` | `OthersUndisturbed`, `OneReaderPerPiece`, `ClosedStaysEmpty`; reads and the close of the torrent end |
| `handle` Handles | 2 reads, 2 closes | `ClosedDrained`, `WaitsEnd` | `ClosedDrained`; a close ends |
| `rate` UploadRate | 3 days of 3 minutes, 3 settings that are valid and 2 that are not, 1 update, 1 tick of delay | `LimitInForce`, `WaitsEnd` | `MemoryFollowsFile`, `RightUntilBoundary`, `TransitionExact`; the runner ends |
| `names` Namespace | 2 torrents, 1 category, 2 failed writes, 1 power failure | `NamesSound` | `PairsIntact`, `CategoriesOutliveReferences`, `IndexMatchesStore` |
| `migrate` Migration | 2 hashes, any number of crashes | `MigrationKeepsAll` | `MigratedWhole`, `DeletedStaysDeleted` |
| `auth` AuthService | 2 logins, 2 tokens, TTL 2, time up to 4 | `TokensOwned` | `ClosedForgets`, `TokensUnshared`, `IdleExpires` |
| `proc` Process | API, SMB, 2 mounts | `ShutdownOrdered`, `OutcomesKept`, `WaitsEnd` | `StopOrder`, `EverythingStopped`; `OutcomesKept`; the process ends |
| `lock` Instance | 2 processes, 2 prefixes, any number of failures and crashes | `DirectoryOwned` | `OneManager`, `IdentityDurable` |
| `session` Registry (`liveness` only) | 2 workers, no faults | `WaitsEnd`, `AddSettles` | a deletion ends; `AddSettles` |

### Why the bounds are enough

Cache: capacity 8 has marks 7 and 6 and 2 pinnable bytes; sizes 1, 2 and 7 make a pin
that just fits, one that does not, and an insertion that cannot fit beside a pinned
entry. Store: a staging buffer is replaced at most once in its hazards, hence two
generations; three agents let a download, a hash and a reset overlap. Registry: two
workers are the one that retries and the one it starts; an add is made only while a
worker identity is unused, so that the bound itself blocks nobody. Prefetch: two
files share a piece, so that a pin is counted twice; a budget of one is exhausted by
one lease. Caches: two overlapping reads and two changes let the answer of the first
read be older than what the second has published and than what has been deleted
since. Fetcher: with two reads and two flights, a read joins a flight another leaves,
and starts a second while the cancelled first is still ending. Upload: one update
against a reading of the clock that is one tick late straddles a boundary. Names: the
hazards take a torrent, its subtitle and one competitor. Two failed writes are needed
to make a category durable and not its file; with two power failures
`CategoriesOutliveReferences` does not hold, because a start reads what an unsynced
write left and builds on it, the same exception as in `Instance`. Lock: failures,
crashes and restarts are not bounded; the random values are, and only as many as the
files can hold differ.

Deadlock is checked in `cache`, `store` and `registry_adding`. In the others the
program may stop: reads and closes have all been made, the process has exited, a
bound on events is reached; in `registry` the hang of `registry_close` is a deadlock
of the modelled code.

### Fairness

Registry: strong fairness of each thread, since a step may wait for a mutex that is
taken and released over and over, and Go's `sync.Mutex` hands itself to a waiter that
has starved for a millisecond. `AddSettles` states as its own hypothesis that
metadata arrives. Fetcher: goroutines run, a Reader whose context was cancelled
returns, and a read has a deadline (`readTimeout`); no download need ever succeed.
Handles: goroutines run and a cancelled read returns. UploadRate: the runner runs; a
`select` with a ready `ctx.Done()` takes it eventually. Process: `run` goes on and
its timer fires; nothing is assumed of servers or of Unmount calls. Nothing is assumed
of callers, crashes or failures.

## Disagreements found

- `registry_mirror`: `writeRegistryEntryLocked` drops the information that a sidecar
  was published when only the directory sync failed. Memory keeps the old entry while
  a restart would read the new one, against the comment at `registry.go:122`. In
  `addManagedLocked` the metainfo is then removed although the sidecar says ready, and
  the next start is refused.
- `registry_adding`: `retryMetadataFetch` finds another worker registered and returns,
  but that worker has failed and is about to exit without the retry flag; the torrent
  stays `adding` with no worker.
- `registry_close`: the worker of such a retry is registered, taken over by a deletion
  that waits for it, and then not run because the session is closing. Neither the
  deletion nor `Close` returns.
- `prefetch_handles`: the last handle of a file is dropped, the file is opened and
  read again, and only then does the first close release the window: it cancels the
  read of the new handle.
- `prefetch_hysteresis`: a paused window takes new leases as soon as it is below the
  high watermark; the low watermark has no effect.
- `namespace_restart`: the guards look at the subtitles that exist, the check at the
  start only at the `.srt` name. With `a.ass` as the only subtitle of `a.mkv`, a
  category `a.srt` may be created and the next start is refused.

Seen while modelling, and not the subject of a run: a subtitle `a.ass` may be uploaded
although a category or torrent `a.ass` has that name; `CreateCategory` rolls its
memory back although the file was published when only the sync failed; subtitles may
reappear after a deletion whose sync failed (`stale`, above); the proxy stage of `New`
keeps the instance lock, and the subtitle store's handle is not closed when a stage
after it fails, until the process exits; the comment "A validated window always flips
inside the lookahead" (`upload_rate.go`) does not hold of a one-minute window that the
change to daylight saving skips, in which case `nextTransition` looks again at the end
of the lookahead.

## Proofs

`PieceCacheProofs` proves for any sets of torrents and pieces, any set of positive
sizes, any natural capacity and with or without the legacy calls: type correctness
(`TypeCorrect`), exact counters (`CountersExact`), the hard cap (`CapacityHolds`),
reservations that cover what is resident (`ReservationsCover`), bounded sized pins
(`SizedPinsStayBounded`; both together are `PinsStaySound`), a victim whenever one is
needed (`AlwaysAVictim`), an eviction pass that goes far enough, from the back, and no
farther (`EvictionIsRight`), and the refinement of `LossyMap`
(`CacheImplementsLossyMap`). Assumption:
`ConstantsAssumption` (finite sets of torrents and pieces, positive sizes, a natural
capacity). None of the properties is inductive alone. The cap after a Put follows from
the rollback only if `used` is the sum of the resident sizes, and after an eviction
only if the counter is reduced by exactly what went; so the inductive invariant
`IInv` is the type invariant, the exactness of all counters, the cap (`ResidentsOK`),
and for pins (`PinsOK`) that a reservation covers the resident bytes, that only pinned
keys reserve and that the sized ones fit the pinnable share. Each action is one lemma;
all arithmetic on sums is in the lemmas about `Total`. `AlwaysAVictim` then needs no induction:
were every resident entry above the low-water mark pinned, the reservations would
exceed what may be pinned. `EvictionIsRight` rests on the list being a strict total
order of the residents (`ListStaysOrdered`, inductive on its own): of finitely many
entries one is nearest the back (`HasLast`, from the well-foundedness of finite sets),
so that a pass which leaves an entry it may take has removed all behind it and is at
the low mark (`VictimsEnough`). `LoopTurns` proves that the closed form of the victims
satisfies the equation of the loop of `evictLocked`, one victim at a time.

`PieceStoreProofs` proves all five properties of the `store`
run, for any torrents, pieces and activities, any number of chunks, buffers and
lifetimes: `TypeCorrect`, `OnlyVerifiedResidentAlways`, `NoZeroFillServedAlways`,
`NothingAfterCloseAlways`, `StaleLifetimesAreHarmless`. Assumptions: a piece has a
chunk and the bounds are numbers (`StoreAssumption`); `None`, no buffer, is not one
(`NoneAssumption`). That only verified pieces are resident is far from inductive.
`WriteTo` records the generation it has hashed as verified whether or not the hash
matched, and `MarkComplete` promotes whatever buffer has the verified generation. So
`VerifiedIsGood` says that a verified buffer is good, *or* the activity that found it
bad has still to reset it and no other activity of this lifetime is hashing or about
to promote it. This needs that hashes of a piece exclude each other (`HashesApart`,
what the client library guarantees), that what a hash has been given agrees with the
buffer of its generation (`SeenIsStaged`), that the generation maps agree
(`GenerationsAgree`, in `TypeOK`), and that a torrent is open in the store exactly
while the session has it open (`LivesOK`, `ClosedIsEmpty`).

`RegistryProofs` proves all six properties of the `registry` run, for any number of workers, lives, faults and crashes, with and
without sync failures and `Close`: `TypeCorrect`, `AlwaysRestorableHolds`,
`SessionConsistentAlways`, `NeverResurrected`, `NothingLeftBehind`,
`FavoritesAreKept`. Assumptions: `None` is no worker, no entry and not the outcome of
a deletion, and the bounds are numbers (`RegistryAssumption`, `EntryAssumption`).
The argument: whoever writes the sidecar or one of the files holds the lock of the
hash, or is the one deletion of the hash. `LockExclusive`, `LockedNotDeleting` and
`DeletionOwns` say that these exclude each other, although a deletion does not take
the lock and an add or a worker reads the deletion state only once. `FilesInPlace`
and `Removed` say what each may rely on between two of its disk operations: the file
of an entry that is about to be recorded is there, the registry is restorable without
a file that an add may have to remove again, a deletion that has not failed has
removed what it went through. With `Mirrors` (the session's entry is the sidecar) the
file operations then keep the disk restorable, and a step that changes the sidecar
can be read off the entry it started from, which gives the action properties.
`FetchRuns` and `LaunchersApart` are about the goroutines alone: a registered worker
has not exited, and one that is still to be launched belongs to one thread. `Blank`
and `StartsQuietly` say what a crash and a start leave. The exceptions for a failed directory sync
(`Unsynced`) are in the properties themselves; `registry_mirror` shows they are needed.

`PrefetchProofs` proves all five properties of the `prefetch` run, for any files that
lie within the torrent, any number of readers, any window, watermarks, budget and pin
room: `TypeCorrect`, `AccountsAreExact`, `NothingHeldForNobody`, `NoWakeUpLost` and the
action property `TwoReadsToSeek`. Assumptions: finitely many readers, natural sizes and
limits (`PrefetchAssumption`); `None` is neither a file nor a place (`NoneAssumption`).
The accounts are cardinalities: a piece has as many references as tickets that pin it,
plus one for the window. They are exact only together with what the program counter
of a read says about its ticket (`TicketsInUse`: a listed ticket belongs to a read in
flight, and a cancelled one pins nothing), since `finishForeground` and `releaseFile`
both remove tickets and the second may have cancelled the first's. `HandlesExact` and
`PlacesHeldOpen` (the file of the anchor is open or about to be released) give that
closed files hold nothing; `WindowReadsOfAnchor` and `SeekReadsOfCandidate` (a ticket
of the current generation is in the file of the anchor, or of the candidate) that a
read is counted where it was made. Every critical section is one lemma;
`reconcile`, which re-pins the window, drops and takes leases and computes its state
at once, is `WindowReconciled`, and rests on `FirstOfFacts` (the first n of a set are
at most n, without induction) for the budget.

`PartsProofs` proves, for the composition that `parts` checks, the safety of all
eleven of its parts, its type invariant (`RecordsAreWellFormed`) and two action
properties. A step of one part is no step of another, so the
invariant of the composition is that of whichever part was chosen (`MountInductive`,
`StreamInductive`, `StateInductive`); the work is in `MountProofs`, `StreamProofs` and
`StateProofs`. The inductive invariant of a part, `Inductive`, is stated at the end of
its own module, after the words "Why:". What these three modules use of finite sets
and numbers is a hypothesis of their lemmas, `Counting` (module `Counting`), so that
their leaves are not tried in the context of the whole library of theorems;
`PartsProofs` proves it from that library (`FiniteSetsCount`), and no theorem has it as
a hypothesis.

| Theorem | Part, for any | What the invariant adds, and why |
|---|---|---|
| `FlightsAreShared` | Fetcher: readers, pieces, flights, attempts | a flight's `waiters` is the number of reads that wait for it (`FlightSound`), or the last to leave would not know it is the last; a piece's flight in the map runs for that piece (`InflightSound`); the stages of the close leave nothing to the next (`CloseSound`) |
| `LinksAreFresh`, `NothingStaleIsPublished` | StrmCache: reads, contents, sizes, changes | a read whose observation is still "same" has an answer at least as new as the last the cache acted on, and so has a listing that saw no slot, unless something was published since: when that is forgotten, the listing is fenced (`AnswerSound`); an observation that is "same" has its slot (`ReadSound`); entries that operations refer to are not collected (`OperandsKnown`) |
| `ViewsAreOwned` | ViewCache: reads, directories, contents | a version being built says so, and then no second read begins a build (`ReadSound`, `IndexSound`); a version that a read holds is not collected |
| `SnapshotsAreOwned` | DirectoryCache: reads, directories, places, snapshots | what a read holds at each stage (`StageSound`, `HoldSound`); versions do not share snapshots (`VersionsSound`); a read about to publish names of a snapshot knows that it was evicted, or is among those still to be told (`PublishSound`), or the index would outlive it (`IndexSound`) |
| `HandlesDrain` | Handles: reads, closes | `sync.Once` runs one closer (`OneRuns`), the wait group counts the reads between their two locks (`Counted`), and nothing enters once it has drained (`Drained`) |
| `TokensAreOwned` | AuthService: logins, tokens, time to live | what a login holds between comparing and storing is nobody else's; an expiry is the last use plus the time to live (`ExpiresAfterUse`) |
| `ShutdownIsOrdered`, `OutcomesAreKept` | Process: mounts | which stages have been started when `run` fails or is told to stop (`StagesInOrder`), what servers and mounts there then are (`ServersKnown`, `MountsTracked`) |
| `DirectoryIsOwned` | Instance: processes, prefixes, random values | whoever is past `lockInstance` holds the lock (`LockHeld`), and no other can write a file meanwhile, so what each later stage has settled about the two files stays (`KeySettled`, `IdSettled`) |
| `MigrationIsWhole` | Migration: hashes, crashes | for every hash: what the older version left is in its old place or its new one (`HashSound`, `InPlace`), what the pass under way has done (`PassSound`, `MoveSound`, `Scanned`), and which entries are due (`EntryDue`) |
| `LimitIsInForce` | UploadRate: clocks, schedules, settings, updates, delays | memory and file differ by what the update under way has still to do (`SetterSound`, `PolicySound`), whatever a power failure would leave (`FileSound`); a sleeping runner has set limit and timer for one and the same instant, however long ago (`TimerSet`). That probing minute by minute finds the earliest change (`TransitionExact`) follows from the clock's changing at most once between two probes |
| `NamesAreSound` | Namespace: torrents, names, categories, faults, crashes | everything that would survive a power failure refers to categories that would (`ReferencesKnown`); a torrent without a record that is kept has no subtitles (`StoreSound`, `DownSound`); while `rootNamespaceMu` is held nothing takes the name that an upload has found free (`UploadSound`) |

Assumptions, all in the group modules and evaluated by `parts`: `None` is none of the
values it stands beside, the bounds and times are numbers, requests and readers are
finitely many, a piece is tried at least once, info hashes are ordered. For the clock
of the upload limit: it repeats (`ClockAssumption`), the lookahead is a whole number of
probes (26 hours of one-minute probes in `upload_rate.go`), and between two probes the time
of day it shows changes at most once (`RateAssumption`: it shows minutes). None of them
bounds the size of an instance from above.

Where these arguments are about data, they do without induction. The first probe that
differs, and the first tick in its minute, are minima of sets of numbers, which exist
because the numbers are well-founded (`LeastNumber`, `LeastFacts`). Which of two torrents keeps a name
they share is said by a quantifier, not by a walk over the list. Versions that nobody
holds are reused in the model; that there always is one is a count (`TreeVersionFree`:
`DirectoryCache` has two versions per read, for a read holds at most two, the cache one,
and the read that builds a version none).

Only model-checked: `VictimsMatchLoop`, whose loop is a recursive operator (`LoopTurns`
proves its one turn; that its turns add up is the induction left to TLC). The six
disagreements above, which are counterexamples. Everything about liveness, which is
outside the prover's reach.

Leaves of the proofs go to Zenon unless they name SMT (arithmetic, and sequences).

## Not modelled

- The client library, the vendored SMB library, the kernel side of FUSE: other
  programs. What the code relies on is stated above.
- HTTP handlers, configuration, logging, the config command, stream URLs, media types,
  the FUSE nodes: decoding, validation, printing and delegation, without state that
  events could corrupt.
- The lab experiment (`internal/lab`, `session/lab.go`): it rewrites counters of
  tracker announces; nothing the program serves or stores depends on it.
- `pieceLoader` (`file.go`), which no production code uses.
- In the modelled parts: read-only views and counters; the refusal by OpenTorrent of
  pieces longer than the cache (no state changes); the byte arithmetic of
  `cache.Plan`, `stagingBuffer` and `filePieceRange`, abstracted to chunks and pieces;
  which bytes are a subtitle and the path safety of the subtitle store.
- Liveness of the caches in front of FUSE and SMB (that a read waiting for an index
  gets it) is covered only by the invariant `PendingIsBuilt`: the build is a loop over
  a list and always ends.
- A coordinator whose lease was refused for want of budget is not woken when another
  torrent returns some. The code promises no more, and no property asks for it.
