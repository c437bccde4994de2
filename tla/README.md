# regionchecker, specified in TLA+

`regionchecker` answers "which country does this address or host belong to?"
from a table built of the registries' delegated-stats files, the host's ccTLD,
and up to six enrichment sources. `update-db` fetches and builds the table,
`check` and `serve` load it and classify. These modules model the parts where
order, failure and concurrency decide whether the answer is right, check them
with TLC on small instances, and prove the safety of all of them with TLAPS
for instances of any size.

## 1. The system

| component | state | operations | what makes it hard |
|---|---|---|---|
| cache store (`internal/cache/store.go`) | `tmp/`, `raw/<key>`, `raw/<key>.meta` | `AtomicWrite`, `Read`, `ReadMeta`, `WriteMeta`, `SweepTmp` | concurrent writers, readers with an open file, crash or loss of power at any step |
| fetcher (`cache/fetch.go`) | the two files of a key | `Fetch`, `fetchOnce`, `readMetaOk`, `Age` | two files that are not written together; a 304 trusts one about the other; several processes |
| parsed snapshot (`cache/parsed.go`, `rir/serialize.go`, `cmd/.../subcommands.go`) | `parsed/ipv4-ranges.bin`, the servers' tables in memory | `update-db` truncates and writes, `serve` maps, copies, parses | in-place overwrite, torn files, a table that ages in memory |
| RIR table (`internal/rir`) | the rows of V4, V6, ASN | `Build`, `LookupIP`, `LookupASN` | unsigned arithmetic, a binary search whose key is not the sort key |
| classifier (`internal/classifier`) | one `Result` per call | `Classify` | three paths through twelve lookups, early exits, which field says where the country came from |
| enrichment (`tlscert`, `ctlog`, `contentscan`, `rdap`, `wayback`) | a disk cache each | `Lookup`, `Get`, `Put` | several processes on one file, failed requests, the TTL |
| decision table (`classifier/decision.go`) | none | `Decide` | a loop over a map, whose order changes; it must agree with the ladder |
| resolver (`internal/resolver`) | an LRU of answers, the index of the next DNS server | `Resolve`, `Dial` | concurrent requests, a removal after an unlocked test, an index without a lock, half an answer |
| check (`cmd/.../subcommands.go`, `internal/output`, `main.go`) | inputs, the CSV writer's buffer, the exit code | `collectInputs`, `dedup`, the loop, `Writer` | a full output, a buffer that is flushed after the last error is read, a kill within a row |
| server (`internal/server`, `main.go`) | limiter buckets, metrics, the process's life | handlers, `Run` | requests that outlast the drain, concurrent requests of one client, rows of failed hosts |
| bootstrap, lock, `cache/mem.go`, config, domain, bogon, asn, clock, public package | tables and flags | | little: see section 7 |

How they interact: `update-db` calls the fetcher, which calls the store twice;
the body goes through `rir.Build` and `rir.Snapshot` into the parsed file;
`serve` and `check` load that file and give `LookupIP` to the classifier, which
also calls the resolver and the enrichment clients; `/readyz` reads the sidecar
that the fetcher wrote. Separate processes (the updater's CronJob or sidecar
container, the servers, bootstrap's own `update-db`, any number of `check`s)
meet only in the cache directory.

What each component owes:

- store: a reader sees one whole payload; an acknowledged write survives; no
  error leaves a tmp file behind.
- fetcher: what `Fetch` returns is not older than the registry's file at the
  call; a sidecar does not vouch for data that is not there; the cache comes to
  the registry's version.
- snapshot: an undisturbed load is one version, not an old one; servers come up
  again, whatever torn file they find.
- table: a row holds the addresses its line says; an address in a row is found,
  and only those; the prefixes of a range are that range.
- classifier: the ccTLD before the address, one order of the sources on every
  branch (the code's: section 4), each tier at its place in it, evidence that
  matches the answer, no signal lost, an end.
- decision table: where every source misses, the tier that the ladder gives.
- enrichment: a cached country is one the source gave, recently; a wrong entry
  does not stay.
- resolver: a hit is an answer that DNS gave for this host, recently; a wrong
  answer does not stay; a lookup gives up only after it has asked every server.
- check: one row for each distinct input, in the order given, and an exit code
  that says whether they were written.
- server: the limiter holds and does not let one client spend another's budget;
  an answered batch accounts for every host; a signal ends the process, and the
  exit code says whether a request was cut off.

## 2. Modules

| module | models | state and actions |
|---|---|---|
| `AtomicRegister` | the abstract store: one file as a register with a copy on disk | `Publish`, `Remove`, `Flush`, `Acknowledge`, `Crash` |
| `Store` | `AtomicWrite` system call by system call | an inode's pages (written, on disk), the directory entry (seen, on disk), `tmp/`, each caller's place; `OpenTmp`, `WritePage`, `Fsync`, `Rename`, `SyncDir`, `Fail`, `SyncDirFails`, readers, `SweepTmp`, `Clear`, kernel write-back, `Kill`, `PowerLoss` |
| `Mirror` | the abstract fetch: a call that returns has a payload of the origin's, as new as the call | `Begin`, `Return`, `Abort`, `Publish` |
| `Fetcher` | `fetchOnce` over two atomic registers in one directory | one action for each read, answer, write and sync; `Fail` at any step, `ClearRaw`, `ClearMeta`, `Publish` by the registry, `PowerLoss` |
| `Snapshot` | `update-db` and `serve` around the parsed file, and who starts `update-db` | the file's name and pages, both also as of the last full write-back, the servers' copies, the day, the sidecar's `FetchedAt`, whether an updater is scheduled; `Fetch`, `Truncate`, `WritePage`, `Close`, `Fail`, `MapFile`, `ReadPage`, `Parse`, `Kill`, `StartUpdater`, `PowerLoss` |
| `Rir` | `Build`, `LookupIP` and `CIDRsFromV4Count` | the rows, the sorted table, `sort.Search`'s bounds; `ReadLine`, `Reject`, `Sort`, `Ask`, `Probe`, `Answer`; the decomposition as the recursive function `CIDRs` |
| `Decision` | the tiers and `Decide` | no state: `Decide` is the set of what a map's order allows |
| `Classifier` | `Classify`, over `Decision` | the layer that runs next, the local variables of `classifyHost`, the result; one action per layer |
| `Enrich` | the five `Lookup`s and their `DiskCache` | the file (absent, empty, torn, an entry of some age), each process's place; `Get`, `Ask`, `AskFails`, `Truncate`, `Write`, `Kill`, `Tick` |
| `Resolver` | `Resolve` called by several requests, `Dial` called by their lookups | the LRU's entries, the shared index, each request's place and each of its two queries; `Get`, `ReturnHit`, `Expire`, `Pick`, `StoreIdx`, `Answer`, `Retry`, `Gather`, `Cancel`, `Add`, `Evict`, `Tick`, `Change` |
| `Check` | one `check` from its arguments to its exit code | the inputs, the row about to be written, the CSV buffer, standard output; `Refuse`, `Start`, `Classify`, `WriteDirect`, `WriteBuffered`, `Finish`, `FillUp`, `Kill` |
| `Server` | one life of `serve` from `Run` to the exit code | the main goroutine, the listener, the drain's clock, each client's tokens, each request's place and rows; `GetBucket`, `Allow`, `Refuse`, `Reject`, `Classify`, `Respond`, `Listen`, `Signal`, `Shutdown`, `Drained`, `DrainTimesOut`, `RunFails`, `Tick` |
| `StoreProofs`, `CommandProofs`, `SnapshotProofs`, `RirProofs`, `ClassifierProofs`, `EnrichProofs`, `ResolverProofs`, `ServerProofs` | the theorems; `CommandProofs` has those of `Fetcher` and of `Check` | |
| `MC*` | the instances for TLC | |

`Store` implements `AtomicRegister` under the mapping at its end (`Seen`: the
payload that the directory entry leads to, or `Torn`). `Fetcher` is written
over two such registers and implements `Mirror` under `Promised` (what a caller
sees of a call) as long as its calls come one at a time (`Serial`). `Snapshot`
uses of a fetch only what `Mirror` says: its `Fetch` is `Mirror`'s `Begin` and
`Return` in one step, on one day. `Snapshot` in turn leaves to `Rir` what a table is.
`Classifier` extends `Decision`, whose tiers it gives, and takes as choices what
`Rir`, `Resolver` and `Enrich` answer; `Server` and `Check` take as a choice what
`Classifier` does.
Every variable says beside its declaration what it stands for, and
`PROJECT.json` names the lines behind every definition. Definitions introduced
by "Faulty variant:" are not part of the model: each is one action as a
plausible bug would have it, kept to show that a property can fail.

Histories (variables the code does not have, read by properties only and by no
guard): `acked` in `Store` and `Snapshot`; `since` in a fetch; `intact`,
`quiet`, `floor` in `Snapshot`; `asked`, `hits` in `Classifier`; `said` in
`Enrich`; `said`, `tried` and `crowded` in `Resolver`; `admitted`, `elapsed` and a request's `got` in `Server` (`got` also says
which host is next); `lines` and `left` in `Rir` (`lines` also counts against
the bound).

### Modelling decisions

- Time and versions. The registry publishes increasing versions, and a tag
  identifies what it came with. In `Snapshot` a version is a day.
- File system. Writes reach the disk at any moment or never; only `fsync` makes
  sure. An `fsync` of the directory covers both of a key's entries. A rename is
  atomic in memory and on disk. After a power loss a file that was not synced
  can have any length and, page by page, new data, old data or zeros. `raw/`
  itself is taken to exist on disk. Windows, where `syncDir` does nothing, is
  not modelled.
- A fetch is minutes (the client's timeout) and a day of `Snapshot` is 24 hours, so
  `Fetch` is one step there: the body and the sidecar's `FetchedAt` are of one day.
  `Fetcher` has the publication of a new version between any two of its steps.
- `Snapshot` has both deployments of the repository. In k8s the CronJob runs
  `update-db` every day (`scheduled` from the start). In compose the updater's
  container waits for a healthy server (`docker-compose.yml:65`, `StartUpdater`),
  and the first snapshot comes from `bootstrap`, which runs `update-db` if the
  snapshot's name does not exist (`bootstrap.go:41`). The `entrypoint.sh` that the
  compose file names is not in the repository; `tasks/plan.md:276` and
  `CHANGELOG.md:106` have `bootstrap` in its place, so the model does.
- `Fail` in `Fetcher` and `Snapshot` stands for an error return and for the
  death of the process at that step: both leave what was published.
- `LoadSnapshot` can see a mixture of two versions. Nothing in the file
  ties its pages together, so it may pass or fail; the model has both outcomes.
- In `Store` an error path removes its tmp file. Where that `os.Remove` fails (its
  error is dropped) the tmp file stays as after a `Kill`, which `OnlyCrashesLeakTmp`
  counts as a crash. That `cache clear` removes and makes `raw/` without an fsync
  of its parent is the same matter as `raw/` being on disk.
- A source in `Classifier` answers with a country or misses; `Enrich` shows
  what is behind a miss. Which addresses are reserved, which suffix is whose,
  and what a page's text says are choices.
- In `Rir` equal rows count once (a copy of a row changes no answer), and the
  IPv6 lines have prefixes that start at their first address, as registries
  write them. `LookupASN` is the IPv4 branch again.
- In `Server` a tick is the time in which a bucket gains a token, and the ticks
  of all buckets fall together: a bucket made between two ticks gains its first
  token early, never late. A lookup in a bucket and the taking of a token are
  two steps, as in the code, whose mutex covers only the first. What `net/http`
  does (connections, idleness, `Shutdown`'s polling) is taken from its
  documentation. A response that the write deadline cuts off counts as answered.
- In `Server` a client is a key that `clientIP` returns. It takes `X-Forwarded-For`
  as it comes (`middleware.go:103`), so what the limiter promises it promises for
  each key: that a key is one client is for the proxy in front to see to.
- In `Enrich` a source has two documents about the host, each with a country,
  without one, or absent (`NoDoc`: an empty body, an error status, nothing
  archived). Which of them a fetch goes on to differs: the content scan takes the
  http page only where there is no https page (`scan.go:86`), the archive is
  searched for the https page when it has no http page (`wayback/client.go:73`),
  RDAP goes on to the registrar when the registry's record has no country.
- In `Enrich` a lookup takes at most `MaxLag` ticks between the source's answer
  and its cache write: every client has a timeout. It is seconds, the TTL a week,
  so `EnrichAssumption` has `MaxLag` within the TTL.
- In `Resolver` a lookup is two queries, one for each family of addresses, each
  with its tries; `LookupNetIP` answers with what the successful ones found. The
  dials of all of them share the index. Its read and its increment are two
  steps, and the increment may use the value read or read it anew: the code has
  a data race there, and these are the outcomes of a build that reads and writes
  whole words. A list without servers is a list of one. Which entry the LRU
  drops is left open (`Evict`): the hosts of an instance are a few of the ten
  thousand that it holds. `net.Resolver` may let two lookups of one host share
  their queries; here each has its own. An address is the answer that it came
  from: what DNS said at one moment.
- In `Check` a CSV buffer is counted in rows; a write to a full output leaves any
  part of what was to be written, with or without a torn row. A signal is no
  step: it only cancels the context, the rest of the lookups fail, which
  `Classify` can do anyway.
- In `Rir` the decomposition's `size` and its cursor wrap as `uint32` does;
  `BlocksAreTheRow` holds it against the set of addresses of the row.

## 3. Runs

| run | shows | instance |
|---|---|---|
| `store` | whole files, durable acknowledgements, no leaks without a crash, open files frozen, refinement of `AtomicRegister` | 2 writers, 1 reader, 4 inodes, 2 payloads of 2 pages, 3 calls, 2 crashes |
| `fetcher_one_updater` | `RawCoversMeta`, `FetchIsFresh`, `CatchesUp`, refinement of `Mirror` | 1 updater, 3 versions, 3 faults |
| `fetcher_two_updaters` | `CatchesUp` violated | 2 updaters, 2 versions, no fault |
| `classifier` | precedence, order of sources and of tiers, evidence, no signal lost, agreement with `Decide` | 3 countries, every subset of sources |
| `classifier_tier` | violation | the same |
| `snapshot` | quiet loads exact, servers come up | both deployments, 1 server, 3 pages, 2 days, 2 runs, 2 faults |
| `snapshot_ready` | violation | both deployments, 1 server, 2 pages, 4 days, 1 fault |
| `enrich` | cached countries were said, answers catch up | 2 processes, 2 countries, TTL 1, lag 1, 1 fault, 1 change |
| `resolver` | hits were said, undisturbed lookups try every server, answers catch up | 2 requests for one host of both families, 2 servers both up or both down, 2 tries, TTL 1, lag 1, 1 event |
| `server` | the limiter is strict and fair, batches complete, exit 0 clean, a signal ends the process | 2 requests, 2 clients, buckets of 1, batches of 2, drain of 1 tick |
| `rir` | answers are covered, covered addresses found, rows say what lines say, prefixes are the row | words of 2 bits, 3 lines, 2 countries |
| `check` | rows answer inputs, exit 0 means written | 3 inputs, 2 arguments, 2 lines, 4 formats, a buffer of 2 rows |

Why these bounds are enough. `store`: two writers can each overtake the other
at every step, the third call overwrites or clears the result, and four inodes
leave one for each writer, one published and one held by the reader or the
disk; the second crash can hit what the first left. `fetcher`: three versions
let one be published between any two steps of a call and again between
calls; three faults can be a failure, a clear and a power loss. `snapshot`:
with three pages a load has a page before, in and behind the writer's place, and
two faults can tear the first snapshot and then what replaced it.
`enrich`: entries of age 0, 1 and expired all occur, and two processes are what
a race on one file takes. `rir`: with two-bit words there are prefixes shorter
than, as long as and longer than a word, counts that end at and beyond the
address space, and three rows make searches of two probes. `server`: one
request can hold the client's only token while the other asks for it, before and
after it comes back, and the drain can end before, at and after the end of each;
a batch of two has a host that fails or is filtered before and after one that
is not. `MaxElapsed` stops a bucket's age from growing: it is beyond the two
requests that a life has. `resolver`: two requests for one host race for its
entry, four queries race for the index, entries of age 0, 1 and expired occur,
and the one event is a moved host, a lost packet or a timeout; with both servers
down a lookup makes all its dials, and two times two tries go round the two
servers. `check`: an input can be given twice among the arguments, in the file or
in both, and a buffer of two rows is full after the header and one row.
The bounds `MaxCalls`, `MaxCrashes`, `MaxVersion`, `MaxFaults`, `MaxDay`,
`MaxRuns`, `MaxChanges`, `MaxRows`, `MaxElapsed`, `MaxEvents`, `MaxArgs` and
`MaxLines` stand in guards or in `Init`. Symmetry is used in
`store` and `rir`, which check no liveness.

No run turns the deadlock check off. A classification or a check that is over
stutters explicitly; the other components always have a step.

### Fairness

- `Fetcher!FairSpec`: weak fairness of the steps of `Fetch`. `update-db` runs
  every day (`deploy/k8s/cronjob.yaml:10`, `restartPolicy: OnFailure` at line 27),
  the HTTP client and the system calls return. Faults, publications, clears and
  write-backs happen or not. That one updater runs at a time is
  `concurrencyPolicy: Forbid` (line 12).
- `Snapshot!FairSpec`: weak fairness of `update-db`, of the start of the updater's
  container, and of each server's load. `Fetch` is enabled only when something runs
  it: every day once `scheduled` holds (the CronJob, or the loop of compose's
  updater), and otherwise in `bootstrap`, when the snapshot's name does not exist;
  `restart: unless-stopped` (`docker-compose.yml:5`) runs that container again when it
  exits. `StartUpdater` is docker's: the health check of a server that is up
  succeeds. So the fairness promises no run to a compose deployment whose first
  snapshot is torn, and `ServersComeUp` has that state (`Stranded`) as its one
  exception. It is a state in which the program really stays: without the
  exception TLC finds it.
- `Enrich!FairSpec`: time passes, lookups end, and the host is looked up again.
- `Resolver!FairSpec`: time passes, every step of a call is taken, and the host is
  asked for again. A query that waits for a server that is down comes to its
  next try, because the dial has a deadline of `net.Resolver`'s own. Timeouts,
  lost packets, moved hosts and evictions happen or not.
- `Server!FairSpec`: time passes and the main goroutine runs. Requests have no
  fairness: a handler may never return, and `SignalEnds` holds all the same,
  because `Shutdown` has a deadline (`server.go:87`).

## 4. Where code and documents differ

Each has a run that TLC finds violated; `PROJECT.json` quotes the lines.

1. `fetcher_two_updaters`: no command takes the lock of `cache/lock.go`, though
   `docs/cache.md:63` says that it guards the updater against the server. Two
   updates can end with the older payload under the newer sidecar. From then on
   every 304 confirms the older payload, until the registry publishes again.
2. `classifier_tier`: after a DNS failure, an answer from the apex's archived
   page gets no tier (`classifier.go:295`).
3. `snapshot_ready`: `/readyz` tests the age of the raw file's sidecar, not of the
   table in memory (`docs/http-api.md:12`). In the trace a server loads the first
   day's table, the next day's `update-db` refreshes the sidecar, and two days later
   the server is ready with a table that is three days old.

Differences that need no run; where a model is concerned, it does as the code:

- The parsed snapshot is overwritten in place (`subcommands.go:219`), and so are the
  caches' entries; `docs/cache.md:27` and `:75` say that every write goes through a
  tmp file and a rename. A load during an update may mix two versions
  (`Snapshot`), and a reader may find an entry empty or torn (`Enrich`).
- `docs/cache.md:58` and `:70` have the snapshot rebuilt on a `raw_sha256` mismatch, and a sweep
  and a check of it at the start; `update-db` writes a zero hash and nothing
  compares it. In the compose deployment this matters: a first snapshot that a kill
  or a loss of power has left torn exists, so `bootstrap` does not make it again
  (`bootstrap.go:41`), the server exits on it, and the updater, which would, is
  started only when the server is healthy (`docker-compose.yml:65`). It stays so
  until somebody removes the file: `Stranded` of `Snapshot`.
- A failed request is cached like an answer without a country
  (`tlscert/client.go:60`, `rdap/client.go:69`) and hides the source until the entry
  expires. So does an interrupted `check`: its remaining lookups fail at once.
- `resolver.go:60` says that `Resolve` returns all IPv4 and IPv6 addresses; when one
  family's query fails, the other's addresses alone are returned and cached.
- `docs/architecture.md:101` has the resolver run the two lookups "via `errgroup`";
  `net.Resolver` does it, and `dial` sends every one by UDP (`resolver.go:52`).
- `docs/confidence-tiers.md:31` promises a row for every input. The last CSV rows of a
  `check` are written by a deferred `Flush` whose error is dropped
  (`subcommands.go:155`): with a full output they are lost and the exit code is 0.
  `ExitZeroWritesAll` says how many rows that can be.
- A host that fails in a batch has a row with an empty confidence
  (`handlers.go:63`), where `docs/architecture.md:96` has it "unknown".
- `docs/cli.md:77` and `config.go:2` put flags before the environment before the
  file; `--listen`, `--rate-limit` and `--timeout` have defaults and are read whether
  given or not, so that the settings of the other two for them (`REGIONCHECKER_PORT`,
  `_BIND`, `_RATE_LIMIT`, and for `check` `_DNS_TIMEOUT`) have no effect.
- `docs/architecture.md:76` has ranges decomposed into prefixes when the table is
  built; `Build` makes one row of a range, and `CIDRsFromV4Count` is called by tests.
- `docs/cache.md:82` has `cache clear` wipe the enrichment caches, too; it removes
  `raw/` and `parsed/` (`subcommands.go:272`), as `docs/cli.md:10` says.
- `update-db --source` writes the same parsed file whatever the source, while
  `/readyz` reads the sidecar of the configured one. `--force` is read nowhere.
- The order of the sources. `docs/architecture.md:86`, `docs/flowchart.md:56`,
  `docs/confidence-tiers.md:9` and `docs/README.md:18` put the CT log after the content
  scan and RDAP; the code asks it right after the TLS certificate
  (`classifier.go:373`, with a comment that says why, and `enrichApex` at line 189).
  `docs/architecture.md:92` and `docs/flowchart.md:62` put the generic-TLD heuristic
  after Wayback, and the former after the apex; the code has it before both
  (`classifier.go:421`). `Ladder` of `Classifier` is the code's order.
- `docs/http-api.md:24` and `:55` have a filter `confidence` for a check and for a batch.
  The batch's is decoded and never read (`handlers.go:43`); `handleCheck` reads only
  `host`, none of `fast`, `country` and `confidence` (`handlers.go:27`). `Server` has the
  batch's filter by country only.
- `docs/flowchart.md:138` ends the drain with exit 0; a drain that times out exits 1
  (`server.go:89`, `main.go:48`), as in `Server`.
- `docs/http-api.md:65` has the limiter keyed by an LRU; it is a map that drops
  nothing (`middleware.go:80`).

## 5. What is proved

All theorems hold for every value of the constants that the named assumptions
allow (`ConstantsAssumption`, `FetcherAssumption`, `SnapshotAssumption`,
`RirAssumption`, `CountriesAssumption`, `EnrichAssumption`, `ResolverAssumption`,
`ServerAssumption`, `CheckAssumption`: special values are no ordinary values, bounds are natural
numbers, `Pages`, `MaxVersion`, `MaxDay`, `Bits`, `Burst`, `MaxBatch`, `NumServers`
and `Attempts` are not zero, `BufferRows` is at least two, and `MaxLag` of `Enrich` is within its TTL).

- `StoreProofs`: `TypeCorrect`, `AlwaysWhole`, `Durability`,
  `NoLeakWithoutCrash`, `OpenFilesNeverChange`, `Refinement`. The properties are not
  inductive: that the published file is whole rests on what the rename
  publishes. The invariant `IInv` adds `Private` (the inode of a running call is
  nobody else's, neither a published file nor one a reader holds),
  `SyncedIsWhole` (what is about to be renamed is complete in memory and on
  disk: the fsync before the rename), `PublishedIsWhole` (of both copies of the
  directory entry) and `Ranks` (disk behind memory, acknowledgements behind
  disk). Every step of `Next` is one step of the proof, and one conjunct below it.
  `Refinement` maps each step to a step of the register or a stutter: `Rename`
  to `Publish`, `SyncDir` to `FlushAndAcknowledge`, `Clear` to `Remove`,
  `PowerLoss` to `Crash`.
- `CommandProofs`, of the fetch: `TypeCorrect` for any number of updaters at once;
  `SidecarCovered`, `Freshness` and `Refinement` for any number whose calls come one at
  a time (`Spec /\ []Serial`). `Serial` is a hypothesis because the code does not
  enforce it: `concurrencyPolicy: Forbid` does for the CronJob, a single updater
  does (`OneUpdaterIsSerial`), and so would the lock of `cache/lock.go` if a command
  took it. The next updater may find whatever a failed or killed one has left.
  `RawCoversMeta` speaks of what system calls see; a
  loss of power replaces either file by its copy on disk, so the invariant has
  it of all four pairs of copies (`CopiesCover`), that nothing is from the
  future (`Past`, `Begun`), and for each place in `fetchOnce` what the rest of it relies on
  (`Asking`, `Replacing`, `Finishing`). A call that has a new body needs that
  no copy of the sidecar is ahead of that body, which is where a call beside it
  breaks the proof, as it breaks the program; a call that has ended relies on
  nothing any more (`Resting`). `Refinement` maps `ReadMeta` to `Begin`, the last
  sync to `Return`, a failure, a 304 whose payload has gone and a loss of power
  to `Abort`, and the steps between to stutters.
- `CommandProofs`, of `check`: `CheckTyped`, `RowsInOrder`, `NothingLostButABuffer`,
  for any inputs, any number of them and any size of the CSV buffer. The
  properties speak of standard output alone, and are not inductive: the row that
  comes next is in `row`, in the buffer or in `todo`. The invariant `Underway`
  says that output, buffer, row and `todo` are together, in this order, the
  header and the list of `dedup`; `Written` says what is left of that once the
  command has ended, with a torn row at most at the end, and by how much an
  exit code of 0 may be short. That `dedup`'s list has each input once, in the
  order of first use, is proved by induction over its loop (`DedupPass`,
  `DedupKeepsFirsts`), and so is that `collectInputs` passes on nothing that it
  should skip (`GivenIsInputs`).
- `SnapshotProofs`: `TypeCorrect`, `ExactLoads`, for any number of servers, pages and
  days, in both deployments. That an undisturbed load is one version rests on what
  the file is between two truncations: pages of one body (`Uniform`) that is not
  older than any acknowledged run, because a run asks the registry after the
  ones before it (`Order`); a load that is not disturbed has copied the first
  pages of that file (`Copying`).
- `RirProofs`: `Typed`, `NoInventedCountry`, `NoMissedRow`, `SearchIsBinary`,
  `RowsAreLines`, `BlocksAreRows`, for words of any width. `EndsAscend` is the lemma
  that makes the search legitimate: disjoint rows in the order of their starts
  are in the order of their ends. The invariant says that every row before `lo`
  ends before the address (that needs the lemma, and so the absence of overlaps)
  and that the row at `hi` does not (that does not). `RowsAreLines` rests on
  `Recorded` (each row is the one that Build makes of some line, and each line
  has its row) and on what a row is for a count (`V4Says`), for a prefix that ends in
  the first word (`ShortPrefixSays`) and for one that ends in the second
  (`LongPrefixSays`), where the subtractions and shifts of the code wrap.
  `BlocksAreRows` is an induction over the addresses that remain: the block that
  the loop cuts off is the largest that is aligned and fits (`ExponentIsLargest`),
  what follows it is decomposed as the loop's next pass does it (`CIDRsIsCut`),
  and no later block can be the other half of it (`NoLaterHalf`). Both need the laws of
  powers of two, which the same module proves by counting subsets (a set of n has
  2^n of them, says the library), since no backend knows what `^` is.
- `ClassifierProofs`: `TypeCorrect`, `DomainWins`, `TierHasItsEvidence`,
  `SignalsAreKept`, `StrongerSourcesComeFirst`, `SignalTiersComeInTurn`, `LadderIsTable`,
  `DecideIsDetermined`, for any set of countries. Each property of the result needs a fact of the ladder
  before it: past the mismatch layer the domain's and the address's countries are
  never both known (`OneAtMost`), the layers say what DNS has said (`Placed`), and as
  long as the ladder goes on nothing has been found (`Empty`). The order of the
  lookups needs where in the ladder each layer stands (`Position`, `Sited`), and
  that the lookups made are just the available ones above it (`Descent`): a layer
  that is passed over without a lookup is one whose source is not there. A tier
  without a source is then given with just the lookups above its place made
  (`Turn`): none for the ccTLD's, those about the input up to RDAP for the host in
  Indonesia, all for the fallbacks.
  `LadderIsTable` adds what `Decide`'s table says of signals without a source,
  case by case, against the branch of the ladder that ends with them.
  `DecideIsDetermined` is about `Decide` alone: the order of its map matters exactly
  when its four signals are two pairs, since each is a vote for one country
  (`VotesAreShared`).
- `EnrichProofs`: `TypeCorrect`, `CachedCountriesWereSaid`, for any number of
  processes and any TTL. A process carries its answer from the source to the file
  (`Carried`); what the file has was said within its age and a lookup's time
  (`Kept`), which a torn or expired entry need not be.
- `ResolverProofs`: `TypeCorrect`, `HitsWereSaid`, `AloneTriesEveryServer`, for any
  number of requests, hosts, servers and tries. An answer is carried from DNS to
  the entry and from the entry to the caller with its age (`Carried`), so that a
  removal of another entry than the one tested costs nothing but a query. The
  servers that an undisturbed lookup has dialled are those just behind the
  shared index, as many as its two queries have made dials (`Covers`; `GapGrows`
  is the step of one dial); the index is at most `NumServers` ahead of any server,
  and `crowded` is where another request's dials break that account.
- `ServerProofs`: `TypeCorrect`, `LimiterHolds`, `LimiterIsFair`, `CleanExit`, `BatchesAreWhole`,
  for any number of requests and clients and any bucket and batch. `LimiterHolds` is
  an account: tokens left plus requests let through never exceed a full bucket
  plus the ticks since it was made (`Account`). `LimiterIsFair` is the same account
  read the other way: what is missing from a bucket its own client has taken.
  Both need that whoever holds a place in front of `Allow` has a bucket
  (`AskersHaveBuckets`) and that nobody was let through without one
  (`FreshClients`). `CleanExit` needs that requests are cut off only by the exit
  (`CutAtTheEnd`). `BatchesAreWhole` says of a batch that is not yet answered what the
  property says of one that is (`RowsFollow`). The types need in addition that a
  request has no more rows than answers and no more answers than a batch may
  have hosts (`Sized`).

## 6. What is only model-checked

- Liveness: `CatchesUp`, `ServersComeUp`, `SignalEnds`, and `AnswersCatchUp` of
  `Enrich` and `Resolver`. The prover does not handle fairness.
- That a system never stops where it may not (`CHECK_DEADLOCK`): `ENABLED` is beyond
  the prover, too.

Every safety invariant and every action property of the passing runs is proved.
The library's induction theorems take an operator as a parameter, which the
installed provers cannot instantiate; where a proof needs an induction, it is
stated over a set instead, and follows from the well-foundedness of the naturals
(`Induction` of `RirProofs` and `CommandProofs`).

## 7. What is not modelled

- Regular expressions over pages and organisation names, tables of suffixes and
  reserved prefixes, the RDAP documents' shape, the MaxMind reader, Team Cymru's
  DNS format: data without state. The classifier takes their results as choices.
- The text of rows, the configuration overlay, metrics, logging, flags: formatting
  or a pure function read once.
- `cache.LRU`, `Locker`, `CymruClient`, `VerifySHA256` and the singleflight of
  `Fetch`: exported or in place, but no command takes the lock, makes the LRU or
  fetches one URL twice in a process, so no behaviour of the program depends on
  them. Two of them would matter if it did: an expired entry of `cache.LRU` is
  removed after the Get that saw it (`mem.go:41`), as in `Resolver`, and
  concurrent fetches of one URL share the first caller's context and key
  (`fetch.go:39`).
- In `Server`: metrics, request IDs and `/healthz`; the growth of the limiter's map.
- In `Snapshot`: a second updater at the same time (`bootstrap`'s `update-db` beside the
  CronJob's) and a removal of the parsed file. `bench` and `cache info` only read.
- In `Resolver`: the length checks on the host, and what `net.Resolver` does inside
  a query (search lists, truncated answers).
- In `Rir`: how a line's fields are parsed, and `LookupASN`, the IPv4 branch again.

## 8. What is left

The core is modelled. What could follow, and what it would take:

1. A second updater in `Snapshot` (bootstrap's own `update-db` beside the CronJob):
   `Fetcher` has it for the raw files; two writers of the parsed file would add
   mixtures of two bodies, which `LoadSnapshot` cannot tell from one.
2. `walkEntities` of the RDAP parser over bounded trees of entities, against a
   definition of "the first registrant's country".
3. That a `Locker` makes calls come one at a time, when a command takes it; what
   follows from it for `Fetcher` is proved.
4. Theorems over the whole composition: `Mirror` joins `Fetcher` to `Snapshot`; that what `update-db` writes is what `LookupIP`
   searches would join `Snapshot` and `Rir` too, which are proved one by one.

## 9. Running it

    tlc -config MCStore.cfg MCStore        # and so for each run of PROJECT.json
    tlapm StoreProofs.tla                  # and so for each of the eight

The runs finish in seconds, `MCEnrich` in half a minute, `MCRir`, `MCServer` and
`MCResolver` in one to two minutes.
