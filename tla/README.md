# JanusFS: TLA+ models, TLC runs and TLAPS proofs

JanusFS mounts a source tree a second time through FUSE and shows each path with
one of three faces - ALLOWED (as it is), MASKED (secrets overwritten with `*`) or
HIDDEN (EACCES) - decided by `.janusfs.yml` files in the tree. A user may edit the
policy, and the files, at any time and with handles open; daemons start, crash and
are replaced with mounts attached. What this project is about is whether the faces,
and the mounts, stay right meanwhile.

Paths below are relative to the repository root.

## 1. The system

| component | state | operations | interacts with |
|---|---|---|---|
| decision engine, `internal/engine` | five atomics: rule set `rs`, generation `gen`, decision cache, its counter, policy fingerprints | `Resolve`, `Reload`, `StaleAncestors` | called by every FUSE handler, the API and `janusfs update`; no lock |
| rules, `internal/rules`, and the linter over them, `internal/check` | none: a `RuleSet` is immutable | `Discover`, `Resolve`, findings | called by the engine, `janusfs check` |
| redaction cache, `internal/provider` | map path -> entry, LRU list, `curBytes`, one mutex; a goroutine per rebuild | `ReadAt`, `Invalidate`, `InvalidateAll` | read handlers; `reload` |
| redaction, `internal/redact`, and patterns, `internal/patterns` | a backlog per stream | `Redact`, `Stream` | the cache |
| FUSE adapter, `internal/mount` | file handles: masked, revocable, unwrapped; the backing tree | node and handle operations | engine, cache, backing file, observer |
| mount runtime, `cmd/janusfs/runtime.go` | one mount's engine, cache, recorder, serve loop | start, stop, `reload` | daemon, adapter |
| daemon, `cmd/janusfs/daemon.go`, watchdog, pidfiles; registry in `internal/config` | mounts map under two mutexes; `mounts.json`; kernel mounts | mount, unmount, resume, shutdown, sweep | clients over a control socket |
| recorder and history, `internal/obs`, `internal/history` | bounded queue, batch buffer, SQLite | `Emit`, drain, flush, `Close` | every handler; `stop` |
| exec and namespaces, `internal/execrunner`, `internal/nsexec`, `cmd/janusfs/nsmount_linux.go` | a private mount namespace, two processes and the command | run a command behind a mount | kernel, adapter |
| API, dashboard, doctor, CLI | none of their own that others read | read-only, or calls of the above | everything |

What is hard in it: the engine is lock-free and a reload stores its five atomics one
by one; a rebuild outlives the cache entry it was started for; bytes are copied
outside the cache's lock; a handler decides first and acts later, with a reload or
another operation in between; policy files are read and fingerprinted at different
moments; a stream is masked in pieces; daemon, watchdog, next daemon and `umount`
share a registry file and the kernel's mount table without a lock between them, and
each may die between any two steps; the end of a mount races its last handlers; and
`exec` is three processes that signals reach at any moment.

What makes each part correct:

* engine - a decision is never older than the policy published when it was asked
  for; an edit is noticed by the next open below it;
* cache - bytes are always redacted with the caller's patterns and as new as the
  caller's stat (or knowingly stale); map, list and accounting agree; the budget
  holds; nobody waits for ever;
* adapter - a reload applies to open handles, for real bytes and for patterns; no
  order of operations moves or changes a protected file;
* rules - the operator's global rules are a floor, hiding is hereditary, what does
  not compile hides, globs read as gitignore's, the linter says nothing untrue;
* redaction - streaming masks what whole-buffer redaction masks, in bounded memory;
* daemon - a mount is recorded while it is served and swept when its daemon has died,
  is never stacked, and stays gone once stopped;
* recorder - nothing is sent after close; what was queued is written once or lost;
* exec - at the source path the command never sees the real tree, the host never sees
  the mount, no failure looks like success, signals arrive.

Where the code falls short of one of these, section 4 says so, and the property is
stated with the exception.

`PROJECT.json` lists every component with its status, and every hazard at its line.

## 2. The modules

| module | models | uses |
|---|---|---|
| `Engine` | `internal/engine/engine.go`, the walk of `rules.Discover` | |
| `RamCache` | `internal/provider/provider.go`, `contentKey` | |
| `Mount` | `Open`, `Create`, the handles' reads and writes, `mountRuntime.reload` | extends `RamCache`; the engine by what `Engine` establishes |
| `Node` | the ten operations of `janus_node.go` that change the tree | |
| `Rules` | `rules.go`, `resolve.go`, `glob.go`; findings of `check.go` | |
| `Redact` | `redact.go`; the oversize read of `provider.go` | |
| `Daemon` | `daemon.go`, `watchdog.go`, `umount.go`, `pidfile.go`, `control.go`, the registry of `config.go` | |
| `Recorder` | `obs/recorder.go`, `history/store.go`, `mountRuntime.stop` | implements `LossyLog` |
| `LossyLog` | what recorder and store promise together | |
| `Exec` | `exec.go`, `runner_linux.go`, `nsmount_linux.go`, `Adapter.Mount` | |
| `MC...` | constants for TLC | |
| `EngineProofs`, `CacheProofs`, `RulesProofs`, `RedactProofs`, `NodeProofs`, `DaemonProofs`, `RecorderProofs`, `ExecProofs` | theorems and proofs | `CacheProofs` is about `RamCache` and `Mount` together |

Operators that begin with a comment "Faulty variant" are plausible bugs of the
definition that follows them; each is used to see that a property fails when the
code is wrong in that way.

### Engine

State: `rs`, `gen`, `cacheEntries`, `configFP` are the fields of the same name;
`cache` is the number of the current `sync.Map` and `maps` all that were ever
allocated, since a goroutine may go on storing into a map that was replaced. `my`
holds each caller's program counter and locals; `disk` is what is in the policy
files. Each atomic load or store is one action (`LoadCache`, `LoadRs`, `Count`,
`Swap`, `StoreRs`, `AddGen`, ...), each directory of `Discover`'s loop and each stat
of `buildConfigSnapshot` or `StaleAncestors` too. `genSeq` and `raced` are history
variables that only properties read.

Abstracted: a policy file is a version number; its fingerprint is the same number
(`dirConfigFP` compares mtime and size, and an edit that changes neither is outside
the model); a decision is the tuple of the versions that cover the path, the finest
thing `RuleSet.Resolve` can depend on. A file that does not parse is a version like
any other: `Discover` makes a (poisoned) level of it and `Reload` installs it.

### RamCache

State: `entries`, `lru`, `curBytes` are the fields of the same name; `ents` holds
every entry ever allocated with the phase of its rebuild; `rd` the readers' locals.
A critical section of `mu` is one action; the stat, the rebuild's read of the file,
`close(ready)`, the wait and the copy of the bytes are actions of their own.
`zeroed` are the entries whose slice was overwritten, `orphans` (history) those
detached before their rebuild finished.

Abstracted: file contents, with mtime, size and inode, are a version number;
redacted bytes are the pair (version, pattern signature). Overwriting a slice that a
reader is copying is a data race: the model has the outcome "all zeros" and the
outcome "copied before".

### Mount

Each handler thread has at most one handle: `masked` (`maskedHandle`), `revocable`
(`revocableHandle`) or `created` (what `Create` returns: go-fuse's own handle). The
cache is `RamCache`, all of it; a masked read is `MaskedRead` (decision and stat),
`ContentKey` (which loads the generation), the steps of `ReadAt`, `MaskedReply`. A
`Resolve` answers by any rule set from the one published when the handler began to
the one installed when it decides: that is what `NoStaleServe` of `Engine` says.
A reload stores the rule set, bumps the generation and later flushes the cache, in
three steps anything may come between. Writes through `.janusfs.yml` files, which
`Open` and `Create` refuse first, are in `Node`.

### Node

State: `tree` gives each name nothing, a directory or a file's inode; `call` the
operation each FUSE thread is in. An operation is three steps, as in the code: the
check of the name (`isConfigFile`, `Lstat`, `Resolve`, `gate`), for two names the
same again, and then go-fuse's `LoopbackNode` does it by name, on whatever the tree
has become, or fails with an errno. The policy is fixed: `Mount` has the reloads.
A directory that is renamed carries its files along (`carried`), which the code
means to allow.

### Rules

State: the policy files and the compiled `RuleSet`; `Edit` and `Discover` change
them. `Discover` may miss directories it cannot list. `Resolve` and the findings of
the linter are operators over the compiled levels, named as in the code. A name is a
tuple of characters so that the translation of a glob into a regular expression
(`TranslateGlob`, `MatchString`) is really done, and compared with gitignore's own
reading (`GitMatch`), component by component. Left out: case folding, `?` and
classes, the grammar of a mask line.

### Redact

State: one read of one file: `buf` is the backlog, `out` what was written. A chunk
read, short or full, is one step, with the flush the code does after it. The bytes
are three characters and the patterns six shapes: a bounded match, a line-wise
built-in with a capture group, the same as a custom expression, a built-in whose
value stands on the next line, one from a mark to the next whatever is between, and
the whole-file sentinel. These are what `classify`, the prefilters and the flushes
tell apart. `cuts` is a history variable: where flushes ended.

### Daemon

State: for each of the daemon processes started in turn, where `runDaemon` is
(`pc`), the request that holds `opsMu` (`op`), `d.mounts`, its watchdog and sweep;
the `umount` command (`cl`); and what all share: the socket, the mount table
`kernel`, pidfiles, and the registry, whose rewrite is three steps - `LoadMounts`,
truncate, write - that anything may come between. A crash is possible at every step
and leaves the mounts attached without a server. A mountpoint and its source are one
value. `isMountpoint` denies a dead mount: the kernel may answer nothing from its
cache (`mount.go:114-125`), so `Lstat` asks the server that is gone and fails with
ENOTCONN. A daemon's dashboard port is a flag; `Listen` lets it be that of a daemon
that is up, which ends the new one, or another, which `apart` records.

History variables: `stopped`, what `umount` has taken down, by a daemon or directly, with
or without a daemon running; `overtaken`, those of it a resume under way had already read from
the registry; `raced`, `late`, `apart` and `failed`, the overlaps and failures under which
the properties promise nothing.

### Recorder and LossyLog

State: the queue `ch`, the goroutines `drainHistory` and `batchedWriter` with what
they hold, the store's buffer, the committed rows, and `mountRuntime.stop` with its
grace periods against the kernel's side of the mount. A send on the closed queue ends
the process (`panicked`). `LossyLog` is a log that loses events but writes none
twice and none that was lost, and is closed with nothing pending; `Recorder`
implements it under the mapping: pending is what is queued, in a goroutine's hand, in
the buffer or in an open transaction.

### Exec

State: where launcher, stage 2 and command are and the codes they ended with; the
namespace (network, private or not, the shadow bind mount, what the source path shows
inside and outside); the goroutine in `Adapter.Mount`; and for each process the signals
pending at the kernel and the one in its `sigChan`. Every step may fail as the code
provides. A signal kills a process that has not called `signal.Notify` yet, or has
called `Stop`. Signals are of several kinds, and a `sigChan` with one in it drops the
next, whatever its kind.

Exit codes are the numbers of the program. A failure before `Run` - settings, no policy,
a bad network mode - exits with 1, a failure of the wrapper with 125, a command that
cannot be started with 125, 126 or 127, a kill becomes 255, and a command may end with
any of these itself. `Confined` is about the source path: the shadow path
(`nsmount_linux.go:122-128`), where the server reads the real tree, is in the command's
namespace as well, and is not hidden from it. The command is taken not to change the
mount table.

## 3. The runs

Deadlock is checked in the runs of `Engine`, `RamCache` and `Mount`, where a
behaviour of a bounded model ends in an explicit stuttering step (`Quiet`,
`Exhausted`, `MountExhausted`). The others switch it off because their systems end:
the processes exit, the file is read, the bound of commands is used up; that nobody
hangs is stated there as liveness.

| run | instance | shows |
|---|---|---|
| `Engine` | 3 callers, a root and a subdirectory, 1 key, cache of 1; 4 calls while nothing is edited and every directory can be read, 2 calls with an edit and walks that miss directories | `CacheFresh`, `NoStaleServe`, `TypeOK`: no interleaving with overlapping reloads and cache swaps serves an old decision; `EditsNoticed`, `OpenSeesEdits`: fingerprints tell every edit, and every directory a walk missed, unless an edit raced a reload |
| `RamCacheReads` | 2 readers, 2 pattern sets, 2 versions, 2 misses, fairness | `NoMismatchedServe`, `FreshServe`; `ReadReturns`: no reader hangs on a wedged rebuild |
| `RamCacheEviction` | 2 readers, 2 files, 3 versions (the last too large to cache), 2 misses, a budget the two files do not both fit | `LruMatchesEntries`, `Accounting`, `BudgetRespected` |
| `MountHandles` | 1 thread, rule sets that allow, mask, re-mask, hide; a version too large to cache | `RevokedOnReload`, `MaskedByCurrentRules` |
| `Node` | 2 threads, 3 operations out of ten, 3 policies, 6 names | `ProtectedStays`, `ConfigStays`: between two checks and their effects no protected file moves, changes or gets a second name, and no policy file is removed, replaced or written under its own name |
| `Rules` | a global level and three directories, 9 to 16 contents each, 3 edits, 6 entries | `GlobalFloor`, `HiddenSubtree`, `PoisonHides`, `GlobsAgreeWithGit`; `PoisonReported`, `LintSound`: what hides because it is broken is reported, what is reported as without effect has none |
| `Redact` | all files of up to 7 bytes, 6 pattern sets, 2 ranges, chunks of 4, tail of 3, buffer of 5 | `SamePlaces`, `ReadsMaskAll`, `BufferedExact`, `BacklogBounded` |
| `Daemon` | 2 processes on one dashboard port or two, 2 mountpoints, 2 commands, 1 failing system call, crashes | `LiveRecorded`, `StoppedStays`, `NeverStacked` |
| `DaemonLive` | 2 processes, 1 mountpoint, 2 commands, crashes, fairness | `UmountReturns` |
| `WatchdogSweep` | 1 process, 1 mountpoint, 1 mount, crashes, fairness | violates `DeadSwept`: the sweep passes over a dead mount (section 4) |
| `Recorder` | 2 handlers, queue of 2, batches of 2, 5 events, 2 ticks, fairness | `PanicOnlyAfterGiveUp`, `SessionCounts`, `ImplementsLog`, `StopReturns`, `TypeOK` |
| `Exec` | 2 signals of 2 kinds, commands that end with 0, 1, 127, 255 or are killed, every failure, all network settings, fairness | `Confined`, `ExitCodeFaithful`, `NoOrphan`, `SignalArrives`, `ExecReturns` |

Bounds. Two reloads, or a reload and an edit, and one or two resolvers are what a
race in the engine needs; three callers with four calls contain any pair of them
before and after a third. The run keeps two corners of these bounds (`Corners`): all
calls in a tree that stays as it is, where the races are those of the atomics, and two
calls with an edit, where they are those of the files; both with all callers. A cache of
one entry makes a swap as frequent as a store.
One thread is enough for the handles: its reads give up on rebuilds that finish
later, so it meets entries of its own earlier calls in every state.
In the cache, two misses give an entry that is replaced while it is building, or one
that is evicted for the other, with a second reader waiting for it or copying it.
Theorems (section 5) lift the bound for the properties that matter most.
In `Node`, three operations in two threads put one or two complete ones between the
check and the effect of another. In `Rules`, three edits fill three of the four
levels, and a rule set depends on nothing but the files. In `Redact`, a file is longer
than a chunk, a chunk longer than the carried tail, the tail as long as the bounded
match, and two chunks exceed the buffer. In `Daemon`, a crash, a second daemon and
two commands give every overlap of two processes. In `Recorder`, five events
overflow a queue of two and fill two batches. In `Exec`, one signal can be on its way
while another comes, or fill a channel that then drops the other.

Fairness is weak fairness of steps the Go runtime or the kernel owes: a goroutine or
process that can run is scheduled, `time.After` fires, a pending signal is delivered.
Nothing is owed by a rebuild's `open` or `read`, which may hang for ever
(`RamCacheReads`), by FUSE handlers, the kernel's release of a mount and the flush
ticker (`Recorder`), by users, crashes and starts of daemons (`DaemonLive`), or by the
command and its open files (`Exec`).

## 4. Where the code and its documentation disagree

Met while modelling. Each property named here is stated with exactly the exception the
code needs, so that it would fail without it; `DeadSwept`, which fails wherever it says
anything, is stated as the documentation has it, and run `WatchdogSweep` shows it violated.

Engine and rules:

* an edit between `Discover`'s read and the later stat (`engine.go:230`) is recorded as
  compiled, although `StaleAncestors` is said to report any change since the generation
  was compiled (`engine.go:237`); `EditsNoticed` excepts that overlap;
* the callback of `Discover`'s walk drops the root's own error, so discovery never
  "fails outright" (`rules.go:132`); the next open notices (`EditsNoticed`);
* a policy file that does not parse is installed as a poisoned level, where
  `janus_node.go:196` and `THREAT_MODEL.md:70` speak of keeping the last good rules;
* a poisoned level in the tree can be lifted by a deeper level's `allow: "*"`
  (`docs/knowledge/policy-engine.md:50` has it hide everything below); `PoisonHides`
  excepts it;
* a mask entry whose glob does not compile never matches, so the file stays ALLOWED;
  `rules.go:100` and `check.go:335` call this fail-closed;
* `a/**/b` also matches `a/xb` and `ab` (`glob.go:167`); `GlobsAgreeWithGit` excepts
  an interior `**`; a global glob with a slash never matches;
* `hide: "*"` in a subdirectory also hides that directory itself;
* patterns are deduplicated by name, and the two of `aws-key` share one, so only the
  first is applied (`resolve.go:106`; `patterns.go:244` speaks of a union);
  `GlobalFloor` compares names;
* the redundancy finding takes a negation for a match; `LintSound` excepts levels with
  allow rules.

Cache and redaction:

* bytes of a rebuild that lost its entry stay in `curBytes` (`provider.go:215`),
  although eviction "catches up on the next call" (`provider.go:325`); `Accounting`
  counts them as `orphans`;
* eviction and invalidation zero bytes under a reader that is copying them
  (`provider.go:335`), which are "immutable" once built (`provider.go:94`);
* a failed entry qualifies for a stale serve: 0 bytes, no error (`provider.go:185`;
  "stale-but-still-redacted", `provider.go:176`);
* identical keys may want different patterns, because the generation is loaded after
  the decision (`janus_node.go:803`, `provider.go:41`); the later read fails with EIO;
* a match that a cut of `flushExceptTail` goes through is masked up to the cut only:
  its tail is carried unmasked and no longer matches (`redact.go:270-316`);
* built-ins allow white space, newlines as well, before the value
  (`patterns.go:65`, `patterns.go:71`). A custom `(?m)` expression beside them has the
  set streamed by lines, and where a flush ended between the key and a value on
  the next line the value is written as it is (`redact.go:255`): only the unbounded
  patterns are asked whether lines are safe for them (`redact.go:165`). The set alone, in
  chunks, or the file redacted at once, masks it. `BufferedExact` excepts it;
* the oversize read ends at `off + len`, and a match that goes on past it is none
  (`provider.go:254`: "the result is still correct, just slower"). `ReadsMaskAll`
  excepts these three.

Handles and tree:

* a reload does not apply to the handle `Create` returned (`janus_node.go:576`;
  `SPEC.md:349`); `RevokedOnReload` is about the handles `Open` returned;
* a renamed directory carries its protected files to a name that may be decided
  differently (`janus_node.go:470`); `ProtectedStays` and `ConfigStays` except them;
* `Link` asks both decisions but not `isConfigFile` (`janus_node.go:525-544`), and a policy
  file resolves ALLOWED: it may get a second name through the mount, through which it is
  written to. `SPEC.md:278` has policy files "never writable", `janus_node.go:115-117` and
  `339-340` and `docs/knowledge/fuse-adapter.md:128-140` likewise. `ConfigStays` excepts a
  write to a file that was linked (`linked`). It speaks of policy files that are there:
  `Link`, `Symlink` and `Mknod` do not refuse `.janusfs.yml` as a new name.

Daemon and watchdog:

* the sweep after a daemon's death passes over the mounts it is there for
  (`watchdog.go:102`; `WatchdogSweep`). It asks `isMountpoint`, which answers false when
  `Lstat` fails (`umount.go:120`), and on a mount without a server, with zero attribute
  and entry timeouts (`mount.go:114-125`), it fails with ENOTCONN. The watchdog's help
  ("force-unmounts every recorded mount that is still mounted", `watchdog.go:36`),
  `SPEC.md:512-515` (FR-35) and `SPEC.md:731` (NFR-12) say otherwise,
  `docs/knowledge/cli-and-daemon.md:268` reports a check by hand, and
  `PRPs/02-crash-recovery-watchdog.md:205` names the assumption. For the same reason
  `umount`, once a daemon has answered it, leaves a dead mount attached
  (`umount.go:94-112`): it clears only what `isMountpoint` confirms. `DirectUnmount`,
  when no daemon answers, does not ask;
* what the sweep does detach is a mount that lives: one a new daemon has resumed in the
  meantime (`watchdog.go:105`);
* a resume after a crash meets ENOTCONN, not the ENXIO `doMount` retries on, fails, and
  forgets the record (`daemon.go:469`);
* an `umount` while a daemon is in its resume finds no socket yet (`daemon.go:166-169`), detaches
  the dead mount and removes the record (`umount.go:134-149`); the resume, which has read
  the record before, mounts and records the tree again. `config.go:296-298` and
  `SPEC.md:160` (FR-5) have `umount` prevent just that. `StoppedStays` excepts it
  (`overtaken`);
* two daemons that start together may remove each other's socket (`daemon.go:123`), and
  then only the dashboard's port stops the second. It is a flag, `--ui-port`
  (`daemon.go:63`, `151-156`): with two different ports both go on, resume the same
  registry and may mount over each other. `NeverStacked`, `StoppedStays` and
  `LiveRecorded` except it (`apart`);
* a request that a shutdown overtakes leaves its mount attached (`daemon.go:481`);
  two processes that rewrite `mounts.json` at once lose records (`config.go:281`):
  `late` and `raced` in the properties of `Daemon`.

Recorder:

* a handler that outlives both grace periods of `stop` sends on a closed channel
  (`recorder.go:170`): `gaveUp` in `PanicOnlyAfterGiveUp`. `SPEC.md:526` (FR-37) has a
  panic in any handler recovered; `resolve` and `maskedHandle.Read` recover
  (`janus_node.go:177`, `702`), and both report the panic by the call that panicked.

Exec:

* the real tree stays bind-mounted at `$TMPDIR/janusfs-nsshadow-*` in the command's own
  namespace (`nsmount_linux.go:122-128`), where the command, which has the same uid, can
  read it for as long as it runs. `exec.go:24-33` ("real, kernel-enforced confinement",
  "inside the boundary") and `docs/knowledge/platform-isolation.md:37` ("no" to whether a
  determined process can evade it) claim more. `Confined` and theorem `Boundary` speak of
  the source path only;
* a failure before the run, such as no policy, exits with 1 (`exec.go:183-186`,
  `main.go:44`), where `SPEC.md:361-362` (FR-25) and
  `docs/knowledge/exec-and-path-parity.md:154` say 125; and a command may itself end with
  1, 125, 126, 127 or 255, so the code alone does not tell whether it ran.
  `ExitCodeFaithful` says what the code does tell;
* a `sigChan` holds one signal and drops another that comes before it is taken, a SIGTERM behind a
  SIGINT for instance (`runner_linux.go:123`, `nsmount_linux.go:220`), where FR-25
  forwards all three: `lost` in `SignalArrives`;
* a signal between `Start` and `Notify` kills a stage and leaves the command behind,
  unsignalled (`nsmount_linux.go:221`, `runner_linux.go:124`): `early` in `NoOrphan` and
  `SignalArrives`;
* an unmount that finds the mount busy leaves `runNSMount` waiting although the comment
  calls it best-effort (`nsmount_linux.go:245-250`): `stuck` in `ExecReturns`;
* after a regular unmount a background process of the command, still in the namespace,
  sees the real tree at the source path too: `Confined` speaks of the time the command runs.

## 5. The proofs

All theorems hold for every value of the constants allowed by the modules' named
assumptions: any number of callers, readers, handlers, daemons, files, levels, rule
sets, signals, and any bounds. The assumptions `EngineConstants`, `RamCacheConstants`,
`MountConstants` and `RecorderAssumption` only type the constants.
`ExecAssumption` says that exit codes are bytes; `DaemonAssumption` adds that the value
for "no mountpoint" is none; `RedactAssumption` types the bounds and names the six shapes of pattern. `RulesAssumption` says that the
directories come in an order with none before one above it, as `filepath.WalkDir` and
`sort.Strings` give them, that the root is one of them and the global directory is not
in the tree, and that policy files are records of globs and references;
`EntriesAssumption` that a tree has the directories its entries lie in. `NodeAssumption`
describes the tree that is mounted: finitely many names, of one or two levels, a file
lies in a directory, and no file has two names to begin with. The last one is the
scope of the theorems: a hard link made in the source tree before the mount, from a
protected name to another one, is another name with its own decision.

Each inductive invariant was an invariant of a TLC run before it was proved.

* `EngineProofs` - `TypeCorrect`, `MemoNeverStale` (`CacheFresh`), `ResolveNeverStale`
  (`NoStaleServe`). The invariant carries the order of the loads: `genSeq` is
  monotone and never ahead of `rs.seq`; a caller past the load of `gen` holds a
  generation that existed, with `floor` the rule set it began with; a caller past the
  load of `rs` holds a decision at least that new. `NoStaleServe` alone is not
  inductive, because a hit copies an entry another caller stored: it needs
  `CacheFresh` for every map ever allocated, not only the current one.
* `CacheProofs`, for `RamCache` - `ServesOwnPatterns` (`NoMismatchedServe`), `ServesFresh`
  (`FreshServe`). The invariant says of an entry that what its rebuild read is at
  least the version in its key and at most the file's, and of a reader about to copy
  that the entry's patterns are its own and, unless it is a stale serve, that the
  entry's key is its own. It uses neither the list nor the accounting.
* `CacheProofs`, for the cache's book - `ListMatchesMap` (`LruMatchesEntries`),
  `AccountIsExact` (`Accounting`), `ResidentBytesFit` (`BudgetRespected`). The
  invariant `CacheBook` (theorem `BookInvariant`) says that a list without repetition
  holds what the map holds, that `curBytes` is the total of the built entries of the
  map and of the orphans, that an entry still being built is in the map or an orphan,
  that the built entries of the map fit the budget, and that an entry of the map has
  the path it is found under. None of the three properties is inductive alone:
  an eviction is right only if list and map agree and the account is exact. The sum is
  taken apart along the entries (`TotalSteps`, `TotalOne`), the list along its
  positions (`WithoutSteps`); that evicting from the back until the account fits
  leaves entries that fit is an argument about the first entry kept.
* `CacheProofs`, for `Mount` - `MountTypes`, `OpenHandlesRevoked` (`RevokedOnReload`),
  `MaskedReadsCurrent` (`MaskedByCurrentRules`). Lemma `CacheStep` shows that every
  step of `Mount` is a step of `RamCache` or leaves it alone, so the cache's invariant
  is inherited; to it are added the order `gen <= pub <= rs`, that a handle about to
  pass real bytes saw ALLOWED in its window, and that a thread inside the cache asks
  for patterns in its window.
* `EngineProofs`, for edits - `EditsSeen` (`EditsNoticed`), `OpensSeeEdits` (`OpenSeesEdits`). The
  invariant `EditInv` follows the loops of `Discover`, `buildConfigSnapshot` and
  `StaleAncestors` by their index: unless raced, one Reload runs at a time, the
  levels it has loaded are those on disk, the fingerprints it has taken are of what it
  loaded, and outside its stores `configFP` is that of `rs` (`NoticeInv`). An Open that
  no edit has overtaken has found the levels below its index as in its snapshot, and
  when it comes to `Resolve` the installed rule set is fresh for its path (`Opens`);
  that a memoized answer is then right needs that whatever is in a map was computed
  from the rule set it is tagged with (`Outs`).
* `NodeProofs` - `ProtectedFiles` (`ProtectedStays`), `ConfigFiles` (`ConfigStays`). What
  a thread does to a name was decided before the tree changed, so the invariant says
  that a thread past its checks has a name that is not the home of a guarded file
  (`Cleared`), and that whatever exists lies in a directory (`Rooted`), without which a
  rename of a file onto a directory's name could bury a guarded one.
* `DaemonProofs` - `NothingOnTop` (`NeverStacked`), `StaysUnmounted` (`StoppedStays`),
  `MountsRecorded` (`LiveRecorded`), for any number of daemons, each on a port of its own
  choice. Six layers, each an invariant on top of those before, with the exceptions of
  the properties as their premises. `Shape`: where a daemon is tells which requests it can
  have, and while one dashboard port is in use (`~apart`) one daemon holds it. `Ready`: a
  request about to mount has a free mountpoint, since nobody else has a request at the
  time. `Updates`: unless raced, one process at a time is in an update of `mounts.json`,
  and the file is torn exactly between its truncation and its write; this is what makes a
  read of a torn file, and a write of an old snapshot, a race. `Alone`: unless raced, no
  daemon has a request for the mountpoint the umount command works on directly. `Kept`:
  no record still to be resumed, no snapshot about to be written and no request that adds
  a record names an unmounted tree - none but those a resume had read before (`Left` is
  `stopped` without `overtaken`). `Known`: a mount is in the map, in `mounts.json` and in
  the snapshot of any update under way; its three parts say it of a mount outside its
  request (`Settled`), of the requests (`Asked`) and of a resume (`Resuming`). Lemmas
  `PcStep`, `OpStep`, `ClStep`, `KernelStep`, ... say which actions change which variable,
  so that a layer is argued over moves and not over 39 actions.
* `RecorderProofs` - `RecorderTypes` (`TypeOK`), `NoPanic` (`PanicOnlyAfterGiveUp`),
  `SessionRow` (`SessionCounts`), `Refinement` (`ImplementsLog`), `NothingForgotten`
  (`Accounted` of `LossyLog`). The invariant: an event is in one place, be it the
  queue, the buffer, the hands of a goroutine, the database or the lost ones (`Apart`),
  and once there (`NoTwice`); the rows are those counted and those a goroutine has
  committed and not counted yet (`Counted`); what `stop` has closed by when
  (`Shutdown`, `Goroutines`). With it, every step of the code maps to a step of the log
  or to a stutter; `Accounted`, proved of the log, is then carried over by the
  refinement.
* `ExecProofs` - `Boundary` (`Confined`), `ExitCodes` (`ExitCodeFaithful`), `Orphans`
  (`NoOrphan`), for any number and kinds of signals and any codes a command may end with.
  The invariant `ExecInv` says that the launcher, stage 2 and the command are in step
  (`Order`), that nothing is mounted or bound before the tree is private and that the
  mount stays from the serve loop's ready until the command has ended or stage 2 died
  (`Mounted`), that a namespace with the host's network was allowed it (`Net`), and where
  each exit code comes from: the child's, the process's own failure while there was no
  child, or a kill (`Ends`). `Confined` is not inductive: that the view is right when the
  command runs rests on where stage 2 stood when it started it; nor is
  `ExitCodeFaithful`, which needs the code of each process to be traced to the next.
* `RulesProofs` - `GlobalRulesAreAFloor` (`GlobalFloor`), `NothingShowsBelowAHidden`
  (`HiddenSubtree`), `BrokenRulesHide` (`PoisonHides`), `BrokenRulesAreReported`
  (`PoisonReported`), `LinterFindingsAreSound` (`LintSound`), for every tree, every
  set of globs and every number of levels. The invariant (`RuleSetInvariant`) is small:
  levels in the order of the walk, the global one first, a poisoned one reported. The
  work is in what `Resolve` does with them, taken as a run of verdicts, one per level:
  a hidden path shows again only by an allow line of a later level in the tree that
  the floor does not stop (`ShowsAgain`); a verdict of the global level alone is kept
  (`FloorKept`); levels with fewer allow lines hide at least as much (`TighterRuns`),
  from which the linter's dead negations are dead; and a redundant level's verdict
  is the one of the level above it (`RedundantVerdict`). `HiddenSubtree` holds of any
  rule set. The proofs never look into a glob: they hold whatever `Matches` answers.
* `RedactProofs` - `StreamKeepsPlaces` (`SamePlaces`), `StreamMemoryIsBounded`
  (`BacklogBounded`), `BufferedIsExact` (`BufferedExact`), `ReadsMask` (`ReadsMaskAll`),
  for files of any length, any sets of the six shapes, and any ranges and sizes of
  chunk, tail and buffer. The first two follow from `StreamInvariant`: what was
  written stands for the first bytes of the file, the backlog for those after it up to
  what was read, and no more waits than may. The other two need `StreamWritten` on
  top: what was written ends where the last flush did and hides every match no such
  end goes through; by lines it ends with a newline, and it is what `Redact` makes of
  those lines if nothing matches over the end of a flush. What `Redact` masks is worked out from below: how long a match is
  (`MatchIs`, `BlockIs`), that the scan finds every match of a pattern but `block`,
  none reaching over the beginning of another (`InlineFound`), that sorting and merging
  cover what the spans cover (`MergeCovers`), hence what each byte becomes (`RedactIs`).
  Then a match is one in every window that has it all (`Window`), only `next`
  goes over a newline, so that masking distributes over any other cut there
  (`ByLines`), and a block that ends in the first bytes of a file is found in them too
  (`BlockFound`).

Sums, filters and recursive functions over a sequence are proved about by induction on a
position. The modules state them as recursive functions; lemma `Recursion` shows that
such a function exists and obeys its equations, `UpTo` is induction up to a number, and
both rest on `Least`, which is the library's `WFMin` with `NatLessThanWellFounded`.

Only model-checked:

* `GlobsAgreeWithGit`, an equality of two interpreters, the compiled regular expression
  run by a fold and git's rule as a recursion over components. It is an induction over
  both at once, and the operator passed to `FoldLeft` is out of the provers' reach;
* the liveness properties `ReadReturns`, `UmountReturns`, `StopReturns`,
  `SignalArrives`, `ExecReturns` (liveness under fairness and ENABLED are beyond the
  prover).

## 6. Plan, and what is not modelled

The components of the plan are modelled, and the safety properties proved but for
`GlobsAgreeWithGit`. Worth doing next: a model of the directory listings, which decide
every name they return on their own.

Not modelled: directory listings, extended attributes and the virtual `.janusfs`
directory of the adapter (read-only, decided by the same `Resolve`); the API server and
the dashboard (they read other components; their reload is `Mount`'s); the remaining
findings of the linter (advice on style, or about git's files); settings, flags,
logging, health and metadata documents (parsing and formatting); the regular
expressions of the built-in patterns (data); `openat2` containment (the kernel's
promise).
