# TLA+ models of ssh-tool

ssh-tool is a desktop SSH manager: a Go backend (`app*.go`, `internal/*`), a
Svelte frontend driven through generated bindings, and a profile (connections,
credentials, settings) in an SQLite store and an encrypted vault. This
directory models the parts of the backend whose correctness depends on the
order of steps of several actors, on crashes, or on calls that fail half way.

## Inventory

| Part | State it keeps | Operations | What is hard | What makes it correct |
|---|---|---|---|---|
| Profile sync: `internal/syncer`, `sync_auto.go`, `Sync*` in `app.go` | per machine: store, `sync_generation*` settings, `sync-pushed.stamp`; per backend: `meta.json`, `snapshot.stb` | push, force push, live pull, staged pull, quick pull, auto-sync loop, flush on quit | machines share a dumb blob store; no lock between the loop, the user and the quit; crash between local and remote writes | no edit is overwritten unseen, "in sync" and "clean" are true, a dirty profile is pushed or reported |
| Backup and restore: `internal/backup` | live `store.db`, WAL, `vault.enc`, sidecar key; `pending-restore/` | Create, Restore (stage), ApplyPending (swap at start) | a process dies between any two file operations | one whole profile runs, nothing is lost, the application starts again |
| Shared bastions: `app_jumppool.go` | map of reference-counted entries, linger timers | acquire, release, linger, watch, stopAll | callbacks that cannot be recalled, builds outside the lock, shutdown | count = riders, no rider cut off, no connection leaked, one dial per prefix |
| Tab transport: `internal/sshchan/lazy.go`, `app_sshchan.go` | one SSH client, one connect in flight | Client, Dial, Invalidate, Close | single flight, late hooks, session dies before it is installed, close during connect | one session, no leak, heals on the next dial |
| SSH sessions: `sshConnectWith` in `app.go`, `internal/ssh/session.go`, `pool.go` | session pool, close-once, the close hook, VPN claims | connect, hook, wait goroutine, disconnect | a session ends at any point of its own connect; what the hook undoes is done again after it | every registry forgets a session that ended |
| Auto-reconnect: `app.go` | reconnect map, remembered forwards | spawn, attempts, cancel, restore forwards | cancel against an attempt in flight, drop during the restore | as above |
| Standing tunnels: `app_tunnels.go` | one entry per connection, its stop channel | start, stop, autostart, connect loop, close hook | a stop or a new start during a connect, a drop before the session is recorded | one loop works on a tunnel; connected means up |
| Port forwards: `internal/ssh/forward.go`, `app_forward_ports.go` | listeners per session | start, stop, session end | start against the session's end | no listener outlives its session |
| Output: `internal/outbatch`, `pumpOutput` and the ring in `session.go`, `Terminal.svelte` | held tail, batch, timer, ring and counter; the pane's watermark and pending chunks | read, push, flush, close; attach, snapshot, live chunks | late timers, attach at any byte, events out of order | every byte once, in order, and in the end |
| MCP plans: `app_mcp_plan.go`, `app_mcp.go`, `internal/store/tx.go` | the staged plan, the manage grant, pending approvals | stage, commit, approve, write in one transaction | staging goes on while the user reads; answers that come twice or late; one store connection | what is written is what was approved, whole or not at all |
| Network profiles: `app_network.go` | VPN tunnels, claims, idle-stop timers | up, down, claim, release, quit steps | claims of sessions that end early | a tunnel without sessions stops |
| Share, presence, prompts, login hold | small request/answer maps | see the files | timeouts, answers that come late | answered once |
| Vault, store, inventory, updater, importers, TOTP, Kafka/DB clients | files, tables | mostly I/O and cryptography | | |

Interactions: sync stages pulls through backup's Restore, and `initialise`
applies them before the store opens. Sessions hold bastions of the pool; tabs
open sessions through `LazySSH`; terminals and the standing tunnel of a
connection share the session pool, the forwards and the VPN claims; a session's
output reaches a pane through the coalescer, the ring and the event bus; the
quit runs the sync flush, stops the pool, then closes the store (`quitSteps`).

## Modules

Each component has one module; `MC*` modules add what TLC needs (symmetry sets,
model values); `*Proofs` modules hold theorems.

**ProfileSync.** Every remote call and every local write another actor can see
is an action. A profile is the set of edits it reflects; `store[m]` also carries
the transport and the generation counters, because the uploaded snapshot is a
copy of `store.db` and carries them. `op[m][g]` is the operation that actor `g`
of machine `m` is in: "ui" (the user's calls), "toast" (the pulls the frontend
offers, or applies by itself), "auto" (the loop), "quit"; `syncGenerationKey`
keeps the difference between SyncPush and syncFlushOnQuit. `ContentFingerprint`
is less than the content: it does not see the edits in `Unsigned`. These are the
edits of `app_settings`, `known_hosts`, `broadcast_groups` and
`credential_history`, which a push carries and a pull replaces, and those of a
signed table that leave its row count and its latest `updated_at` as they were
(two in one second, clocks that differ). A quick pull has two steps with anything
in between: `Offer` finds the machine behind and clean, `BeginQuickPull` acts on
that (`offered`) without asking again. SyncStatus reads the remote and the
profile in one step of the model. A backend is its three files; `PushMove` is an overwriting rename, `PushMoveClear`/`PushRename`
the remove-then-rename of SFTP without posix-rename and of Google Drive,
`PushMoveFallback` the second PUT. The vault is part of the profile; a vault
that cannot be merged in place is the choice `restartNeeded`.

**PendingRestore.** One action per file operation of `Restore`,
`writePendingSwap` and `ApplyPending`. A file is the profile it belongs to;
`atomicWrite` is one step, `os.WriteFile` of READY two. Encryption is "opens
under the passphrase it was sealed with".

**JumpPool.** One action per critical section of `jumpPool.mu` and per step
outside it. Entries are heap objects whose identity is reused once nothing
refers to them, so runs of any length stay finite.

**LazySSH.** The same for `LazySSH.mu`, with the connect of `sshChanConnect`,
its SetOnClose hook and the close-once of the session.

**Stream, OutBatch, Terminal.** `Stream` is what the output path promises: what
is shown is a beginning of what was sent, and all of it when the output is over.
`OutBatch` is the pump, the coalescer and the ring, one action per critical
section of `Coalescer.mu` (`emit` runs inside it); it implements `Stream`
(`DeliversStream`). `Terminal` adds a pane of the frontend: one action per event
handler, as the webview runs one at a time, and a bus on which an event may
overtake `Skew` others. A byte is its position in the stream, so order,
repetition and loss are visible; where a read is cut (`splitAtSafeBoundary`) and
where the ring finds a line start are choices within the code's limits. The
observers `overtook` and `forced` mark the two cases in which the code knowingly
gives up order or completeness.

**Sessions, Tunnels.** `Sessions` is the life of the sessions of one connection
from the moment Connect returned: the rest of `sshConnectWith` step by step, the
close hook step by step, `SshDisconnect`, the auto-reconnect loop, and the
registries they share (`pool`, `claims`, `forwards`, `reconnectForwards`).
Starting a connection's forwards is two steps wherever it is done (after a
connect, after a reconnect, by a tunnel): the list of what runs is taken, then
what is not on it is started, and `register` writes over what another session has
registered since. The observer `orphans` keeps the forwards whose first listener
got lost that way; the second start succeeds only if its port is chosen
automatically (`AutoPorts`). `TunnelsAutostart` has the same two steps, except
that an entry's flag is read with the list. `Tunnels` composes it with the
standing tunnel of the connection: one action per section of `tunnelsMu` and per
step outside it. An entry's stop channel is closed when it leaves the map, so a
loop carries its channel and not its entry.
Session identities are used again once nothing refers to them, so drops and
reconnects are unbounded. The observer `late` records, for a session that ended
during its own connect, which of the hook's steps came before what they undo.

**McpPlan.** Tools, `planCommit`, the approval and `writePlan`, one action per
critical section, and per group of statements of the transaction. A row is known
known by the temp id of its entry, so that a reference that names nothing is visible.
A tool asks for the grant in one step and stages in another, and a revoke takes
the grant in one and the plan in another, so a tool let in before a revoke can
stage after it. A field of a folder's settings is known by who gives it, the user
or the plan of one commit, so that a merge that loses another's field shows; the
observer `missed` keeps what the folder got between a commit's merge and its
transaction.
`holder` is the commit that holds the store's one connection; every other use of
the store waits for it.

## Runs

| Run | Expect | Shows |
|---|---|---|
| `sync_guard` | pass | two machines, one backend, pulls from Settings and from old offers, failing steps, restarts: guard, rollback, stamp and quick pull (1.6 M states) |
| `sync_auto` | pass | two auto-sync loops, two backends, pushes that fail late or whose answer is lost; liveness |
| `sync_quit` | violation of `NeverFalselyAhead` | the flush on quit writes WebDAV's counter whatever the backend |
| `sync_unsigned` | violation of `CleanIsAllPushed` | an edit the fingerprint does not see leaves the profile clean |
| `restore_whole` | pass | restores, failures and crashes; `StartsAgain` under fairness |
| `jump_pool` | pass | the pool's safety and liveness, with two entries that can be there at once |
| `lazy_tab` | pass | a tab's safety and liveness with two sessions at a time |
| `output` | pass | the output path implements `Stream`; a pane that attaches twice shows each byte once and catches up |
| `tunnel` | pass | a tunnel and terminals of one connection: stops, starts, drops, reconnects in every order |
| `tunnel_twice` | violation of `NoOrphan` | two terminals that come up together both start a forward with an automatic port; one listener is lost |
| `mcp_plan` | pass | two commits, each with its approval and transaction, while tools and the user go on; every call returns |
| `mcp_icon` | violation of `CallsReturn` | an icon edit reads the store inside its own transaction and waits for ever |

The type invariants are not in the runs: `OutTypeOK` and the `TypeOK` of LazySSH,
Terminal and Tunnels are proved, the types of the other modules are part of the
invariants their proofs use.

The violations are disagreements between the code and its own comments; the
findings in `PROJECT.json` quote both. What the properties say is written above
each of them in the modules.

### Which faults break what

`Faults` switches on interruptions one at a time, so that a passing run says
exactly under which assumptions a property holds. TLC's answers for two machines
and one backend (the bounds of `sync_guard`, one fault switched on; + holds,
- violated):

| | none | crash | lateFail | race | lateEdit |
|---|---|---|---|---|---|
| SnapshotNotOlderThanMeta | + | + | + | - | + |
| NeverFalselyAhead | + | - | - | - | + |
| InSyncIsIdentical | + | - | - | - | - |
| CleanIsPushed | + | - | - | - | - |
| NoLostUpdate | + | - | - | - | + |
| CommitsRaiseGeneration | + | + | + | - | + |
| QuickPullLossless | + | - | - | - | - |

`crash`: the process dies during an operation; a push had persisted its generation,
the rollback of `app.go:3035` never runs, and when another machine commits that
generation the guard takes it for one this machine has seen. `lateFail`: a push
fails once its snapshot is in place, or the answer to the commit is lost: the
machine is refused by its own guard until the user pulls or forces. `race`: two
machines push at once; the guard is check-then-act, so this is inherent in the
design. `lateEdit`: the user edits during a push or pull; `app.go:3039` stamps the
profile of the end of the upload, so an edit made meanwhile counts as pushed.
`overlap` (a pull and a push of one machine at once) breaks
SnapshotNotOlderThanMeta.

For PendingRestore the safety properties hold under `torn` and `cleanup` (that is
proved), and `StartsAgain` fails under each: a READY torn while it is written, or
one left behind after the staged store was removed, makes every later start end
in `log.Fatalf` until the user deletes `pending-restore/`. `restage` (a second
restore, over one that is still pending, stops between its two staged files:
`backup.go:276`, `279`) breaks `ProfileWhole`: the next start applies the store of
one backup with the vault of the other.

### Gaps the models show and no property forbids

Each is an exception written into a property, or a guard of the model, where the
code does less than its comments suggest.

- A session that ends between `pool.Add` and `SetOnClose` (`session.go:382`): its
  hook never runs. A tunnel on it shows as connected for ever, its forwards and
  its pool entry stay. `ConnectedIsUp` and `NoDeadListener` except exactly these
  (`late` has "hook").
- An offered pull acts on an old answer (`sync_auto.go:315`, then
  `syncState.svelte.ts:133-187`; `quickPull` the same after a call of its own): an
  edit made between the answer and the pull is not on the remote and is discarded.
  It happens in `sync_guard`; `QuickPullLossless` speaks of the profile the answer
  was about.
- An edit in `Unsigned` is not pushed by the loop and is discarded by a quick
  pull, which takes the profile for clean: `InSyncIsIdentical`, `CleanIsPushed`
  and `QuickPullLossless` speak of the edits the fingerprint sees
  (`sync_unsigned` shows what is left of the comment on `syncDirty`).
- A session that ends before `wgTrackSession`: the hook's `wgRelease` came first,
  so the VPN tunnel is never idle ("claim", `ClaimsEnd`).
- Forwards that a connect, a reconnect or the tunnel's loop starts after the hook
  stopped the session's: the listener stays ("start", `NoDeadListener`).
- Two sessions of a connection that start its forwards at once: a forward with a
  fixed port fails the second time (`NoDeadListener` includes it), one with an
  automatic port loses its first listener (`tunnel_twice`).
- A cancel of an auto-reconnect whose attempt is in flight is ignored
  (`runReconnect` looks at it only between attempts).
- `TunnelStop` cancels the connect in flight by connection, not by entry, so it
  can hit the connect of a start that came after it; `LoopFails` covers it.
- `flushIfReady` writes buffered chunks past the watermark, but `flushLive` seeds
  `writeCum` from the watermark, so a live chunk can wait behind a gap that was
  filled already, until the frame budget is used up. The comment at
  `Terminal.svelte:1785` calls that case unreachable; `forced` marks it and
  `CatchesUp` shows that the pane goes on.
- A plan's settings merge reads the folder before the transaction
  (`app_mcp_plan.go:1876`) and writes the merged whole in it (`1898`): a field that
  the user or another plan sets between the two is overwritten. It happens in
  `mcp_plan`; `OnlyStaleMergesLose` shows that nothing else is lost.
- A dial of a tab to a malformed address counts as a failed session
  (`lazy.go:169-190`): the session is invalidated though it lives.
- `jumpPool.stopAll` says it runs after the sessions are torn down; `quitSteps`
  calls it while they still ride bastions (`app_network.go:1570`). The pool's
  safety is therefore stated up to `stopped`.

### Bounds

- ProfileSync: two machines (the guard is about one machine against another), one
  edit (each property speaks of an edit at a time, and neither a push nor a pull
  from Settings asks whether there is one), generations up to 2 (first push, push
  on top, force push over a diverged remote), one failure, one restart.
  `sync_auto` has two backends and one failure: what it says of pushes that fail is
  that one failure does not stop the loop. `sync_unsigned` has an edit of each
  kind; the theorems are about any number of both.
- PendingRestore: three backups, two of them under the same passphrase; no bound
  on the number of restores, crashes or starts.
- JumpPool: two callers, one prefix (no action but the shutdown touches two), two
  entries, so that one can be listed or built while the other is still ridden or on
  its way out; one waiting linger callback per entry (`MaxFired`). The proofs need
  none of these.
- LazySSH: two dials, two sessions at a time; sessions are reused without bound.
- Terminal: four bytes through a batch and a ring of two, reads of one or two
  bytes with a tail of at most one held back, one callback waiting, events that
  overtake one other, two attaches. Four bytes are two full batches and two cuts
  of the ring; a gap, an overlap with the snapshot and a chunk beyond both fit
  into them. The proofs need none of these.
- Tunnels: one tunnel, two sessions and two loops at a time (an old one beside a
  new one), one saved forward with a fixed port, one terminal, one reconnect
  attempt; no bound on starts, stops and drops. `tunnel_twice` has the forward with
  an automatic port and two terminals; the theorems are about any mix.
- McpPlan: two staging calls and two commits (`MaxCalls`, `MaxCommits`), one
  window that answers as often as it likes, one change of the user, one tool or
  revoke between its two steps at a time. Two entries make every kind of reference
  and a plan that grows while it is shown. The second commit comes after the last
  staging call, and the tools stop once every commit has taken its plan. `mcp_plan`
  has no edit of an icon (`mcp_icon` has); the theorems are about any.
- Symmetry is used in safety runs only.

### Fairness

Operations under way go on (goroutines are scheduled; dials, handshakes and HTTP
calls have timeouts), tickers and timers fire, a user whose application is down
starts it again. Nothing is assumed of users editing, cancelling or closing, of
servers staying up, or of the process surviving, beyond what a property states
itself (`StartsAgain`: the process stops dying; `DialsReturn`: sessions stop
dying; `DirtyIsResolved`: the transport is left alone). Strong fairness appears
twice: an auto-push may be kept out by the other machine's push, which the model
serialises, and a dial may have to wait for a free session identity. Both are
artefacts of the model's restrictions, not assumptions about the scheduler. In
`output` nothing makes the remote send or the user act; timers, goroutines and the
webview's event loop run on. In `mcp_plan` neither the LLM nor the user has to do
anything, as the approval has a timeout. `tunnel` checks safety only.

## Proofs

`PendingRestoreProofs`, for any set of backups and passphrases and any `Faults`
without `restage`: `ProfileStaysWhole`, `NothingForeign`, `KeyFitsVault`,
`AlwaysRecoverable`.
None of the properties is inductive: what saves a half-done swap is that READY
still names staged files of one profile. `IInv` adds this: `InvLive` (outside a
swap the live files match), `InvStaged` (while READY is usable both staged files
are of one backup), `InvStage` and `InvSwap` (what has been done at each point),
`InvSafety` (a snapshot of the running profile exists before anything is staged).

`JumpPoolProofs`, for any finite set of callers, any prefixes and entries:
`RefsCountRiders`, `RidersKeepTheirBastion`, `PrefixDialledOnce`,
`BastionsAccountedFor`. `IInv` adds what a caller's position says about its entry
(`InvCaller`, `InvBuild`), that a listed entry is not being closed (`InvListed`),
that a ridden entry is listed or its bastion died (`InvRide`), and which entries
have connections and used their close-once (`InvConn`, `InvClean`). The linger is
safe because `RefsAreRiders` makes its recheck of `refs` a check for riders.

`OutBatchProofs`, for any sizes of buffer, batch, ring and stream and any number
of late callbacks: `TypeCorrect`, `OrderKept`, `HeldIsTimed`, `SnapshotCorrect`
and `Refinement` (`OutSpec => DeliversStream`: every step of the output path is a
step of `Stream` or a stutter). The invariant adds to the three properties that a
pump at its end holds nothing back.

`TerminalProofs`, for a stream of any length, any reordering on the bus, any frame
budget and any number of attaches: `PaneTypeCorrect`, `ShownOnceInOrder`,
`AttachLeavesNoHole`. Neither property is inductive. `IInv` adds to the output
path's invariant that events on their way are consecutive pieces of the stream
(`WireInv`); while the snapshot is awaited, that what is buffered is in turn with
itself and with what is still to come, or is known to have overtaken (`BufInv`),
and that the snapshot, the buffer and the events on their way leave nothing out
(`SnapInv`); and once the pane is live, that no byte that may still be written
beyond `writeCum` is on the screen or belongs before one that is there, those that
overtook apart (`AheadInv`), and that nothing is missing up to `writeCum` but a
beginning (`WholeInv`). The heart is `FlushedFollows`: what one flush writes of any
set of chunks is a rising run of their bytes, without a hole unless it was forced.
It goes by induction over the chunks, and the reply's `Flattened` over the buffered
events; both inductions are done on sets of numbers with the order of the naturals
(`Least`, `Steps`), as the library's induction theorems take an operator.

`LazySSHProofs`, for any dials and sessions: `TypeCorrect`, `SingleFlight`,
`NothingLeaks`, `StaleReportIgnored`, `RetryIsFresh`.

`TunnelsProofs`, for any number of sessions, forwards, loops and attempts:
`TypeCorrect`, `OneLoopServes`, `ConnectedMeansUp`, `NoStray`, `ListenersStop`,
`ClaimsGivenUp`. `IInv` adds where a session is in its connect and hook (`PoolInv`),
that a loop has the session it opened to itself until it hands it to the entry
(`HandInv`), that as long as the entry shows "connecting" or "reconnecting" exactly
one loop carries its channel (`ServeInv`), and that the entry's session is not over
unless its hook was never set (`RefInv`). `OneLoop` needs the handshake of stop
channel and entry, not just the state.

`McpPlanProofs`, for any number of calls and commits: `OnlyWhatWasAgreed`,
`StaleMergesLose`. `ConsentInv` carries the approval from the answer to the
transaction (what is written is what was detached, shown and agreed to, and is
closed under references), `TxInv` says that the transaction's view is the store
with the rows of exactly the groups that ran so far, `DbInv` that what plans left
in the store are whole previews of commits that are over. `StaleMergesLose` needs
`MergeInv`: until its transaction ends, what a commit has merged (or written) and
what it missed are together at least the folder's settings.

`ProfileSyncProofs`, for any machines, edits, restarts and failures, in three
layers, each with the interruptions it excludes; the table above says that they
have to be excluded:

- `Orderly` (no race, overlap or switch of the backend during an operation, and a
  flush on quit only if WebDAV is the only backend): `NewMetaNewSnapshot`,
  `GenerationsRise`. `RemoteInv`: an operation has its machine to itself and a push
  its backend, so the generation a push decided on stays new until it is committed,
  and from `meta` on the snapshot in place is its own.
- `Careful` (moreover no crash in an operation and no late failure): `NobodyAhead`.
  `BelowInv`: no counter, of a machine or inside a snapshot, is beyond the newest
  generation of its backend, but for the one a push has counted up to.
- `Quiet` (no fault of the list, one backend; steps still fail, machines restart):
  `InSyncTellsTheTruth`, `CleanMeansPushed`, `NothingOverwritten`,
  `QuickPullIsLossless`, each of the edits the fingerprint sees, with any edits
  it does not see about. `ContentInv`: a profile of the newest generation has the
  content committed with it, a machine at that generation differs from it only by
  edits its stamp shows as dirty or the fingerprint does not see, and an operation
  that replaces content holds or has seen all it replaces. `OfferInv`: what an
  offer was about had been pushed when it was made, and stays so.

The assumptions on constants (`RestoreAssumption`, `JumpAssumption`,
`SyncAssumption`, `NoneAssumption`, `LazyAssumption`, `OutAssumption`,
`TermAssumption`, `SessionAssumption`, `PlanAssumption`) say that nil is not an
object, bounds are numbers and sizes are positive. Every safety property of a
passing run is proved. Only model-checked: all liveness (`DirtyIsResolved`,
`StartsAgain`, `WaitersAnswered`, `IdleBastionCloses`, `DialsReturn`,
`CloseTearsDown`, `CatchesUp`, `CallsReturn`), as fairness and ENABLED are outside
this prover.

## Not modelled

The repository is a large desktop application: most of its lines are clients of
databases, Kafka, Kubernetes and inventories, importers, protocol decoders, user
interface and settings, sequential code over I/O that has tests and no states a
model checker would add to. The models take the parts in which several actors
share state. Left out of these: the legacy READY format and its staged names,
`reconcileSyncStampOnStart` (a change of the stamp's format), cryptography, SQL,
logging, audit rows; keepalive and the hop chain of a connect (a session ends or
a connect fails whenever it likes); the rules by which a chunk is cut, the DECRQM
stripper and the banner in the output path; forwards started or stopped by hand;
sensitive connections, bookmarks and folder renames in plans; and the components
marked so in `PROJECT.json`.

## Plan

1. Forwards started and stopped by hand in a tunnel (`handStopped`), the idle
   stop of VPN tunnels, and the session share's join, leave and revoke.
2. An abstract specification of sync (a linear history of profiles) implemented
   by ProfileSync when pushes do not race.
