---------------------------- MODULE ProfileSync ----------------------------
(***************************************************************************)
(* Profile sync: several machines exchange their whole profile through one *)
(* blob store per transport (internal/syncer, sync_auto.go and the Sync*   *)
(* methods of app.go).  A remote holds meta.json (a generation number,     *)
(* written last) and snapshot.stb; a push is guarded by comparing the      *)
(* remote generation with the one this machine last saw.                   *)
(*                                                                         *)
(* Every remote call and every local write that another actor can observe  *)
(* is an action of its own.  A profile is abstracted to the set of edits   *)
(* it reflects (a deletion is an edit too), so "overwritten" means that an *)
(* edit is missing.  Four actors act for a machine, with no lock between   *)
(* them: the user's calls, the pulls the frontend offers and applies by    *)
(* itself ("toast"), the auto-sync loop and the flush on quit.             *)
(***************************************************************************)
EXTENDS Integers, FiniteSets

CONSTANTS
    Machines,      \* the machines that sync one profile
    Transports,    \* the configured backends
    Webdav,        \* the one that keeps the legacy generation key
    Triggers,      \* the actors of a machine: "ui", "toast", "auto", "quit"
    Edits,         \* the edits users make, each once
    Unsigned,      \* those of them the fingerprint does not see
    Faults,        \* what may go wrong: see FaultKinds
    None,          \* "no such file", "no fingerprint"
    MaxGen,        \* bound: no push starts at this generation
    MaxFails,      \* bound: operations that fail
    MaxRestarts    \* bound: process exits

\* crash      a process dies with an operation in flight
\* lateFail   a push fails after its snapshot is in place
\* race       two machines push to the same remote at the same time
\* overlap    two actors of one machine push or pull at the same time
\* lateEdit   the user edits while the machine pushes or pulls
\* lateSwitch the user changes the transport meanwhile
FaultKinds == {"crash", "lateFail", "race", "overlap", "lateEdit", "lateSwitch"}

ASSUME SyncAssumption ==
    /\ Webdav \in Transports
    /\ Triggers \subseteq {"ui", "toast", "auto", "quit"}
    /\ Unsigned \subseteq Edits
    /\ Faults \subseteq FaultKinds
    /\ MaxGen \in Nat /\ MaxFails \in Nat /\ MaxRestarts \in Nat

VARIABLES
    store,      \* store[m]: store.db: the profile and its sync_* settings
    stamp,      \* stamp[m]: sync-pushed.stamp, the fingerprint last recorded
    staged,     \* staged[m]: the pending restore, applied by the next start
    remote,     \* remote[t]: meta.json, snapshot.stb, snapshot.stb.uploading
    op,         \* op[m][g]: the operation the actor g of m is running
    dirtyFP,    \* dirtyFP[m]: App.syncDirtyFP
    notified,   \* notified[m]: App.syncNotifiedGen
    offered,    \* offered[m]: the frontend may pull, and was told so of a
                \*             profile with this fingerprint
    committed,  \* observer: committed[t]: the profile the last meta committed
    forced,     \* observer: forced[t]: the last commit was a force push
    shipped,    \* observer: the edits some commit has held
    made,       \* observer: the edits made so far
    fails,      \* bound counter
    restarts    \* bound counter

commits == <<committed, forced, shipped>>
bounds == <<made, fails, restarts>>

\* what the frontend has been told
front == <<notified, offered>>

vars == <<store, stamp, staged, remote, op, dirtyFP, front, commits, bounds>>
-----------------------------------------------------------------------------
(* The settings the generation counter lives in.  The snapshot is a copy   *)
(* of store.db, so it carries them too.                                    *)
Store == [content : SUBSET Edits, transport : Transports,
          gens : [Transports -> Nat]]

Snapshots == Store \cup {None}

Fingerprints == SUBSET Edits \cup {None}

\* "No such file" is told from every file, "no fingerprint" from every one.
ASSUME NoneAssumption ==
    /\ None \notin Store
    /\ \A S \in SUBSET Edits : S # None

PushPCs == {"fetch", "persist", "seal", "put", "move", "rename", "meta",
            "stamp"}
PullPCs == {"pmeta", "pget", "papply", "pstamp"}

\* known is prevGen of a push, meta.Generation of a pull; answer, of a quick
\* pull, what it was offered with.
Operation == [pc : PushPCs \cup PullPCs \cup {"idle", "check", "exit"},
              tr : Transports, force : BOOLEAN, known : Nat, gen : Nat,
              blob : Snapshots, mode : {"live", "quick", "staged"},
              answer : Fingerprints]

Idle == [pc |-> "idle", tr |-> Webdav, force |-> FALSE, known |-> 0,
         gen |-> 0, blob |-> None, mode |-> "live", answer |-> None]

\* A process starts with nothing under way but the first remote check of the
\* loop, which comes before its first tick.
Started == [g \in Triggers |->
              IF g = "auto" THEN [Idle EXCEPT !.pc = "check"] ELSE Idle]

\* A signature of most profile tables, by row counts, the latest change and
\* some columns: app_settings, known_hosts, broadcast_groups and
\* credential_history are not signed though a pull replaces them, nor is a
\* change that leaves count and latest second as they were.
ContentFingerprint(content) == content \ Unsigned

syncFingerprint(m) == ContentFingerprint(store[m].content)

syncDirty(m) == syncFingerprint(m) # stamp[m]

\* autoSyncReady: no staged pull may be waiting for a restart.
autoSyncReady(m) == staged[m] = None

syncGeneration(m) == store[m].gens[store[m].transport]

\* The key a push of actor g writes the generation under.  SyncPush uses the
\* active transport's key; syncFlushOnQuit the literal "sync_generation".
syncGenerationKey(m, g) == IF g = "quit" THEN Webdav ELSE store[m].transport

setSyncGeneration(m, g, n) ==
    store' = [store EXCEPT ![m].gens[syncGenerationKey(m, g)] = n]

Pushing(t) == {p \in Machines \X Triggers :
                 /\ op[p[1]][p[2]].pc \in PushPCs
                 /\ op[p[1]][p[2]].tr = t}

Busy(m) == \E g \in Triggers : op[m][g].pc \in PushPCs \cup PullPCs

\* After a flush on quit the process goes on to exit.
Finish(m, g) ==
    op' = [op EXCEPT ![m][g] =
             [Idle EXCEPT !.pc = IF g = "quit" THEN "exit" ELSE "idle"]]

\* autoSyncTick follows a failed push with autoSyncRemoteCheck.
FinishFailed(m, g) ==
    IF g = "auto" THEN op' = [op EXCEPT ![m][g] = [Idle EXCEPT !.pc = "check"]]
                  ELSE Finish(m, g)

\* and forgets the settled dirty state, however the push ended.
ClearDirtyFP(m, g) ==
    dirtyFP' = [dirtyFP EXCEPT ![m] = IF g = "auto" THEN None ELSE @]

Goto(m, g, pc) == op' = [op EXCEPT ![m][g].pc = pc]

Init ==
    /\ store = [m \in Machines |->
                  [content |-> {}, transport |-> Webdav,
                   gens |-> [t \in Transports |-> 0]]]
    /\ stamp = [m \in Machines |-> None]
    /\ staged = [m \in Machines |-> None]
    /\ remote = [t \in Transports |->
                   [meta |-> 0, snap |-> None, tmp |-> None]]
    /\ op = [m \in Machines |-> Started]
    /\ dirtyFP = [m \in Machines |-> None]
    /\ notified = [m \in Machines |-> 0]
    /\ offered = [m \in Machines |-> None]
    /\ committed = [t \in Transports |-> {}]
    /\ forced = [t \in Transports |-> FALSE]
    /\ shipped = {}
    /\ made = {}
    /\ fails = 0
    /\ restarts = 0
-----------------------------------------------------------------------------
(* The user.                                                               *)

Edit(m, e) ==
    /\ e \notin made
    /\ Busy(m) => "lateEdit" \in Faults
    /\ made' = made \cup {e}
    /\ store' = [store EXCEPT ![m].content = @ \cup {e}]
    /\ UNCHANGED <<stamp, staged, remote, op, dirtyFP, front, fails,
                   restarts, commits>>

SetTransport(m, t) ==
    /\ t # store[m].transport
    /\ Busy(m) => "lateSwitch" \in Faults
    /\ store' = [store EXCEPT ![m].transport = t]
    /\ UNCHANGED <<stamp, staged, remote, op, dirtyFP, front, commits,
                   bounds>>
-----------------------------------------------------------------------------
(* Push: SyncPush, syncFlushOnQuit and syncer.Push.                        *)

\* What lets actor g start a push: the user any time and with force, the
\* loop when the dirty state has settled, the quit when the profile is dirty.
MayPush(m, g, force) ==
    \/ g = "ui"
    \/ /\ g \in {"auto", "quit"}
       /\ ~force
       /\ autoSyncReady(m)
       /\ syncDirty(m)
       /\ g = "auto" => dirtyFP[m] = syncFingerprint(m)

BeginPush(m, g, force) ==
    /\ op[m][g].pc = "idle"
    /\ MayPush(m, g, force)
    /\ syncGeneration(m) < MaxGen
    /\ remote[store[m].transport].meta < MaxGen
    /\ Busy(m) => "overlap" \in Faults
    /\ Pushing(store[m].transport) \ ({m} \X Triggers) # {} => "race" \in Faults
    /\ op' = [op EXCEPT ![m][g] =
                [Idle EXCEPT !.pc = "fetch", !.tr = store[m].transport,
                             !.force = force, !.known = syncGeneration(m)]]
    /\ UNCHANGED <<store, stamp, staged, remote, dirtyFP, front, commits,
                   bounds>>

\* The generation guard: r is what FetchMeta returned, 0 for none.
Mut_NoGuard(r, o) == FALSE

GuardRefuses(r, o) == r # 0 /\ r # o.known /\ ~o.force

Mut_IgnoreDivergence(r, known) == known + 1

NextGeneration(r, known) == IF r >= known + 1 THEN r + 1 ELSE known + 1

PushFetch(m, g) ==
    LET o == op[m][g]
        r == remote[o.tr].meta
    IN /\ o.pc = "fetch"
       /\ ~GuardRefuses(r, o)
       /\ op' = [op EXCEPT ![m][g].pc = "persist",
                           ![m][g].gen = NextGeneration(r, o.known)]
       /\ UNCHANGED <<store, stamp, staged, remote, dirtyFP, front,
                      commits, bounds>>

\* A refused push still takes the error path: the generation is written
\* back to the value it had when the push began.
PushRefused(m, g) ==
    LET o == op[m][g]
    IN /\ o.pc = "fetch"
       /\ GuardRefuses(remote[o.tr].meta, o)
       /\ setSyncGeneration(m, g, o.known)
       /\ FinishFailed(m, g)
       /\ ClearDirtyFP(m, g)
       /\ UNCHANGED <<stamp, staged, remote, front, commits, bounds>>

Mut_PersistSkipped(m, g) ==
    /\ op[m][g].pc = "persist"
    /\ Goto(m, g, "seal")
    /\ UNCHANGED <<store, stamp, staged, remote, dirtyFP, front, commits,
                   bounds>>

\* onGeneration: the new generation is in store.db before it is sealed.
PushPersist(m, g) ==
    /\ op[m][g].pc = "persist"
    /\ setSyncGeneration(m, g, op[m][g].gen)
    /\ Goto(m, g, "seal")
    /\ UNCHANGED <<stamp, staged, remote, dirtyFP, front, commits, bounds>>

\* backup.Create: VACUUM INTO copies the store of this moment, settings and
\* all; checksums and the envelope keep it as it is.
Sealed(m) == store[m]

PushSeal(m, g) ==
    /\ op[m][g].pc = "seal"
    /\ op' = [op EXCEPT ![m][g].pc = "put", ![m][g].blob = Sealed(m)]
    /\ UNCHANGED <<store, stamp, staged, remote, dirtyFP, front, commits,
                   bounds>>

PushPut(m, g) ==
    /\ op[m][g].pc = "put"
    /\ remote' = [remote EXCEPT ![op[m][g].tr].tmp = op[m][g].blob]
    /\ Goto(m, g, "move")
    /\ UNCHANGED <<store, stamp, staged, dirtyFP, front, commits, bounds>>

\* The uploaded file replaces the live one in one step (WebDAV MOVE,
\* posix-rename); whose upload it is the server does not ask.
PushMove(m, g) ==
    LET t == op[m][g].tr
    IN /\ op[m][g].pc = "move"
       /\ remote[t].tmp # None
       /\ remote' = [remote EXCEPT ![t].snap = remote[t].tmp,
                                   ![t].tmp = None]
       /\ Goto(m, g, "meta")
       /\ UNCHANGED <<store, stamp, staged, dirtyFP, front, commits,
                      bounds>>

\* SFTP without posix-rename, Google Drive: remove the target, then rename.
PushMoveClear(m, g) ==
    LET t == op[m][g].tr
    IN /\ op[m][g].pc = "move"
       /\ remote' = [remote EXCEPT ![t].snap = None]
       /\ Goto(m, g, "rename")
       /\ UNCHANGED <<store, stamp, staged, dirtyFP, front, commits,
                      bounds>>

PushRename(m, g) ==
    LET t == op[m][g].tr
    IN /\ op[m][g].pc = "rename"
       /\ remote[t].tmp # None
       /\ remote' = [remote EXCEPT ![t].snap = remote[t].tmp,
                                   ![t].tmp = None]
       /\ Goto(m, g, "meta")
       /\ UNCHANGED <<store, stamp, staged, dirtyFP, front, commits,
                      bounds>>

\* Move failed (unsupported, or the upload was moved away by another push):
\* put the snapshot under its final name.
PushMoveFallback(m, g) ==
    LET t == op[m][g].tr
    IN /\ op[m][g].pc \in {"move", "rename"}
       /\ remote' = [remote EXCEPT ![t].snap = op[m][g].blob]
       /\ Goto(m, g, "meta")
       /\ UNCHANGED <<store, stamp, staged, dirtyFP, front, commits,
                      bounds>>

\* meta.json last: the commit point.
CommitMeta(m, g) ==
    LET o == op[m][g]
    IN /\ o.pc = "meta"
       /\ remote' = [remote EXCEPT ![o.tr].meta = o.gen]
       /\ committed' = [committed EXCEPT ![o.tr] = o.blob.content]
       /\ forced' = [forced EXCEPT ![o.tr] = o.force]
       /\ shipped' = shipped \cup o.blob.content

PushMeta(m, g) ==
    /\ CommitMeta(m, g)
    /\ op' = [op EXCEPT ![m][g] = [Idle EXCEPT !.pc = "stamp", !.tr = op[m][g].tr]]
    /\ UNCHANGED <<store, stamp, staged, dirtyFP, front, bounds>>

\* recordSyncPushedFingerprint: the fingerprint of now, not of the seal.
PushStamp(m, g) ==
    /\ op[m][g].pc = "stamp"
    /\ stamp' = [stamp EXCEPT ![m] = syncFingerprint(m)]
    /\ Finish(m, g)
    /\ ClearDirtyFP(m, g)
    /\ UNCHANGED <<store, staged, remote, front, commits, bounds>>

Mut_NoRollback(m, g) ==
    /\ fails < MaxFails
    /\ fails' = fails + 1
    /\ FinishFailed(m, g)
    /\ ClearDirtyFP(m, g)
    /\ UNCHANGED store

\* Any step of a push may fail with an error; the caller rolls back.
Rollback(m, g) ==
    /\ fails < MaxFails
    /\ fails' = fails + 1
    /\ setSyncGeneration(m, g, op[m][g].known)
    /\ FinishFailed(m, g)
    /\ ClearDirtyFP(m, g)

Mut_FailStamps(m, g) ==
    /\ op[m][g].pc \in {"fetch", "persist", "seal", "put", "move"}
    /\ Rollback(m, g)
    /\ stamp' = [stamp EXCEPT ![m] = syncFingerprint(m)]
    /\ UNCHANGED <<staged, remote, front, restarts, made, commits>>

PushFail(m, g) ==
    /\ op[m][g].pc \in {"fetch", "persist", "seal", "put", "move"}
    /\ Rollback(m, g)
    /\ UNCHANGED <<stamp, staged, remote, front, made, restarts, commits>>

PushFailLate(m, g) ==
    /\ "lateFail" \in Faults
    /\ op[m][g].pc \in {"rename", "meta"}
    /\ Rollback(m, g)
    /\ UNCHANGED <<stamp, staged, remote, front, made, restarts, commits>>

\* The server stored meta.json and the answer was lost.
PushMetaLost(m, g) ==
    /\ "lateFail" \in Faults
    /\ CommitMeta(m, g)
    /\ Rollback(m, g)
    /\ UNCHANGED <<stamp, staged, front, made, restarts>>
-----------------------------------------------------------------------------
(* Pull: SyncPullLive and SyncPull.                                        *)

Mut_OfferDirty(m) ==
    /\ "toast" \in Triggers
    /\ remote[store[m].transport].meta > syncGeneration(m)
    /\ offered' = [offered EXCEPT ![m] = syncFingerprint(m)]
    /\ UNCHANGED <<store, stamp, staged, remote, op, dirtyFP, notified,
                   commits, bounds>>

\* The remote is found ahead and the local profile without changes to lose:
\* SyncStatus tells quickPull so, or, when auto-apply is on,
\* autoSyncRemoteCheck the frontend, which waits for an idle moment.
Offer(m) ==
    /\ "toast" \in Triggers
    /\ remote[store[m].transport].meta > syncGeneration(m)
    /\ ~syncDirty(m)
    /\ offered' = [offered EXCEPT ![m] = syncFingerprint(m)]
    /\ UNCHANGED <<store, stamp, staged, remote, op, dirtyFP, notified,
                   commits, bounds>>

StartPull(m, g, mode, answer) ==
    /\ op[m][g].pc = "idle"
    /\ Busy(m) => "overlap" \in Faults
    /\ op' = [op EXCEPT ![m][g] =
                [Idle EXCEPT !.pc = "pmeta", !.tr = store[m].transport,
                             !.mode = mode, !.answer = answer]]
    /\ UNCHANGED <<store, stamp, staged, remote, dirtyFP, notified, commits,
                   bounds>>

\* From Settings the user may pull any time.
BeginPull(m, g, mode) ==
    /\ g = "ui" /\ mode \in {"live", "staged"}
    /\ StartPull(m, g, mode, None)
    /\ UNCHANGED offered

\* A quick pull acts on the answer it was offered with, however old: neither
\* quickPull nor the auto-apply that waits for an idle moment asks again.
BeginQuickPull(m, g) ==
    /\ g = "toast" /\ offered[m] # None
    /\ StartPull(m, g, "quick", offered[m])
    /\ offered' = [offered EXCEPT ![m] = None]

PullMeta(m, g) ==
    LET r == remote[op[m][g].tr].meta
    IN /\ op[m][g].pc = "pmeta"
       /\ op' = [op EXCEPT ![m][g] = IF r = 0 THEN Idle
                                     ELSE [@ EXCEPT !.pc = "pget",
                                                    !.known = r]]
       /\ UNCHANGED <<store, stamp, staged, remote, dirtyFP, front,
                      commits, bounds>>

PullGet(m, g) ==
    LET s == remote[op[m][g].tr].snap
    IN /\ op[m][g].pc = "pget"
       /\ op' = [op EXCEPT ![m][g] = IF s = None THEN Idle
                                     ELSE [@ EXCEPT !.pc = "papply",
                                                    !.blob = s]]
       /\ UNCHANGED <<store, stamp, staged, remote, dirtyFP, front,
                      commits, bounds>>

Mut_MirrorSkipped(m, g) ==
    /\ op[m][g].pc = "papply"
    /\ op[m][g].mode # "staged"
    /\ op' = [op EXCEPT ![m][g].pc = "pstamp", ![m][g].blob = None]
    /\ UNCHANGED <<store, stamp, staged, remote, dirtyFP, front, commits,
                   bounds>>

\* Every profile table is replaced in one transaction; the sync_* keys stay.
MirrorFrom(m, snapshot) ==
    store' = [store EXCEPT ![m].content = snapshot.content]

\* When the vault cannot be merged in place the snapshot is staged as well.
PullApplyLive(m, g) ==
    /\ op[m][g].pc = "papply"
    /\ op[m][g].mode # "staged"
    /\ MirrorFrom(m, op[m][g].blob)
    /\ \E restartNeeded \in BOOLEAN :
         staged' = [staged EXCEPT ![m] = IF restartNeeded THEN op[m][g].blob
                                         ELSE @]
    /\ op' = [op EXCEPT ![m][g].pc = "pstamp", ![m][g].blob = None]
    /\ UNCHANGED <<stamp, remote, dirtyFP, front, commits, bounds>>

\* The store is mirrored, then staging the vault fails: the pull ends in an
\* error with the new content under the old stamp and generation.
PullNotStaged(m, g) ==
    /\ op[m][g].pc = "papply"
    /\ op[m][g].mode # "staged"
    /\ fails < MaxFails
    /\ fails' = fails + 1
    /\ MirrorFrom(m, op[m][g].blob)
    /\ Finish(m, g)
    /\ UNCHANGED <<stamp, staged, remote, dirtyFP, front, made, restarts,
                   commits>>

PullStamp(m, g) ==
    /\ op[m][g].pc = "pstamp"
    /\ stamp' = [stamp EXCEPT ![m] = syncFingerprint(m)]
    /\ setSyncGeneration(m, g, op[m][g].known)
    /\ notified' = [notified EXCEPT ![m] = 0]
    /\ Finish(m, g)
    /\ UNCHANGED <<staged, remote, dirtyFP, offered, commits, bounds>>

\* SyncPull: backup.Restore stages the snapshot for the next start.
PullStage(m, g) ==
    /\ op[m][g].pc = "papply"
    /\ op[m][g].mode = "staged"
    /\ staged' = [staged EXCEPT ![m] = op[m][g].blob]
    /\ Finish(m, g)
    /\ UNCHANGED <<store, stamp, remote, dirtyFP, front, commits, bounds>>

PullFail(m, g) ==
    /\ op[m][g].pc \in {"pmeta", "pget", "papply"}
    /\ fails < MaxFails
    /\ fails' = fails + 1
    /\ Finish(m, g)
    /\ UNCHANGED <<store, stamp, staged, remote, dirtyFP, front, made,
                   restarts, commits>>
-----------------------------------------------------------------------------
(* The auto-sync loop.                                                     *)

\* Clean: clear the marker and, when the interval has passed, poll.
TickClean(m) ==
    /\ "auto" \in Triggers
    /\ op[m]["auto"].pc = "idle"
    /\ autoSyncReady(m)
    /\ ~syncDirty(m)
    /\ dirtyFP' = [dirtyFP EXCEPT ![m] = None]
    /\ \E pc \in {"idle", "check"} : Goto(m, "auto", pc)
    /\ UNCHANGED <<store, stamp, staged, remote, front, commits, bounds>>

\* Dirty and changed since the last tick: wait for quiet.
TickDirty(m) ==
    /\ "auto" \in Triggers
    /\ op[m]["auto"].pc = "idle"
    /\ autoSyncReady(m)
    /\ syncDirty(m)
    /\ dirtyFP[m] # syncFingerprint(m)
    /\ dirtyFP' = [dirtyFP EXCEPT ![m] = syncFingerprint(m)]
    /\ UNCHANGED <<store, stamp, staged, remote, op, front, commits,
                   bounds>>

Mut_CheckOffByOne(m, r) == autoSyncReady(m) /\ r > syncGeneration(m) + 1

\* Told once per generation, and only when it is ahead.
Tells(m, r) == autoSyncReady(m) /\ r > syncGeneration(m)

\* autoSyncRemoteCheck, up to the look at the profile that makes what it tells
\* an offer.
RemoteCheck(m) ==
    LET r == remote[store[m].transport].meta
    IN /\ "auto" \in Triggers
       /\ op[m]["auto"].pc = "check"
       /\ Finish(m, "auto")
       /\ notified' = [notified EXCEPT ![m] = IF Tells(m, r) THEN r ELSE @]
       /\ UNCHANGED <<store, stamp, staged, remote, dirtyFP, offered, commits,
                      bounds>>

\* The remote cannot be reached: nobody is told.
RemoteCheckFails(m) ==
    /\ "auto" \in Triggers
    /\ op[m]["auto"].pc = "check"
    /\ fails < MaxFails
    /\ fails' = fails + 1
    /\ Finish(m, "auto")
    /\ UNCHANGED <<store, stamp, staged, remote, dirtyFP, front, made,
                   restarts, commits>>
-----------------------------------------------------------------------------
(* Process exit and the next start: initialise applies a pending restore   *)
(* before the store is opened, and stamps the result as the new baseline.  *)

Restart(m) ==
    /\ restarts < MaxRestarts
    /\ restarts' = restarts + 1
    /\ Busy(m) => "crash" \in Faults
    /\ IF staged[m] = None
         THEN UNCHANGED <<store, stamp>>
         ELSE /\ store' = [store EXCEPT ![m] = staged[m]]
              /\ stamp' = [stamp EXCEPT
                             ![m] = ContentFingerprint(staged[m].content)]
    /\ staged' = [staged EXCEPT ![m] = None]
    /\ op' = [op EXCEPT ![m] = Started]
    /\ dirtyFP' = [dirtyFP EXCEPT ![m] = None]
    /\ notified' = [notified EXCEPT ![m] = 0]
    /\ offered' = [offered EXCEPT ![m] = None]
    /\ UNCHANGED <<remote, made, fails, commits>>
-----------------------------------------------------------------------------
PushStep(m, g) ==
    \/ PushFetch(m, g) \/ PushRefused(m, g) \/ PushPersist(m, g)
    \/ PushSeal(m, g) \/ PushPut(m, g) \/ PushMove(m, g)
    \/ PushMoveClear(m, g) \/ PushRename(m, g) \/ PushMoveFallback(m, g)
    \/ PushMeta(m, g) \/ PushStamp(m, g)

PullStep(m, g) ==
    \/ PullMeta(m, g) \/ PullGet(m, g) \/ PullApplyLive(m, g)
    \/ PullStamp(m, g) \/ PullStage(m, g)

FailStep(m, g) ==
    \/ PushFail(m, g) \/ PushFailLate(m, g) \/ PushMetaLost(m, g)
    \/ PullFail(m, g) \/ PullNotStaged(m, g)

Loop(m) == TickClean(m) \/ TickDirty(m) \/ RemoteCheck(m)

Next ==
    \E m \in Machines :
        \/ \E e \in Edits : Edit(m, e)
        \/ \E t \in Transports : SetTransport(m, t)
        \/ \E g \in Triggers, f \in BOOLEAN : BeginPush(m, g, f)
        \/ \E g \in Triggers :
              PushStep(m, g) \/ PullStep(m, g) \/ FailStep(m, g)
        \/ Offer(m)
        \/ \E g \in Triggers : \/ BeginQuickPull(m, g)
                              \/ \E mode \in {"live", "staged"} :
                                   BeginPull(m, g, mode)
        \/ Loop(m) \/ RemoteCheckFails(m)
        \/ Restart(m)

\* The goroutines that run the steps are scheduled, and network calls have
\* timeouts, so an operation under way goes on; the ticker keeps the loop
\* going.  A tick finds the remote free of the other machines' pushes again
\* and again (strong fairness; only matters when "race" is excluded).
\* Nothing makes the user act or a process exit.
Fairness ==
    \A m \in Machines :
        /\ \A g \in Triggers : WF_vars(PushStep(m, g)) /\ WF_vars(PullStep(m, g))
        /\ WF_vars(Loop(m))
        /\ SF_vars(BeginPush(m, "auto", FALSE))

Spec == Init /\ [][Next]_vars

FairSpec == Spec /\ Fairness
-----------------------------------------------------------------------------
(* Properties.                                                             *)

TypeOK ==
    /\ store \in [Machines -> Store]
    /\ stamp \in [Machines -> Fingerprints]
    /\ staged \in [Machines -> Snapshots]
    /\ remote \in [Transports -> [meta : Nat, snap : Snapshots, tmp : Snapshots]]
    /\ op \in [Machines -> [Triggers -> Operation]]
    /\ dirtyFP \in [Machines -> Fingerprints]
    /\ notified \in [Machines -> Nat]
    /\ offered \in [Machines -> Fingerprints]
    /\ committed \in [Transports -> SUBSET Edits]
    /\ forced \in [Transports -> BOOLEAN]
    /\ shipped \subseteq Edits
    /\ made \subseteq Edits
    /\ fails \in 0..MaxFails
    /\ restarts \in 0..MaxRestarts

\* "a second machine's changes can't be silently overwritten" (syncer.Push):
\* a commit that was not forced holds every edit the commit it replaces held.
NoLostUpdate ==
    [][\A t \in Transports :
         remote[t].meta' # remote[t].meta /\ ~forced'[t]
           => committed[t] \subseteq committed'[t]]_vars

\* "a reader that sees the new meta is guaranteed the new snapshot is fully
\* in place": whatever snapshot can be read belongs to a generation at least
\* as new as the one meta names.
SnapshotNotOlderThanMeta ==
    \A t \in Transports :
        remote[t].snap # None => remote[t].snap.gens[t] >= remote[t].meta

\* Every commit raises the remote generation, a forced one too: the other
\* machines compare generations to find out that they are behind.
CommitsRaiseGeneration ==
    [][\A m \in Machines, g \in Triggers :
         PushMeta(m, g) =>
           LET t == op[m][g].tr IN remote'[t].meta > remote[t].meta]_vars

\* The rollback of a failed push and the restored settings of a pulled
\* snapshot leave no machine ahead of the remote it syncs with, for any
\* transport, so the guard cannot refuse it for ever.
NeverFalselyAhead ==
    \A m \in Machines, t \in Transports :
        ~Busy(m) /\ Pushing(t) = {} => store[m].gens[t] <= remote[t].meta

\* SyncStatus "in_sync" with a clean profile tells the truth, as far as the
\* fingerprint sees: the machine has the profile that was committed last, and
\* at most unsigned edits of its own on top of it.
InSyncIsIdentical ==
    \A m \in Machines :
        LET t == store[m].transport
        IN /\ ~Busy(m) /\ Pushing(t) = {}
           /\ ~syncDirty(m)
           /\ remote[t].meta # 0
           /\ syncGeneration(m) = remote[t].meta
           => /\ committed[t] \subseteq store[m].content
              /\ store[m].content \ committed[t] \subseteq Unsigned

\* A pull that was offered because the profile was clean replaces no edit the
\* offer was made about, unless it is on the remote: what it may lose was not
\* signed, or was made after the offer.
QuickPullLossless ==
    [][\A m \in Machines :
         \A g \in Triggers :
           op[m][g].mode = "quick" /\ PullApplyLive(m, g)
             => (store[m].content \ store'[m].content) \cap op[m][g].answer
                  \subseteq shipped]_vars

\* When syncDirty says no, every edit of this machine it can see has been
\* pushed: no failed push, no pull and no restart stamps more than that.
CleanIsPushed ==
    \A m \in Machines :
        ~Busy(m) /\ Pushing(store[m].transport) = {} /\ ~syncDirty(m)
          => store[m].content \ shipped \subseteq Unsigned

\* "syncDirty reports whether the profile changed since the last push": when it
\* says no, every edit of this machine has been pushed.
CleanIsAllPushed ==
    \A m \in Machines :
        ~Busy(m) /\ Pushing(store[m].transport) = {} /\ ~syncDirty(m)
          => store[m].content \subseteq shipped

\* A dirty profile does not stay dirty in silence: once the user stops
\* switching transports, the loop pushes it, or tells the user of a newer
\* remote generation, or a pull is waiting (or the model's bound is reached).
DirtyIsResolved ==
    \A m \in Machines :
        <>[][store'[m].transport = store[m].transport]_vars =>
          (syncDirty(m) ~> \/ ~syncDirty(m)
                           \/ notified[m] > syncGeneration(m)
                           \/ staged[m] # None
                           \/ syncGeneration(m) >= MaxGen
                           \/ remote[store[m].transport].meta >= MaxGen)
=============================================================================
