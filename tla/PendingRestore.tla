--------------------------- MODULE PendingRestore ---------------------------
(***************************************************************************)
(* Restoring a profile (internal/backup): Restore stages the new files in  *)
(* pending-restore/ and marks them READY; ApplyPending swaps them in at    *)
(* the next start, before the store is opened (App.initialise).  A process *)
(* may die between any two file operations.                                *)
(*                                                                         *)
(* A profile is a pair of files, store.db and vault.enc, that belong       *)
(* together; a file is abstracted to the profile it is part of.            *)
(***************************************************************************)
EXTENDS Naturals

CONSTANTS
    Backups,    \* the backup files and pulled snapshots a user may restore
    Pass,       \* Pass[b]: the passphrase b is sealed under
    First,      \* the profile the machine starts with
    None,       \* "no such file"
    Torn,       \* a READY file whose write was cut short
    Faults      \* which interruptions may happen: see FaultKinds

\* restage  a Restore over a pending one stops before it is READY again
\* torn     the process dies while it writes READY
\* cleanup  the process dies after a staged file is removed, READY is not
FaultKinds == {"restage", "torn", "cleanup"}

Profiles == Backups \cup {First}

ASSUME RestoreAssumption ==
    /\ First \notin Backups
    /\ None \notin Profiles
    /\ DOMAIN Pass = Backups
    /\ \A b \in Backups : Pass[b] \notin {None, Torn}
    /\ None # Torn
    /\ Faults \subseteq FaultKinds

VARIABLES
    store,      \* store.db: the profile it holds
    wal,        \* store.db-wal/-shm: the profile whose database wrote it
    vault,      \* vault.enc
    sidecar,    \* vault.enc.local.key: the vault it unlocks
    pstore,     \* pending-restore/store.db.enc
    pvault,     \* pending-restore/vault.enc.enc
    ready,      \* pending-restore/READY: the passphrase sealed in it
    pc,         \* what the process is doing
    job,        \* the backup that is being staged or swapped in
    safety,     \* the profiles in backups/pre-restore-*
    ran         \* observer: the profile that ran last

live == <<store, wal, vault, sidecar>>
pending == <<pstore, pvault, ready>>
vars == <<live, pending, pc, job, safety, ran>>
-----------------------------------------------------------------------------
StagePCs == {"snapshot", "stagestore", "stagevault", "readyopen", "readywrite"}
SwapPCs == {"rmwal", "rmstore", "wrstore", "rmvault", "wrvault"}
CleanPCs == {"rmpstore", "rmpvault", "rmkey", "rmready"}
PCs == {"down", "running"} \cup StagePCs \cup SwapPCs \cup CleanPCs

Files == Profiles \cup {None}
Passphrases == {Pass[b] : b \in Backups}

Init ==
    /\ store = First /\ vault = First
    /\ wal = None /\ sidecar = None
    /\ pstore = None /\ pvault = None /\ ready = None
    /\ pc = "running" /\ job = None
    /\ safety = {} /\ ran = First
-----------------------------------------------------------------------------
(* The running application.                                                *)

\* SQLite keeps a WAL beside an open store.
OpenWal ==
    /\ pc = "running"
    /\ wal' = store
    /\ UNCHANGED <<store, vault, sidecar, pending, pc, job, safety, ran>>

\* The user lets this machine unlock the vault without asking.
EnableAutoUnlock ==
    /\ pc = "running"
    /\ sidecar' = vault
    /\ UNCHANGED <<store, wal, vault, pending, pc, job, safety, ran>>

\* Decrypt the envelope and verify both checksums before anything is written.
RestoreBegin(b) ==
    /\ pc = "running"
    /\ pc' = "snapshot" /\ job' = b
    /\ UNCHANGED <<live, pending, safety, ran>>

Mut_NoSafetySnapshot ==
    /\ pc = "snapshot"
    /\ pc' = "stagestore"
    /\ UNCHANGED <<live, pending, job, safety, ran>>

\* The safety snapshot of the live files.
RestoreSnapshot ==
    /\ pc = "snapshot"
    /\ safety' = safety \cup {store}
    /\ pc' = "stagestore"
    /\ UNCHANGED <<live, pending, job, ran>>

StageStore ==
    /\ pc = "stagestore"
    /\ pstore' = job
    /\ pc' = "stagevault"
    /\ UNCHANGED <<live, pvault, ready, job, safety, ran>>

StageVault ==
    /\ pc = "stagevault"
    /\ pvault' = job
    /\ pc' = "readyopen"
    /\ UNCHANGED <<live, pstore, ready, job, safety, ran>>

\* os.WriteFile truncates, then writes.
ReadyOpen ==
    /\ pc = "readyopen"
    /\ ready' = Torn
    /\ pc' = "readywrite"
    /\ UNCHANGED <<live, pstore, pvault, job, safety, ran>>

ReadyWrite ==
    /\ pc = "readywrite"
    /\ ready' = Pass[job]
    /\ pc' = "running" /\ job' = None
    /\ UNCHANGED <<live, pstore, pvault, safety, ran>>

\* The interruptions that the Faults constant rules in or out.
Interruptible ==
    /\ pc \in {"stagevault", "readyopen"} /\ ready # None => "restage" \in Faults
    /\ pc = "readywrite" => "torn" \in Faults
    /\ pc \in {"rmpvault", "rmkey", "rmready"} => "cleanup" \in Faults

\* Any step of Restore may return an error; nothing is undone.
RestoreFail ==
    /\ pc \in StagePCs
    /\ Interruptible
    /\ pc' = "running" /\ job' = None
    /\ UNCHANGED <<live, pending, safety, ran>>

\* The process ends: a quit, or a crash between two file operations.
Exit ==
    /\ pc # "down"
    /\ Interruptible
    /\ pc' = "down" /\ job' = None
    /\ UNCHANGED <<live, pending, safety, ran>>
-----------------------------------------------------------------------------
(* The next start.                                                         *)

\* No READY: open the live files as they are.
StartPlain ==
    /\ pc = "down"
    /\ ready = None
    /\ pc' = "running"
    /\ ran' = store
    /\ UNCHANGED <<live, pending, job, safety>>

\* ApplyPending can use what is staged: READY parses, both staged files are
\* there and open under its passphrase.  Otherwise the start ends in
\* log.Fatalf, and so does the next one.
Applicable ==
    /\ ready \in Passphrases
    /\ pstore # None /\ Pass[pstore] = ready
    /\ pvault # None /\ Pass[pvault] = ready

StartApply ==
    /\ pc = "down"
    /\ Applicable
    /\ pc' = "rmwal"
    /\ job' = pstore
    /\ UNCHANGED <<live, pending, safety, ran>>

Mut_KeepWal ==
    /\ pc = "rmwal"
    /\ pc' = "rmstore"
    /\ UNCHANGED <<live, pending, job, safety, ran>>

\* writePendingSwap: the WAL of the old store goes before the store itself.
SwapRemoveWal ==
    /\ pc = "rmwal"
    /\ wal' = None
    /\ pc' = "rmstore"
    /\ UNCHANGED <<store, vault, sidecar, pending, job, safety, ran>>

SwapRemoveStore ==
    /\ pc = "rmstore"
    /\ store' = None
    /\ pc' = "wrstore"
    /\ UNCHANGED <<wal, vault, sidecar, pending, job, safety, ran>>

Mut_SwapStoreOnly ==
    /\ pc = "wrstore"
    /\ store' = pstore
    /\ pc' = "rmpstore"
    /\ UNCHANGED <<wal, vault, sidecar, pending, job, safety, ran>>

\* The bytes written are the staged ones, read before the swap began.
SwapWriteStore ==
    /\ pc = "wrstore"
    /\ store' = pstore
    /\ pc' = "rmvault"
    /\ UNCHANGED <<wal, vault, sidecar, pending, job, safety, ran>>

SwapRemoveVault ==
    /\ pc = "rmvault"
    /\ vault' = None
    /\ pc' = "wrvault"
    /\ UNCHANGED <<store, wal, sidecar, pending, job, safety, ran>>

SwapWriteVault ==
    /\ pc = "wrvault"
    /\ vault' = pvault
    /\ pc' = "rmpstore"
    /\ UNCHANGED <<store, wal, sidecar, pending, job, safety, ran>>

\* Clean up: the staged files, the sidecar the swap invalidates, READY last.
CleanStagedStore ==
    /\ pc = "rmpstore"
    /\ pstore' = None
    /\ pc' = "rmpvault"
    /\ UNCHANGED <<live, pvault, ready, job, safety, ran>>

CleanStagedVault ==
    /\ pc = "rmpvault"
    /\ pvault' = None
    /\ pc' = "rmkey"
    /\ UNCHANGED <<live, pstore, ready, job, safety, ran>>

Mut_KeepSidecar ==
    /\ pc = "rmkey"
    /\ pc' = "rmready"
    /\ UNCHANGED <<live, pending, job, safety, ran>>

CleanSidecar ==
    /\ pc = "rmkey"
    /\ sidecar' = None
    /\ pc' = "rmready"
    /\ UNCHANGED <<store, wal, vault, pending, job, safety, ran>>

Mut_KeepReady ==
    /\ pc = "rmready"
    /\ pc' = "running" /\ job' = None
    /\ ran' = store
    /\ UNCHANGED <<live, pending, safety>>

CleanReady ==
    /\ pc = "rmready"
    /\ ready' = None
    /\ pc' = "running" /\ job' = None
    /\ ran' = store
    /\ UNCHANGED <<live, pstore, pvault, safety>>
-----------------------------------------------------------------------------
Restore ==
    \/ RestoreSnapshot \/ StageStore \/ StageVault \/ ReadyOpen \/ ReadyWrite

Start ==
    \/ StartPlain \/ StartApply
    \/ SwapRemoveWal \/ SwapRemoveStore \/ SwapWriteStore
    \/ SwapRemoveVault \/ SwapWriteVault
    \/ CleanStagedStore \/ CleanStagedVault \/ CleanSidecar \/ CleanReady

Next ==
    \/ OpenWal \/ EnableAutoUnlock
    \/ \E b \in Backups : RestoreBegin(b)
    \/ Restore \/ RestoreFail
    \/ Exit
    \/ Start

Spec == Init /\ [][Next]_vars

\* A start that is under way goes on, and a user whose application is down
\* starts it again.
FairSpec == Spec /\ WF_vars(Start)
-----------------------------------------------------------------------------
TypeOK ==
    /\ store \in Files /\ wal \in Files /\ vault \in Files /\ sidecar \in Files
    /\ pstore \in Backups \cup {None} /\ pvault \in Backups \cup {None}
    /\ ready \in Passphrases \cup {None, Torn}
    /\ pc \in PCs
    /\ job \in Backups \cup {None}
    /\ safety \subseteq Profiles
    /\ ran \in Profiles

\* "snapshot semantics ... cannot half-merge a vault": an application that
\* runs has a store and a vault of one profile.
ProfileWhole == pc = "running" => store = vault /\ store # None

\* SQLite replays the WAL it finds beside a store, so an application must
\* never run on a store with the WAL of another one.
NoForeignWal == pc = "running" => wal \in {None, store}

\* The key that unlocks the vault unattended is one for this vault.
SidecarFits == pc = "running" => sidecar \in {None, vault}

\* A restore never destroys the only copy: the profile that ran last is
\* still live, both files of it, or in a safety snapshot.
Recoverable == (store = ran /\ vault = ran) \/ ran \in safety

\* "The user must quit + reopen to apply": once the process stops dying, a
\* start comes up; no leftover of an interrupted restore blocks it for good.
StartsAgain == <>[][~Exit]_vars => (pc = "down" ~> pc = "running")
=============================================================================
