------------------------ MODULE PendingRestoreProofs ------------------------
(***************************************************************************)
(* For every set of backups and every number of restores, exits and        *)
(* crashes: what PendingRestore promises about the files an application    *)
(* runs on.  The invariant says, for each stage of the swap, which of the  *)
(* live files are already new, and that as long as READY is absent the     *)
(* live files are those of the profile that ran last.                      *)
(***************************************************************************)
EXTENDS PendingRestore, TLAPS

\* The live files as an application may open them.
LiveWhole ==
    /\ store = vault /\ store # None /\ store = ran
    /\ wal \in {None, store}
    /\ sidecar \in {None, vault}

\* Outside a swap that is under way the live files are whole.
InvLive == ready = None \/ pc \in {"running"} \cup StagePCs => LiveWhole

\* A READY that a start will act on stands beside two files of one backup.
InvStaged ==
    ready # None /\ pc # "stagevault"
      => pstore = None \/ pvault = None \/ pstore = pvault

\* While a backup is staged.
InvStage ==
    /\ pc \in StagePCs => job # None
    /\ pc = "stagevault" => pstore = job
    /\ pc \in {"readyopen", "readywrite"} => pstore = job /\ pvault = job

\* While the staged files are swapped in, and cleaned up.
InvSwap ==
    /\ pc \in SwapPCs \cup CleanPCs => ready # None
    /\ pc \in SwapPCs \cup {"rmpstore"} => pstore = pvault /\ pstore # None
    /\ pc \in (SwapPCs \cup CleanPCs) \ {"rmwal"} => wal = None
    /\ pc \in {"rmvault", "wrvault", "rmpstore"} => store = pstore
    /\ pc \in CleanPCs => store = vault /\ store # None
    /\ pc \in CleanPCs \ {"rmpstore"} => pstore = None
    /\ pc = "rmready" => sidecar = None

\* The copy that makes a restore undoable exists before READY does.
InvSafety ==
    ready # None \/ pc \in StagePCs \ {"snapshot"} => ran \in safety

IInv == TypeOK /\ InvLive /\ InvStaged /\ InvStage /\ InvSwap /\ InvSafety

\* The first state satisfies the invariant.
LEMMA InitInv == Init => IInv
BY RestoreAssumption DEF Init, IInv, TypeOK, Files, Profiles, PCs, LiveWhole,
   InvLive, InvStaged, InvStage, InvSwap, InvSafety, StagePCs, SwapPCs, CleanPCs

\* Every step keeps it, as long as a Restore over a pending one is not cut
\* short between its two staged files.
LEMMA NextInv ==
    ASSUME "restage" \notin Faults
    PROVE  IInv /\ [Next]_vars => IInv'
<1> SUFFICES ASSUME IInv, [Next]_vars PROVE IInv'
  OBVIOUS
<1> USE RestoreAssumption
    DEF IInv, TypeOK, Files, Profiles, Passphrases, PCs, StagePCs, SwapPCs,
        CleanPCs, LiveWhole, InvLive, InvStaged, InvStage, InvSwap, InvSafety,
        live, pending
<1>1. ASSUME NEW b \in Backups, RestoreBegin(b) PROVE IInv'
  BY <1>1 DEF RestoreBegin
<1>2. CASE OpenWal
  BY <1>2 DEF OpenWal
<1>3. CASE EnableAutoUnlock
  BY <1>3 DEF EnableAutoUnlock
<1>4. CASE RestoreSnapshot
  BY <1>4 DEF RestoreSnapshot
<1>5. CASE StageStore
  BY <1>5 DEF StageStore
<1>6. CASE StageVault
  BY <1>6 DEF StageVault
<1>7. CASE ReadyOpen
  BY <1>7 DEF ReadyOpen
<1>8. CASE ReadyWrite
  BY <1>8 DEF ReadyWrite
<1>9. CASE RestoreFail
  BY <1>9 DEF RestoreFail, Interruptible
<1>10. CASE Exit
  BY <1>10 DEF Exit, Interruptible
<1>11. CASE StartPlain
  BY <1>11 DEF StartPlain
<1>12. CASE StartApply
  BY <1>12 DEF StartApply, Applicable
<1>13. CASE SwapRemoveWal
  BY <1>13 DEF SwapRemoveWal
<1>14. CASE SwapRemoveStore
  BY <1>14 DEF SwapRemoveStore
<1>15. CASE SwapWriteStore
  BY <1>15 DEF SwapWriteStore
<1>16. CASE SwapRemoveVault
  BY <1>16 DEF SwapRemoveVault
<1>17. CASE SwapWriteVault
  BY <1>17 DEF SwapWriteVault
<1>18. CASE CleanStagedStore
  BY <1>18 DEF CleanStagedStore
<1>19. CASE CleanStagedVault
  BY <1>19 DEF CleanStagedVault
<1>20. CASE CleanSidecar
  BY <1>20 DEF CleanSidecar
<1>21. CASE CleanReady
  BY <1>21 DEF CleanReady
<1>22. CASE UNCHANGED vars
  BY <1>22 DEF vars
<1> QED
  BY <1>1, <1>2, <1>3, <1>4, <1>5, <1>6, <1>7, <1>8, <1>9, <1>10, <1>11,
     <1>12, <1>13, <1>14, <1>15, <1>16, <1>17, <1>18, <1>19, <1>20, <1>21,
     <1>22
     DEF Next, Restore, Start

\* Whatever is restored and wherever the process dies, an application never
\* runs on the store of one profile and the vault of another.
THEOREM ProfileStaysWhole ==
    ASSUME "restage" \notin Faults
    PROVE  Spec => []ProfileWhole
<1>1. IInv => ProfileWhole
  BY DEF IInv, InvLive, LiveWhole, ProfileWhole
<1> QED
  BY InitInv, NextInv, <1>1, PTL DEF Spec

\* Nor on a store with the write-ahead log of another, which SQLite would
\* replay into it (ApplyPending removes the log before the store).
THEOREM NothingForeign ==
    ASSUME "restage" \notin Faults
    PROVE  Spec => [](TypeOK /\ NoForeignWal)
<1>1. IInv => TypeOK /\ NoForeignWal
  BY DEF IInv, InvLive, LiveWhole, NoForeignWal
<1> QED
  BY InitInv, NextInv, <1>1, PTL DEF Spec

\* Nor beside the unlock key of another vault: the sidecar of a replaced vault
\* is gone before READY is, wherever the process dies in between.
THEOREM KeyFitsVault ==
    ASSUME "restage" \notin Faults
    PROVE  Spec => []SidecarFits
<1>1. IInv => SidecarFits
  BY DEF IInv, InvLive, LiveWhole, SidecarFits
<1> QED
  BY InitInv, NextInv, <1>1, PTL DEF Spec

\* The profile that ran last always exists somewhere in full.
THEOREM AlwaysRecoverable ==
    ASSUME "restage" \notin Faults
    PROVE  Spec => []Recoverable
<1>1. IInv => Recoverable
  BY DEF IInv, InvLive, InvSafety, LiveWhole, Recoverable
<1> QED
  BY InitInv, NextInv, <1>1, PTL DEF Spec
=============================================================================
