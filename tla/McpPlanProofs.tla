---------------------------- MODULE McpPlanProofs ----------------------------
(***************************************************************************)
(* Proofs about McpPlan, for any number of calls and commits: only what    *)
(* was shown and agreed to is in the store, in full and with every         *)
(* reference resolved, and a folder's default is lost only to a commit that *)
(* merged before the folder got it.                                        *)
(***************************************************************************)
EXTENDS McpPlan, TLAPS

EntryType == [kind : {"folder", "conn", "forward"},
              in : Ids \cup {None, Dir, Host}, jump : Ids \cup {None}]
EditType == [in : Ids \cup {None, Dir}, jump : Ids \cup {None}, icon : SUBSET Icons]

\* Only a connection and the settings of a folder name a jump host.
IsPlan(p) ==
    /\ DOMAIN p = {"entries", "edit", "defaults"} /\ p.edit \in EditType
    /\ p.entries \in [DOMAIN p.entries -> EntryType] /\ DOMAIN p.entries \subseteq Ids
    /\ \A i \in DOMAIN p.entries : p.entries[i].kind = "forward" => p.entries[i].jump = None

IsStore(s) ==
    /\ DOMAIN s = {"rows", "edit", "dir", "host", "settings"} /\ s.edit \in EditType
    /\ s.rows \in [DOMAIN s.rows -> EntryType]

\* The statements of a commit's transaction, and all it does once it may write.
Running(c) == pc[c] \in {"folders", "conns", "jumps", "edits", "icon", "commit"}
Writing(c) == pc[c] \in {"merge", "begin"} \/ Running(c)

TypeInv ==
    /\ IsPlan(staged) /\ next \in Nat \ {0}
    /\ DOMAIN pc = Commits /\ DOMAIN detached = Commits /\ DOMAIN preview = Commits
    /\ DOMAIN answer = Commits /\ DOMAIN merged = Commits
    /\ \A c \in Commits : IsPlan(detached[c])
    /\ IsStore(db) /\ IsStore(tx)

\* Every reference of a validated plan names an entry of it, or what the store
\* has had all along.
Closed(p) ==
    /\ \A i \in DOMAIN p.entries :
         /\ p.entries[i].in \in DOMAIN p.entries \cup {None, Dir, Host}
         /\ p.entries[i].jump \in DOMAIN p.entries \cup {None}
    /\ p.edit.jump \in DOMAIN p.entries \cup {None}

\* What a commit asks about and writes is what it took and validated, and it
\* writes with the user's consent.
Consented(c) ==
    /\ pc[c] \in {"idle", "take", "validate"} => answer[c] = None
    /\ pc[c] = "ask" \/ Writing(c) => preview[c] = detached[c] /\ Closed(preview[c])
    /\ (pc[c] = "ask" /\ answer[c] = "run") \/ Writing(c) => c \in agreed

ConsentInv == \A c \in Commits : Consented(c)

\* The rows that the transaction of c has inserted so far.
Made(c) ==
    CASE pc[c] = "folders" -> {}
      [] pc[c] = "conns" -> Of(preview[c], "folder")
      [] pc[c] = "jumps" -> Of(preview[c], "folder") \cup Of(preview[c], "conn")
      [] OTHER -> DOMAIN preview[c].entries

Row(c, i) ==
    IF pc[c] \in {"conns", "jumps"} THEN [preview[c].entries[i] EXCEPT !.jump = None]
    ELSE preview[c].entries[i]

\* The transaction's view is the store with part of the approved plan in it.
Ahead(c) ==
    /\ tx.rows = [i \in DOMAIN db.rows \cup Made(c) |->
                     IF i \in Made(c) THEN Row(c, i) ELSE db.rows[i]]
    /\ tx.edit.in \in {db.edit.in, preview[c].edit.in}
    /\ \/ tx.edit.jump = db.edit.jump
       \/ pc[c] \in {"icon", "commit"} /\ tx.edit.jump = preview[c].edit.jump
    /\ tx.edit.icon = db.edit.icon \/ tx.edit.icon \subseteq preview[c].edit.icon

\* One transaction at a time has the store's connection.
TxInv ==
    /\ holder = None => tx = db
    /\ \A c \in Commits : /\ Running(c) <=> holder = c
                          /\ Running(c) => Ahead(c)

\* Of the folder's settings a commit has all it did not miss: in what it
\* merged, until that is written, and then in what its transaction sees.
MergeInv ==
    \A c \in Commits :
        /\ pc[c] \in {"begin", "folders"} /\ detached[c].defaults
             => db.settings \subseteq merged[c] \cup missed[c]
        /\ Running(c) => db.settings \subseteq tx.settings \cup missed[c]

\* Commits that are over, and whose preview was agreed to.
Past == {c \in Commits : pc[c] = "done" /\ c \in agreed}

\* What plans left in the store is whole previews of those.
DbInv ==
    /\ \A i \in DOMAIN db.rows :
         /\ \E c \in Past : /\ i \in DOMAIN preview[c].entries
                            /\ db.rows[i] = preview[c].entries[i]
                            /\ DOMAIN preview[c].entries \subseteq DOMAIN db.rows
         /\ db.rows[i].in \in DOMAIN db.rows \cup {None, Dir, Host}
         /\ db.rows[i].jump \in DOMAIN db.rows \cup {None}
    /\ db.edit.in # None => \E c \in Past : preview[c].edit.in = db.edit.in
    /\ db.edit.icon # {} => \E c \in Past : db.edit.icon \subseteq preview[c].edit.icon
    /\ db.edit.jump # None =>
         db.edit.jump \in DOMAIN db.rows /\ \E c \in Past : preview[c].edit.jump = db.edit.jump

IInv == TypeInv /\ ConsentInv /\ TxInv /\ MergeInv /\ DbInv
-----------------------------------------------------------------------------
(* Types.                                                                  *)

LEMMA EmptyIsPlan == IsPlan(Empty)
<1>1. /\ DOMAIN Empty.entries = {} /\ Empty.entries = [i \in {} |-> i]
      /\ DOMAIN Empty = {"entries", "edit", "defaults"}
  BY DEF Empty
<1>2. Empty.edit \in EditType
  BY DEF Empty, NoEdit, EditType
<1> QED
  BY <1>1, <1>2 DEF IsPlan

LEMMA MergedEdits ==
    ASSUME NEW a \in EditType, NEW b \in EditType
    PROVE  mergeConnEdit(a, b) \in EditType
BY DEF mergeConnEdit, EditType

\* What the tools make of a plan is a plan.
LEMMA StagedIsPlan ==
    ASSUME IsPlan(staged), next \in Nat \ {0},
           planAddFolder \/ planAddConnection \/ planAddForward
           \/ planSetFolderSettings \/ planEditConnection
    PROVE  IsPlan(staged') /\ next' \in Nat \ {0}
<1>0. MaxCalls \in Nat
  BY PlanAssumption
<1>1. ASSUME NEW kind \in {"folder", "conn", "forward"}, StageEntry(kind)
      PROVE  IsPlan(staged') /\ next' \in Nat \ {0}
  <2>1. PICK in \in (1..next - 1) \cup (IF kind = "forward" THEN {Host} ELSE {None, Dir}),
             jump \in IF kind = "conn" THEN (1..next - 1) \cup {None} ELSE {None} :
          Stage([staged EXCEPT !.entries =
                    Put(@, next, [kind |-> kind, in |-> in, jump |-> jump])])
    BY <1>1 DEF StageEntry
  <2> DEFINE e == [kind |-> kind, in |-> in, jump |-> jump]
             es == Put(staged.entries, next, e)
  <2>2. e \in EntryType /\ (e.kind = "forward" => e.jump = None) /\ next \in Ids
    <3>1. next \in Ids /\ \A j \in 1..next - 1 : j \in Ids
      BY <1>0, <2>1 DEF Stage, Ids
    <3>2. in \in Ids \cup {None, Dir, Host} /\ jump \in Ids \cup {None}
          /\ (kind = "forward" => jump = None)
      BY <3>1
    <3> QED
      BY <3>1, <3>2 DEF EntryType
  <2> HIDE DEF e
  <2>3. /\ es \in [DOMAIN es -> EntryType] /\ DOMAIN es \subseteq Ids
        /\ \A i \in DOMAIN es : es[i].kind = "forward" => es[i].jump = None
    BY <2>2 DEF Put, IsPlan
  <2>4. staged' = [staged EXCEPT !.entries = es] /\ next' = next + 1
    BY <2>1 DEF Stage, e
  <2> HIDE DEF es
  <2> QED
    BY <2>3, <2>4 DEF IsPlan
<1>2. ASSUME NEW i \in Of(staged, "folder"), NEW j \in 1..next - 1,
             Stage([staged EXCEPT !.entries[i].jump = j])
      PROVE  IsPlan(staged') /\ next' \in Nat \ {0}
  <2> DEFINE e == [staged.entries[i] EXCEPT !.jump = j]
             es == [staged.entries EXCEPT ![i] = e]
  <2>1. e \in EntryType /\ e.kind = "folder" /\ i \in DOMAIN staged.entries
    BY <1>0, <1>2 DEF EntryType, Of, Stage, Ids, IsPlan
  <2> HIDE DEF e
  <2>2. /\ es \in [DOMAIN es -> EntryType] /\ DOMAIN es \subseteq Ids
        /\ \A k \in DOMAIN es : es[k].kind = "forward" => es[k].jump = None
    BY <2>1 DEF IsPlan
  <2>3. staged' = [staged EXCEPT !.entries = es] /\ next' = next + 1
    BY <1>2 DEF Stage, e
  <2> HIDE DEF es
  <2> QED
    BY <2>2, <2>3 DEF IsPlan
<1>3. ASSUME Stage([staged EXCEPT !.defaults = TRUE])
      PROVE  IsPlan(staged') /\ next' \in Nat \ {0}
  BY <1>3 DEF Stage, IsPlan
<1>4. ASSUME planEditConnection
      PROVE  IsPlan(staged') /\ next' \in Nat \ {0}
  <2> DEFINE E == {[NoEdit EXCEPT !.in = r] : r \in (1..next - 1) \cup {Dir}}
                  \cup {[NoEdit EXCEPT !.jump = j] : j \in 1..next - 1}
                  \cup {[NoEdit EXCEPT !.icon = {i}] : i \in Icons}
  <2>1. PICK e \in E : Stage([staged EXCEPT !.edit = mergeConnEdit(@, e)])
    BY <1>4 DEF planEditConnection
  <2>2. \A j \in 1..next - 1 : j \in Ids
    BY <1>0, <2>1 DEF Stage, Ids
  <2>3. e \in EditType
    BY <2>1, <2>2 DEF NoEdit, EditType
  <2>4. mergeConnEdit(staged.edit, e) \in EditType
    BY <2>3, MergedEdits DEF IsPlan
  <2> QED
    BY <2>1, <2>4 DEF Stage, IsPlan
<1> QED
  BY <1>1, <1>2, <1>3, <1>4
     DEF planAddFolder, planAddConnection, planAddForward, planSetFolderSettings

LEMMA InsertType ==
    ASSUME NEW c \in Commits, IsPlan(detached[c]), NEW kind,
           NEW rows, rows \in [DOMAIN rows -> EntryType]
    PROVE  Insert(rows, kind, c) \in [DOMAIN Insert(rows, kind, c) -> EntryType]
<1>1. \A i \in Of(PlanOf(c), kind) : [PlanOf(c).entries[i] EXCEPT !.jump = None] \in EntryType
  BY DEF Of, PlanOf, IsPlan, EntryType
<1> QED
  BY <1>1 DEF Insert

\* A step of a transaction keeps the store it sees one.
LEMMA TxTypes ==
    ASSUME TypeInv, NEW c \in Commits,
           WriteFolders(c) \/ WriteConns(c) \/ WriteJumps(c) \/ WriteEdits(c) \/ WriteIcon(c)
    PROVE  IsStore(tx')
<1>0. IsPlan(detached[c]) /\ IsStore(tx) /\ PlanOf(c) = detached[c]
  BY DEF TypeInv, PlanOf
<1>1. ASSUME NEW rows, rows \in [DOMAIN rows -> EntryType], NEW settings,
             tx' = [tx EXCEPT !.rows = rows]
             \/ tx' = [tx EXCEPT !.rows = rows, !.settings = settings]
      PROVE  IsStore(tx')
  BY <1>0, <1>1 DEF IsStore
<1>2. ASSUME NEW e \in EditType, tx' = [tx EXCEPT !.edit = e]
      PROVE  IsStore(tx')
  BY <1>0, <1>2 DEF IsStore
<1>3. CASE WriteFolders(c)
  <2>1. Insert(tx.rows, "folder", c) \in [DOMAIN Insert(tx.rows, "folder", c) -> EntryType]
    BY <1>0, InsertType DEF IsStore
  <2> DEFINE v == IF PlanOf(c).defaults THEN merged[c] ELSE tx.settings
  <2>2. tx' = [tx EXCEPT !.rows = Insert(tx.rows, "folder", c), !.settings = v]
    BY <1>3 DEF WriteFolders, Writes
  <2> DEFINE r == Insert(tx.rows, "folder", c)
  <2> HIDE DEF v, r
  <2>3. tx' = [tx EXCEPT !.rows = r, !.settings = v] /\ r \in [DOMAIN r -> EntryType]
    BY <2>1, <2>2 DEF r
  <2> QED
    BY <1>1, <2>3
<1>4. CASE WriteConns(c)
  <2>1. Insert(tx.rows, "conn", c) \in [DOMAIN Insert(tx.rows, "conn", c) -> EntryType]
    BY <1>0, InsertType DEF IsStore
  <2> QED
    BY <1>1, <1>4, <2>1 DEF WriteConns, Writes
<1>5. CASE WriteJumps(c)
  <2> DEFINE r == [i \in DOMAIN tx.rows |->
                      IF i \in DOMAIN PlanOf(c).entries
                      THEN [tx.rows[i] EXCEPT !.jump = PlanOf(c).entries[i].jump]
                      ELSE tx.rows[i]]
  <2>1. r \in [DOMAIN r -> EntryType]
    BY <1>0 DEF IsPlan, IsStore, EntryType
  <2>2. tx' = [tx EXCEPT !.rows = Insert(r, "forward", c)]
    BY <1>5 DEF WriteJumps, Writes
  <2> HIDE DEF r
  <2>3. Insert(r, "forward", c) \in [DOMAIN Insert(r, "forward", c) -> EntryType]
    BY <1>0, <2>1, InsertType
  <2> QED
    BY <1>1, <2>2, <2>3
<1>6. CASE WriteEdits(c)
  <2>1. [PlanOf(c).edit EXCEPT !.icon = {}] \in EditType /\ tx.edit \in EditType
    BY <1>0 DEF IsPlan, IsStore, EditType
  <2>2. mergeConnEdit(tx.edit, [PlanOf(c).edit EXCEPT !.icon = {}]) \in EditType
    BY <2>1, MergedEdits
  <2> QED
    BY <1>2, <1>6, <2>2 DEF WriteEdits, Writes
<1>7. CASE WriteIcon(c)
  <2> DEFINE set == PlanOf(c).edit.icon
             icon == IF "image" \in set THEN {"image"} ELSE set
             e == [tx.edit EXCEPT !.icon = IF icon = {} THEN @ ELSE icon]
  <2>1. e \in EditType
    BY <1>0 DEF IsPlan, IsStore, EditType
  <2>2. tx' = [tx EXCEPT !.edit = e]
    BY <1>7 DEF WriteIcon, Writes
  <2> HIDE DEF e
  <2> QED
    BY <1>2, <2>1, <2>2
<1> QED
  BY <1>3, <1>4, <1>5, <1>6, <1>7

LEMMA StepType == TypeInv /\ [Next]_vars => TypeInv'
<1> SUFFICES ASSUME TypeInv, [Next]_vars PROVE TypeInv'
  OBVIOUS
<1>1. IsPlan(staged') /\ next' \in Nat \ {0}
  <2>1. CASE UNCHANGED staged /\ UNCHANGED next
    BY <2>1 DEF TypeInv
  <2>2. CASE staged' = Empty /\ UNCHANGED next
    BY <2>2, EmptyIsPlan DEF TypeInv
  <2>3. CASE Tools
    BY <2>1, <2>2, <2>3, StagedIsPlan
       DEF TypeInv, Tools, SetManageStore, DropsPlan, ToolChecks, planDiscard
  <2>4. ASSUME NEW c \in Commits, CommitChecks(c) \/ CommitStep(c)
        PROVE  (UNCHANGED staged \/ staged' = Empty) /\ UNCHANGED next
    BY <2>4 DEF CommitChecks, CommitStep, CommitTakes, CommitValidates, Decide,
       ApprovalTimesOut, WriteMerges, Begin, WriteFolders, WriteConns, WriteJumps,
       WriteEdits, WriteIcon, Writes, TxCommits, TxFails, tools
  <2>5. ASSUME NEW w \in Windows, RespondSends(w) \/ \E c \in Commits : RespondFinds(w, c)
        PROVE  UNCHANGED staged /\ UNCHANGED next
    BY <2>5 DEF RespondSends, RespondFinds, tools
  <2>6. CASE UserSetsDefaults \/ UserDeletesDir \/ UserDeletesHost \/ UNCHANGED vars
    BY <2>1, <2>6 DEF UserSetsDefaults, UserDeletesDir, UserDeletesHost, UserWrites, tools, vars
  <2> QED
    BY <2>1, <2>2, <2>3, <2>4, <2>5, <2>6 DEF Next
<1>2. ASSUME NEW c \in Commits, CommitTakes(c) \/ Return(c)
      PROVE  DOMAIN detached' = Commits /\ \A b \in Commits : IsPlan(detached'[b])
  BY <1>2, EmptyIsPlan DEF TypeInv, CommitTakes, Return
<1>3. /\ DOMAIN pc' = Commits /\ DOMAIN detached' = Commits /\ DOMAIN preview' = Commits
      /\ DOMAIN answer' = Commits /\ DOMAIN merged' = Commits
      /\ \A c \in Commits : IsPlan(detached'[c])
  <2> DEFINE G == /\ DOMAIN pc' = Commits /\ DOMAIN detached' = Commits
                  /\ DOMAIN preview' = Commits /\ DOMAIN answer' = Commits
                  /\ DOMAIN merged' = Commits
                  /\ \A c \in Commits : IsPlan(detached'[c])
  <2>1. ASSUME UNCHANGED <<pc, detached, preview, answer, merged>> PROVE G
    BY <2>1 DEF TypeInv
  <2>2. CASE Tools
    BY <2>1, <2>2 DEF Tools, SetManageStore, DropsPlan, ToolChecks, planAddFolder,
       planAddConnection, planAddForward, StageEntry, planSetFolderSettings, planEditConnection,
       planDiscard, Stage, approval, merges
  <2>3. ASSUME NEW c \in Commits, CommitChecks(c) \/ CommitStep(c) PROVE G
    <3>1. /\ DOMAIN pc' = Commits /\ DOMAIN preview' = Commits
          /\ DOMAIN answer' = Commits /\ DOMAIN merged' = Commits
      BY <2>3 DEF TypeInv, CommitChecks, CommitStep, CommitTakes, CommitValidates, Decide,
         ApprovalTimesOut, WriteMerges, Begin, WriteFolders, WriteConns, WriteJumps,
         WriteEdits, WriteIcon, Writes, TxCommits, TxFails, Goto, Return, approval,
         merges
    <3>2. UNCHANGED detached \/ CommitTakes(c) \/ Return(c)
      BY <2>3 DEF CommitChecks, CommitStep, CommitValidates, Decide,
         ApprovalTimesOut, WriteMerges, Begin, WriteFolders, WriteConns, WriteJumps,
         WriteEdits, WriteIcon, Writes, TxCommits, TxFails, Goto
    <3> QED
      BY <1>2, <3>1, <3>2 DEF TypeInv
  <2>4. ASSUME NEW w \in Windows, RespondSends(w) \/ \E c \in Commits : RespondFinds(w, c)
        PROVE  G
    BY <2>4 DEF TypeInv, RespondSends, RespondFinds, SendOn, merges
  <2>5. CASE UserSetsDefaults \/ UserDeletesDir \/ UserDeletesHost \/ UNCHANGED vars
    BY <2>1, <2>5 DEF UserSetsDefaults, UserDeletesDir, UserDeletesHost, UserWrites, approval,
       merges, vars
  <2> QED
    BY <2>2, <2>3, <2>4, <2>5 DEF Next
<1>4. IsStore(db') /\ IsStore(tx')
  <2>1. CASE db' \in {db, tx} /\ tx' \in {db, tx}
    BY <2>1 DEF TypeInv
  <2>2. ASSUME NEW c \in Commits, CommitChecks(c) \/ CommitStep(c)
        PROVE  IsStore(db') /\ IsStore(tx')
    <3>1. CASE \/ WriteFolders(c) \/ WriteConns(c) \/ WriteJumps(c)
               \/ WriteEdits(c) \/ WriteIcon(c)
      <4>1. UNCHANGED db
        BY <3>1 DEF WriteFolders, WriteConns, WriteJumps, WriteEdits, WriteIcon, Writes
      <4> QED
        BY <3>1, <4>1, TxTypes DEF TypeInv
    <3> QED
      BY <2>1, <2>2, <3>1 DEF CommitChecks, CommitStep, CommitTakes, CommitValidates, Decide,
         ApprovalTimesOut, WriteMerges, Begin, TxCommits, TxFails, store
  <2>3. CASE UserSetsDefaults \/ UserDeletesDir \/ UserDeletesHost
    BY <2>3 DEF TypeInv, IsStore, UserSetsDefaults, UserDeletesDir, UserDeletesHost, UserWrites
  <2>4. CASE Tools \/ UNCHANGED vars
    BY <2>1, <2>4 DEF Tools, SetManageStore, DropsPlan, ToolChecks, planAddFolder,
       planAddConnection, planAddForward, StageEntry, planSetFolderSettings, planEditConnection,
       planDiscard, Stage, store, vars
  <2>5. ASSUME NEW w \in Windows, RespondSends(w) \/ \E c \in Commits : RespondFinds(w, c)
        PROVE  IsStore(db') /\ IsStore(tx')
    BY <2>1, <2>5 DEF RespondSends, RespondFinds, store
  <2> QED
    BY <2>2, <2>3, <2>4, <2>5 DEF Next
<1> QED
  BY <1>1, <1>3, <1>4 DEF TypeInv
-----------------------------------------------------------------------------
(* Consent.                                                                *)

LEMMA ValidatedIsClosed ==
    ASSUME NEW p, IsPlan(p), validatePlanRefs(p)
    PROVE  Closed(p)
<1>1. ASSUME NEW i \in DOMAIN p.entries
      PROVE  /\ p.entries[i].in \in DOMAIN p.entries \cup {None, Dir, Host}
             /\ p.entries[i].jump \in DOMAIN p.entries \cup {None}
  BY DEF IsPlan, validatePlanRefs, PlaceOK, Of
<1>2. p.edit.jump \in DOMAIN p.entries \cup {None}
  BY DEF IsPlan, validatePlanRefs, Of, NoEdit, EditType
<1> QED
  BY <1>1, <1>2 DEF Closed

\* Nothing a commit consented to changes in a step that is not its own.
LEMMA ConsentFrame ==
    ASSUME ConsentInv, NEW c \in Commits,
           \A d \in Commits : d # c =>
               /\ pc'[d] = pc[d] /\ detached'[d] = detached[d] /\ preview'[d] = preview[d]
               /\ answer'[d] = answer[d] /\ (d \in agreed <=> d \in agreed'),
           Consented(c)'
    PROVE  ConsentInv'
BY DEF ConsentInv, Consented, Writing, Running

LEMMA StepConsent == TypeInv /\ ConsentInv /\ [Next]_vars => ConsentInv'
<1> SUFFICES ASSUME TypeInv, ConsentInv, [Next]_vars PROVE ConsentInv'
  OBVIOUS
<1>0. /\ DOMAIN pc = Commits /\ DOMAIN detached = Commits /\ DOMAIN preview = Commits
      /\ DOMAIN answer = Commits
  BY DEF TypeInv
<1>1. ASSUME UNCHANGED <<pc, detached, preview, answer, agreed>> PROVE ConsentInv'
  BY <1>1 DEF ConsentInv, Consented, Writing, Running
\* From l, what is known there is enough at then.
<1>2. ASSUME NEW c \in Commits, NEW l, NEW then, pc[c] = l, Goto(c, then),
             UNCHANGED <<preview, answer, agreed>>,
             \/ l = "idle" /\ then = "take"
             \/ l = "begin" /\ then = "folders"
             \/ l = "merge" /\ then = "begin"
             \/ l = "folders" /\ then = "conns"
             \/ l = "conns" /\ then = "jumps"
             \/ l = "jumps" /\ then = "edits"
             \/ l = "edits" /\ then = "icon"
             \/ l = "icon" /\ then = "commit"
      PROVE  ConsentInv'
  <2>1. pc'[c] = then /\ \A d \in Commits : d # c => pc'[d] = pc[d]
    BY <1>0, <1>2 DEF Goto
  <2>2. Consented(c)'
    BY <1>2, <2>1 DEF ConsentInv, Consented, Writing, Running, Goto
  <2> QED
    BY <1>2, <2>1, <2>2, ConsentFrame DEF Goto
<1>3. ASSUME NEW c \in Commits, CommitTakes(c) PROVE ConsentInv'
  <2>1. Consented(c)'
    BY <1>0, <1>3 DEF ConsentInv, Consented, Writing, Running, CommitTakes, approval
  <2> QED
    BY <1>0, <1>3, <2>1, ConsentFrame DEF CommitTakes, approval
\* A commit that returned has nothing to consent to.
<1>4. ASSUME NEW c \in Commits, Return(c),
             \A d \in Commits : d # c => answer'[d] = answer[d] /\ (d \in agreed <=> d \in agreed')
      PROVE  ConsentInv'
  <2>1. pc'[c] = "done"
    BY <1>0, <1>4 DEF Return
  <2>2. Consented(c)'
    BY <2>1 DEF Consented, Writing, Running
  <2>3. \A d \in Commits : d # c =>
            pc'[d] = pc[d] /\ detached'[d] = detached[d] /\ preview'[d] = preview[d]
    BY <1>0, <1>4 DEF Return
  <2> QED
    BY <1>4, <2>2, <2>3, ConsentFrame
<1>5. ASSUME NEW c \in Commits, CommitValidates(c) PROVE ConsentInv'
  <2>1. CASE Return(c)
    BY <1>4, <1>5, <2>1 DEF CommitValidates
  <2>2. CASE validatePlanRefs(PlanOf(c)) /\ Goto(c, "ask")
             /\ preview' = [preview EXCEPT ![c] = PlanOf(c)]
    <3>1. Closed(detached[c])
      BY <2>2, ValidatedIsClosed DEF PlanOf, TypeInv
    <3>2. /\ pc'[c] = "ask" /\ preview'[c] = detached[c] /\ detached' = detached
          /\ \A d \in Commits : d # c => pc'[d] = pc[d] /\ preview'[d] = preview[d]
      BY <1>0, <2>2 DEF Goto, PlanOf
    <3>3. answer' = answer /\ agreed' = agreed /\ answer[c] # "run"
      BY <1>5, PlanAssumption DEF CommitValidates, ConsentInv, Consented
    <3>4. Consented(c)'
      BY <3>1, <3>2, <3>3 DEF Consented, Writing, Running
    <3> QED
      BY <3>2, <3>3, <3>4, ConsentFrame
  <2> QED
    BY <1>5, <2>1, <2>2 DEF CommitValidates
<1>6. ASSUME NEW w \in Windows, RespondSends(w) PROVE ConsentInv'
  <2>1. CASE UNCHANGED <<answer, agreed>>
    BY <1>1, <1>6, <2>1 DEF RespondSends
  <2>2. ASSUME NEW d \in {"run", "deny"}, pc[found[w]] = "ask",
               answer' = [answer EXCEPT ![found[w]] = d],
               agreed' = IF d = "run" THEN agreed \cup {found[w]} ELSE agreed
        PROVE  ConsentInv'
    <3>1. /\ \A c \in Commits : answer'[c] = IF c = found[w] THEN d ELSE answer[c]
          /\ \A c \in Commits : c \in agreed' <=> c \in agreed \/ (d = "run" /\ c = found[w])
          /\ UNCHANGED <<pc, detached, preview>>
      BY <1>0, <1>6, <2>2 DEF RespondSends
    <3> QED
      BY <2>2, <3>1 DEF ConsentInv, Consented, Writing, Running
  <2> QED
    BY <1>6, <2>1, <2>2 DEF RespondSends, SendOn
<1>7. ASSUME NEW c \in Commits, Decide(c) PROVE ConsentInv'
  <2>1. \A d \in Commits : d # c => answer'[d] = answer[d] /\ (d \in agreed <=> d \in agreed')
    BY <1>0, <1>7 DEF Decide
  <2>2. CASE Return(c)
    BY <1>4, <2>1, <2>2
  <2>3. CASE answer[c] = "run" /\ Goto(c, "merge") /\ UNCHANGED preview
    <3>1. /\ pc'[c] = "merge" /\ \A d \in Commits : d # c => pc'[d] = pc[d]
          /\ UNCHANGED <<detached, agreed>>
      BY <1>0, <1>7, <2>3 DEF Goto, Decide
    <3>2. Consented(c)'
      BY <1>7, <2>3, <3>1 DEF Decide, ConsentInv, Consented, Writing, Running
    <3> QED
      BY <2>1, <2>3, <3>1, <3>2, ConsentFrame
  <2> QED
    BY <1>7, <2>2, <2>3 DEF Decide
<1>8. ASSUME NEW c \in Commits, ApprovalTimesOut(c) PROVE ConsentInv'
  <2>1. \A d \in Commits : d # c => answer'[d] = answer[d] /\ (d \in agreed <=> d \in agreed')
    BY <1>0, <1>8 DEF ApprovalTimesOut
  <2> QED
    BY <1>4, <1>8, <2>1 DEF ApprovalTimesOut
<1>9. ASSUME NEW c \in Commits, WriteMerges(c) PROVE ConsentInv'
  <2>1. UNCHANGED <<answer, agreed>> /\ pc[c] = "merge"
    BY <1>9 DEF WriteMerges
  <2>2. CASE Return(c)
    BY <1>4, <2>1, <2>2
  <2>3. CASE pc' = [pc EXCEPT ![c] = "begin"] /\ UNCHANGED <<detached, preview>>
    <3>1. pc'[c] = "begin" /\ \A d \in Commits : d # c => pc'[d] = pc[d]
      BY <1>0, <2>3
    <3>2. Consented(c)'
      BY <2>1, <2>3, <3>1 DEF ConsentInv, Consented, Writing, Running
    <3> QED
      BY <2>1, <2>3, <3>1, <3>2, ConsentFrame
  <2> QED
    BY <1>9, <2>2, <2>3 DEF WriteMerges, Goto
<1>10. ASSUME NEW c \in Commits, CommitChecks(c) \/ Begin(c) \/ WriteFolders(c) \/ WriteConns(c)
                                \/ WriteJumps(c) \/ WriteEdits(c) \/ WriteIcon(c)
       PROVE  ConsentInv'
  <2>1. UNCHANGED <<preview, answer, agreed>>
    BY <1>10 DEF CommitChecks, Begin, WriteFolders, WriteConns, WriteJumps, WriteEdits,
       WriteIcon, Writes, approval
  <2>2. CASE CommitChecks(c)
    BY <1>2, <2>1, <2>2 DEF CommitChecks
  <2>3. CASE Begin(c)
    BY <1>2, <2>1, <2>3 DEF Begin
  <2>4. CASE WriteFolders(c) \/ WriteConns(c) \/ WriteJumps(c) \/ WriteEdits(c) \/ WriteIcon(c)
    <3>1. \/ pc[c] = "folders" /\ Goto(c, "conns")
          \/ pc[c] = "conns" /\ Goto(c, "jumps")
          \/ pc[c] = "jumps" /\ Goto(c, "edits")
          \/ pc[c] = "edits" /\ Goto(c, "icon")
          \/ pc[c] = "icon" /\ Goto(c, "commit")
      BY <2>4 DEF WriteFolders, WriteConns, WriteJumps, WriteEdits, WriteIcon, Writes
    <3> QED
      BY <1>2, <2>1, <3>1
  <2> QED
    BY <1>10, <2>2, <2>3, <2>4
<1>11. ASSUME NEW c \in Commits, TxCommits(c) \/ TxFails(c) PROVE ConsentInv'
  BY <1>4, <1>11 DEF TxCommits, TxFails
<1>12. CASE Tools
  BY <1>1, <1>12 DEF Tools, SetManageStore, DropsPlan, ToolChecks, planAddFolder,
     planAddConnection, planAddForward, StageEntry, planSetFolderSettings, planEditConnection,
     planDiscard, Stage, approval
<1>13. ASSUME NEW w \in Windows, NEW c \in Commits, RespondFinds(w, c) PROVE ConsentInv'
  BY <1>1, <1>13 DEF RespondFinds
<1>14. CASE UserSetsDefaults \/ UserDeletesDir \/ UserDeletesHost \/ UNCHANGED vars
  BY <1>1, <1>14 DEF UserSetsDefaults, UserDeletesDir, UserDeletesHost, UserWrites, approval, vars
<1> QED
  BY <1>3, <1>5, <1>6, <1>7, <1>8, <1>9, <1>10, <1>11, <1>12, <1>13, <1>14
     DEF Next, CommitStep
-----------------------------------------------------------------------------
(* The transaction.                                                        *)

\* The view of c is as before if c, its preview and the store are.
LEMMA TxFrame ==
    ASSUME TxInv, UNCHANGED store,
           \A d \in Commits : \/ pc'[d] = pc[d] /\ preview'[d] = preview[d]
                              \/ ~Running(d) /\ ~Running(d)'
                              \/ pc'[d] = pc[d] /\ ~Running(d)
    PROVE  TxInv'
<1>1. \A d \in Commits : Running(d)' <=> Running(d)
  BY DEF Running
<1>2. ASSUME NEW d \in Commits, pc'[d] = pc[d], preview'[d] = preview[d], Ahead(d)
      PROVE  Ahead(d)'
  <2>1. Made(d)' = Made(d) /\ \A i : Row(d, i)' = Row(d, i)
    BY <1>2 DEF Made, Row, Of
  <2> QED
    BY <1>2, <2>1 DEF Ahead, store
<1> QED
  BY <1>1, <1>2 DEF TxInv, store

\* After a statement of c its view is further ahead; nobody else has one.
LEMMA TxAdvances ==
    ASSUME TypeInv, TxInv, NEW c \in Commits, Running(c), NEW then, Goto(c, then),
           then \in {"conns", "jumps", "edits", "icon", "commit"},
           UNCHANGED holder, Ahead(c)'
    PROVE  TxInv'
<1>1. pc'[c] = then /\ \A d \in Commits : d # c => pc'[d] = pc[d]
  BY DEF TypeInv, Goto
<1>2. holder = c /\ c # None
  BY PlanAssumption DEF TxInv, Commits
<1>3. \A d \in Commits : Running(d)' <=> d = c
  BY <1>1, <1>2 DEF TxInv, Running
<1> QED
  BY <1>2, <1>3 DEF TxInv

LEMMA TxGrows ==
    ASSUME TypeInv, ConsentInv, TxInv, NEW c \in Commits,
           WriteFolders(c) \/ WriteConns(c) \/ WriteJumps(c) \/ WriteEdits(c) \/ WriteIcon(c)
    PROVE  TxInv'
<1> DEFINE p == preview[c]
<1>0. /\ p = detached[c] /\ p = PlanOf(c) /\ Running(c) /\ Ahead(c)
      /\ IsPlan(p) /\ IsStore(tx) /\ IsStore(db) /\ UNCHANGED <<db, preview, holder>>
      /\ DOMAIN pc = Commits
  <2>1. Running(c) /\ UNCHANGED <<db, preview, holder>>
    BY DEF WriteFolders, WriteConns, WriteJumps, WriteEdits, WriteIcon, Writes, Running, approval
  <2> QED
    BY <2>1 DEF ConsentInv, Consented, Writing, TxInv, TypeInv, PlanOf
<1>1. CASE WriteFolders(c)
  <2>1. pc[c] = "folders" /\ Goto(c, "conns") /\ pc'[c] = "conns"
    BY <1>0, <1>1 DEF WriteFolders, Writes, Goto
  <2> DEFINE v == IF detached[c].defaults THEN merged[c] ELSE tx.settings
  <2>3. tx' = [tx EXCEPT !.rows = Insert(tx.rows, "folder", c), !.settings = v]
    BY <1>1 DEF WriteFolders, Writes, PlanOf
  <2> HIDE DEF v
  <2>4. /\ tx'.rows = Insert(tx.rows, "folder", c) /\ tx'.settings = v /\ tx'.edit = tx.edit
    BY <1>0, <2>3 DEF IsStore
  <2>5. tx.rows = db.rows
    BY <1>0, <2>1 DEF Ahead, Made, IsStore
  <2>6. Ahead(c)'
    BY <1>0, <2>1, <2>4, <2>5 DEF Ahead, Made, Row, Of, Insert
  <2> QED
    BY <1>0, <2>1, <2>6, TxAdvances
<1>2. CASE WriteConns(c)
  <2>1. pc[c] = "conns" /\ Goto(c, "jumps") /\ pc'[c] = "jumps"
    BY <1>0, <1>2 DEF WriteConns, Writes, Goto
  <2>2. /\ tx'.rows = Insert(tx.rows, "conn", c) /\ tx'.settings = tx.settings
        /\ tx'.edit = tx.edit
    BY <1>0, <1>2 DEF IsStore, WriteConns, Writes
  <2>3. Ahead(c)'
    BY <1>0, <2>1, <2>2 DEF Ahead, Made, Row, Of, Insert
  <2> QED
    BY <1>0, <2>1, <2>3, TxAdvances
<1>3. CASE WriteJumps(c)
  <2>1. pc[c] = "jumps" /\ Goto(c, "edits") /\ pc'[c] = "edits"
    BY <1>0, <1>3 DEF WriteJumps, Writes, Goto
  <2> DEFINE r == [i \in DOMAIN tx.rows |->
                      IF i \in DOMAIN p.entries
                      THEN [tx.rows[i] EXCEPT !.jump = p.entries[i].jump]
                      ELSE tx.rows[i]]
  <2>2. /\ tx'.rows = Insert(r, "forward", c) /\ tx'.settings = tx.settings
        /\ tx'.edit = tx.edit
    BY <1>0, <1>3 DEF IsStore, WriteJumps, Writes
  <2>3. DOMAIN p.entries = Of(p, "folder") \cup Of(p, "conn") \cup Of(p, "forward")
    BY <1>0 DEF IsPlan, EntryType, Of
  <2>4. \A i \in DOMAIN p.entries :
          [[p.entries[i] EXCEPT !.jump = None] EXCEPT !.jump = p.entries[i].jump] = p.entries[i]
    BY <1>0 DEF IsPlan, EntryType
  <2>5. \A i \in Of(p, "forward") : [p.entries[i] EXCEPT !.jump = None] = p.entries[i]
    BY <1>0 DEF IsPlan, EntryType, Of
  <2>6. \A i \in DOMAIN tx.rows :
          r[i] = IF i \in Of(p, "folder") \cup Of(p, "conn") THEN p.entries[i]
                 ELSE IF i \in Of(p, "forward") THEN r[i] ELSE db.rows[i]
    BY <1>0, <2>1, <2>3, <2>4 DEF Ahead, Made, Row
  <2>7. DOMAIN r = DOMAIN db.rows \cup Of(p, "folder") \cup Of(p, "conn")
    BY <1>0, <2>1 DEF Ahead, Made
  <2> HIDE DEF r
  <2>8. tx'.rows = [i \in DOMAIN db.rows \cup DOMAIN p.entries |->
                       IF i \in DOMAIN p.entries THEN p.entries[i] ELSE db.rows[i]]
    <3> DEFINE q == Insert(r, "forward", c)
               Q == DOMAIN db.rows \cup DOMAIN p.entries
    <3>1. q = [i \in Q |-> q[i]]
      BY <1>0, <2>3, <2>7 DEF Insert
    <3>2. ASSUME NEW i \in Q
          PROVE  q[i] = IF i \in DOMAIN p.entries THEN p.entries[i] ELSE db.rows[i]
      <4>1. CASE i \in Of(p, "forward")
        BY <1>0, <2>3, <2>5, <4>1 DEF Insert
      <4>2. CASE i \notin Of(p, "forward")
        <5>1. q[i] = r[i] /\ i \in DOMAIN r
          BY <1>0, <2>3, <2>7, <4>2 DEF Insert
        <5>2. DOMAIN r = DOMAIN tx.rows
          BY DEF r
        <5> QED
          BY <2>3, <2>6, <4>2, <5>1, <5>2
      <4> QED
        BY <4>1, <4>2
    <3> HIDE DEF q
    <3> QED
      BY <2>2, <3>1, <3>2 DEF q
  <2>9. Ahead(c)'
    BY <1>0, <2>1, <2>2, <2>8 DEF Ahead, Made, Row
  <2> QED
    BY <1>0, <2>1, <2>9, TxAdvances
<1>4. CASE WriteEdits(c)
  <2>1. pc[c] = "edits" /\ Goto(c, "icon") /\ pc'[c] = "icon"
    BY <1>0, <1>4 DEF WriteEdits, Writes, Goto
  <2> DEFINE e == mergeConnEdit(tx.edit, [p.edit EXCEPT !.icon = {}])
  <2>2. tx'.edit = e /\ tx'.rows = tx.rows /\ tx'.settings = tx.settings
    BY <1>0, <1>4 DEF IsStore, WriteEdits, Writes
  <2>3. /\ e.in \in {tx.edit.in, p.edit.in} /\ e.jump \in {tx.edit.jump, p.edit.jump}
        /\ e.icon = tx.edit.icon
    BY <1>0 DEF mergeConnEdit, IsPlan, EditType
  <2> HIDE DEF e
  <2>4. Ahead(c)'
    BY <1>0, <2>1, <2>2, <2>3 DEF Ahead, Made, Row
  <2> QED
    BY <1>0, <2>1, <2>4, TxAdvances
<1>5. CASE WriteIcon(c)
  <2>1. pc[c] = "icon" /\ Goto(c, "commit") /\ pc'[c] = "commit"
    BY <1>0, <1>5 DEF WriteIcon, Writes, Goto
  <2> DEFINE set == p.edit.icon
             icon == IF "image" \in set THEN {"image"} ELSE set
             e == [tx.edit EXCEPT !.icon = IF icon = {} THEN @ ELSE icon]
  <2>2. tx'.edit = e /\ tx'.rows = tx.rows /\ tx'.settings = tx.settings
    BY <1>0, <1>5 DEF IsStore, WriteIcon, Writes
  <2>3. /\ e.in = tx.edit.in /\ e.jump = tx.edit.jump
        /\ e.icon = tx.edit.icon \/ e.icon \subseteq p.edit.icon
    BY <1>0 DEF IsStore, EditType
  <2> HIDE DEF e
  <2>4. Ahead(c)'
    BY <1>0, <2>1, <2>2, <2>3 DEF Ahead, Made, Row
  <2> QED
    BY <1>0, <2>1, <2>4, TxAdvances
<1> QED
  BY <1>1, <1>2, <1>3, <1>4, <1>5

LEMMA StepTx == TypeInv /\ ConsentInv /\ TxInv /\ [Next]_vars => TxInv'
<1> SUFFICES ASSUME TypeInv, ConsentInv, TxInv, [Next]_vars PROVE TxInv'
  OBVIOUS
<1>0. DOMAIN pc = Commits /\ DOMAIN preview = Commits /\ IsStore(db)
  BY DEF TypeInv
<1>1. ASSUME UNCHANGED <<pc, preview, store>> PROVE TxInv'
  BY <1>1, TxFrame
\* A commit that is not writing goes where it does not, either.
<1>2. ASSUME NEW c \in Commits, NEW then, ~Running(c), pc' = [pc EXCEPT ![c] = then],
             then \in {"take", "validate", "ask", "merge", "begin", "done"}, UNCHANGED store,
             \A d \in Commits : d # c => preview'[d] = preview[d]
      PROVE  TxInv'
  <2>1. pc'[c] = then /\ \A d \in Commits : d # c => pc'[d] = pc[d]
    BY <1>0, <1>2
  <2>2. ~Running(c)'
    BY <1>2, <2>1 DEF Running
  <2> QED
    BY <1>2, <2>1, <2>2, TxFrame
<1>3. ASSUME NEW c \in Commits, Return(c)
      PROVE  pc' = [pc EXCEPT ![c] = "done"] /\ \A d \in Commits : d # c => preview'[d] = preview[d]
  BY <1>0, <1>3 DEF Return
<1>4. ASSUME NEW c \in Commits, CommitChecks(c) \/ CommitTakes(c) \/ CommitValidates(c)
                                \/ Decide(c) \/ ApprovalTimesOut(c) \/ WriteMerges(c)
      PROVE  TxInv'
  <2>1. ~Running(c) /\ UNCHANGED store
    BY <1>4 DEF CommitChecks, CommitTakes, CommitValidates, Decide, ApprovalTimesOut,
       WriteMerges, Running
  <2>2. CASE Return(c)
    BY <1>2, <1>3, <2>1, <2>2
  <2>3. CASE CommitChecks(c)
    BY <1>2, <2>1, <2>3 DEF CommitChecks, Goto, approval
  <2>4. CASE CommitTakes(c)
    BY <1>2, <2>1, <2>4 DEF CommitTakes, approval
  <2>5. CASE pc' = [pc EXCEPT ![c] = "ask"] /\ preview' = [preview EXCEPT ![c] = PlanOf(c)]
    BY <1>0, <1>2, <2>1, <2>5
  <2>6. CASE pc' = [pc EXCEPT ![c] = "merge"] /\ UNCHANGED preview
    BY <1>2, <2>1, <2>6
  <2>7. CASE pc' = [pc EXCEPT ![c] = "begin"] /\ UNCHANGED preview
    BY <1>2, <2>1, <2>7
  <2> QED
    BY <1>4, <2>2, <2>3, <2>4, <2>5, <2>6, <2>7
       DEF CommitValidates, Decide, ApprovalTimesOut, WriteMerges, Goto
<1>5. ASSUME NEW c \in Commits, Begin(c) PROVE TxInv'
  <2>1. /\ pc'[c] = "folders" /\ \A d \in Commits : d # c => pc'[d] = pc[d]
        /\ holder' = c /\ c # None /\ UNCHANGED <<tx, db, preview>> /\ tx = db
    BY <1>0, <1>5, PlanAssumption DEF Begin, Goto, approval, TxInv, Commits
  <2>2. \A d \in Commits : ~Running(d)
    BY <1>5, PlanAssumption DEF Begin, TxInv, Commits
  <2>3. \A d \in Commits : Running(d)' <=> holder' = d
    BY <2>1, <2>2 DEF Running
  <2>4. Ahead(c)'
    BY <1>0, <2>1 DEF Ahead, Made, IsStore
  <2> QED
    BY <2>1, <2>3, <2>4 DEF TxInv
\* The transaction is over.
<1>6. ASSUME NEW c \in Commits, Return(c), Running(c), holder' = None, tx' = db'
      PROVE  TxInv'
  <2>1. \A d \in Commits : ~Running(d)'
    <3>1. \A d \in Commits : pc'[d] = IF d = c THEN "done" ELSE pc[d]
      BY <1>0, <1>3, <1>6
    <3>2. holder = c
      BY <1>6 DEF TxInv
    <3> QED
      BY <3>1, <3>2 DEF TxInv, Running
  <2>2. \A d \in Commits : d # None
    BY PlanAssumption DEF Commits
  <2> QED
    BY <1>6, <2>1, <2>2 DEF TxInv
<1>7. ASSUME NEW c \in Commits, TxCommits(c) \/ TxFails(c) PROVE TxInv'
  <2>1. CASE TxCommits(c)
    BY <1>6, <2>1 DEF TxCommits, Running
  <2>2. CASE TxFails(c)
    BY <1>6, <2>2 DEF TxFails, TxInv
  <2> QED
    BY <1>7, <2>1, <2>2
<1>8. ASSUME NEW d, UserWrites(d) PROVE TxInv'
  <2>1. holder = None /\ UNCHANGED <<pc, holder>> /\ tx' = db'
    BY <1>8 DEF UserWrites
  <2>2. \A c \in Commits : ~Running(c) /\ ~Running(c)' /\ c # None
    BY <2>1, PlanAssumption DEF TxInv, Commits, Running
  <2> QED
    BY <2>1, <2>2 DEF TxInv
<1>9. CASE Tools \/ UNCHANGED vars
  BY <1>1, <1>9 DEF Tools, SetManageStore, DropsPlan, ToolChecks, planAddFolder,
     planAddConnection, planAddForward, StageEntry, planSetFolderSettings, planEditConnection,
     planDiscard, Stage, approval, vars
<1>10. ASSUME NEW w \in Windows, RespondSends(w) \/ \E c \in Commits : RespondFinds(w, c)
       PROVE  TxInv'
  BY <1>1, <1>10 DEF RespondSends, RespondFinds
<1>11. CASE UserSetsDefaults \/ UserDeletesDir \/ UserDeletesHost
  BY <1>8, <1>11 DEF UserSetsDefaults, UserDeletesDir, UserDeletesHost
<1> QED
  BY <1>4, <1>5, <1>7, <1>9, <1>10, <1>11, TxGrows DEF Next, CommitStep

LEMMA StepMerge == TypeInv /\ TxInv /\ MergeInv /\ [Next]_vars => MergeInv'
<1> SUFFICES ASSUME TypeInv, TxInv, MergeInv, [Next]_vars PROVE MergeInv'
  OBVIOUS
<1> DEFINE Merged(d) == pc[d] \in {"begin", "folders"}
<1>0. /\ DOMAIN pc = Commits /\ DOMAIN detached = Commits /\ DOMAIN merged = Commits
      /\ IsStore(db) /\ IsStore(tx)
  BY DEF TypeInv
<1>1. ASSUME UNCHANGED <<pc, detached, merges, store>> PROVE MergeInv'
  BY <1>1 DEF MergeInv, Running, merges, store
\* c goes where it is not writing, and leaves the others alone.
<1>3. ASSUME NEW c \in Commits, NEW then, pc' = [pc EXCEPT ![c] = then],
             then \in {"take", "validate", "ask", "merge", "done"},
             \A d \in Commits : d # c => detached'[d] = detached[d] /\ merged'[d] = merged[d],
             UNCHANGED <<db, tx, missed>>
      PROVE  MergeInv'
  <2>1. /\ ~Merged(c)' /\ ~Running(c)'
        /\ \A d \in Commits : d # c => (Merged(d)' <=> Merged(d)) /\ (Running(d)' <=> Running(d))
    BY <1>0, <1>3 DEF Running
  <2> QED
    BY <1>3, <2>1 DEF MergeInv
<1>4. ASSUME NEW c \in Commits, Return(c)
      PROVE  /\ pc' = [pc EXCEPT ![c] = "done"]
             /\ \A d \in Commits : d # c => detached'[d] = detached[d] /\ merged'[d] = merged[d]
  BY <1>0, <1>4 DEF Return
<1>5. ASSUME NEW c \in Commits, CommitChecks(c) \/ CommitTakes(c) \/ CommitValidates(c)
                                \/ Decide(c) \/ ApprovalTimesOut(c)
      PROVE  MergeInv'
  <2>1. UNCHANGED <<db, tx, missed>>
    BY <1>5 DEF CommitChecks, CommitTakes, CommitValidates, Decide, ApprovalTimesOut,
       Goto, store, merges
  <2>2. CASE Return(c)
    BY <1>3, <1>4, <2>1, <2>2
  <2>3. CASE CommitTakes(c)
    BY <1>0, <1>3, <2>1, <2>3 DEF CommitTakes, merges
  <2>4. CASE Goto(c, "take") \/ Goto(c, "ask") \/ Goto(c, "merge")
    BY <1>3, <2>1, <2>4 DEF Goto, merges
  <2> QED
    BY <1>5, <2>2, <2>3, <2>4 DEF CommitChecks, CommitValidates, Decide, ApprovalTimesOut
<1>6. ASSUME NEW c \in Commits, WriteMerges(c) PROVE MergeInv'
  <2>1. UNCHANGED <<db, tx, missed>>
    BY <1>6 DEF WriteMerges, Goto, store, merges
  <2>2. CASE Return(c)
    BY <1>3, <1>4, <2>1, <2>2
  <2>3. CASE pc' = [pc EXCEPT ![c] = "begin"] /\ UNCHANGED detached
             /\ \/ ~detached[c].defaults /\ UNCHANGED merged
                \/ merged' = [merged EXCEPT ![c] = db.settings \cup {c}]
    <3>1. \A d \in Commits : d # c => pc'[d] = pc[d] /\ merged'[d] = merged[d]
      BY <1>0, <2>3
    <3>2. /\ detached[c].defaults => db.settings \subseteq merged'[c]
          /\ pc'[c] = "begin"
      BY <1>0, <2>3
    <3> QED
      BY <2>1, <2>3, <3>1, <3>2 DEF MergeInv, Running
  <2> QED
    BY <1>6, <2>2, <2>3 DEF WriteMerges, PlanOf, Goto, mergeFolderSettings, merges
<1>7. ASSUME NEW c \in Commits, Begin(c) \/ WriteFolders(c) \/ WriteConns(c) \/ WriteJumps(c)
                                \/ WriteEdits(c) \/ WriteIcon(c)
      PROVE  MergeInv'
  <2>1. /\ UNCHANGED <<db, detached, merged, missed>> /\ holder' = c
        /\ \A d \in Commits : d # c => pc'[d] = pc[d] /\ ~Running(d)
    BY <1>0, <1>7, PlanAssumption DEF Begin, WriteFolders, WriteConns, WriteJumps, WriteEdits,
       WriteIcon, Writes, Goto, Running, TxInv, Commits, merges
  <2>2. Merged(c)' => Merged(c)
    BY <1>0, <1>7 DEF Begin, WriteFolders, WriteConns, WriteJumps, WriteEdits, WriteIcon,
       Writes, Goto
  <2>3. db.settings \subseteq tx'.settings \cup missed[c]
    <3>1. CASE Begin(c)
      BY <3>1 DEF Begin, TxInv
    <3>2. CASE WriteFolders(c)
      <4>1. pc[c] = "folders" /\ Running(c)
        BY <3>2 DEF WriteFolders, Writes, Running
      <4>2. tx'.settings = IF detached[c].defaults THEN merged[c] ELSE tx.settings
        BY <1>0, <3>2 DEF WriteFolders, Writes, PlanOf, IsStore
      <4> QED
        BY <4>1, <4>2 DEF MergeInv
    <3>3. CASE WriteConns(c) \/ WriteJumps(c) \/ WriteEdits(c) \/ WriteIcon(c)
      <4>1. tx'.settings = tx.settings /\ Running(c)
        BY <1>0, <3>3 DEF WriteConns, WriteJumps, WriteEdits, WriteIcon, Writes, Running, IsStore
      <4> QED
        BY <4>1 DEF MergeInv
    <3> QED
      BY <1>7, <3>1, <3>2, <3>3
  <2> QED
    BY <2>1, <2>2, <2>3 DEF MergeInv, Running
\* Where the store changes nobody else has a transaction.
<1>8. ASSUME NEW s, db' = s, missed' = Misses(s.settings),
             \A d \in Commits : ~Running(d)' /\
               (pc'[d] = "begin" =>
                  pc[d] = "begin" /\ detached'[d] = detached[d] /\ merged'[d] = merged[d])
      PROVE  MergeInv'
  <2> SUFFICES ASSUME NEW d \in Commits, pc'[d] = "begin", detached'[d].defaults
               PROVE  db'.settings \subseteq merged'[d] \cup missed'[d]
    BY <1>8 DEF MergeInv, Running
  <2>1. missed'[d] = missed[d] \cup (s.settings \ db.settings)
    BY <1>8 DEF Misses
  <2> QED
    BY <1>8, <2>1 DEF MergeInv
<1>9. ASSUME NEW c \in Commits, TxCommits(c) \/ TxFails(c) PROVE MergeInv'
  <2>1. holder = c /\ Return(c) /\ \A d \in Commits : d # c => ~Running(d)
    BY <1>9 DEF TxCommits, TxFails, TxInv, Running
  <2>2. CASE TxFails(c)
    <3>1. /\ UNCHANGED <<db, missed>> /\ pc'[c] = "done"
          /\ \A d \in Commits : d # c =>
                pc'[d] = pc[d] /\ detached'[d] = detached[d] /\ merged'[d] = merged[d]
      BY <1>0, <1>4, <2>1, <2>2 DEF TxFails
    <3> QED
      BY <2>1, <3>1 DEF MergeInv, Running
  <2>3. CASE TxCommits(c)
    <3>1. db' = tx /\ missed' = Misses(tx.settings)
      BY <2>3 DEF TxCommits
    <3>2. \A d \in Commits : ~Running(d)' /\
            (pc'[d] = "begin" =>
               pc[d] = "begin" /\ detached'[d] = detached[d] /\ merged'[d] = merged[d])
      BY <1>0, <1>4, <2>1 DEF Running
    <3> QED
      BY <1>8, <3>1, <3>2
  <2> QED
    BY <1>9, <2>2, <2>3
<1>10. ASSUME NEW s, UserWrites(s) PROVE MergeInv'
  <2>1. /\ db' = s /\ missed' = Misses(s.settings) /\ holder = None
        /\ UNCHANGED <<pc, detached, merged>>
    BY <1>10 DEF UserWrites
  <2>2. \A d \in Commits : ~Running(d)'
    BY <2>1, PlanAssumption DEF Running, TxInv, Commits
  <2> QED
    BY <1>8, <2>1, <2>2
<1>11. CASE Tools \/ UNCHANGED vars
  BY <1>1, <1>11 DEF Tools, SetManageStore, DropsPlan, ToolChecks, planAddFolder,
     planAddConnection, planAddForward, StageEntry, planSetFolderSettings, planEditConnection,
     planDiscard, Stage, vars
<1>12. ASSUME NEW w \in Windows, RespondSends(w) \/ \E c \in Commits : RespondFinds(w, c)
       PROVE  MergeInv'
  BY <1>1, <1>12 DEF RespondSends, RespondFinds
<1>13. CASE UserSetsDefaults \/ UserDeletesDir \/ UserDeletesHost
  BY <1>10, <1>13 DEF UserSetsDefaults, UserDeletesDir, UserDeletesHost
<1> QED
  BY <1>5, <1>6, <1>7, <1>9, <1>11, <1>12, <1>13 DEF Next, CommitStep
-----------------------------------------------------------------------------
(* What is in the store.                                                   *)

\* A commit that is over keeps its preview and the consent to it.
LEMMA PastStays ==
    ASSUME TypeInv, TxInv, [Next]_vars
    PROVE  \A c \in Past : c \in Past' /\ preview'[c] = preview[c]
<1> DEFINE P(c) == c \in agreed' /\ pc'[c] = "done" /\ preview'[c] = preview[c]
<1> SUFFICES ASSUME NEW c \in Commits, c \in agreed, pc[c] = "done" PROVE P(c)
  BY DEF Past
<1>0. DOMAIN pc = Commits /\ DOMAIN preview = Commits
  BY DEF TypeInv
<1>1. CASE UNCHANGED <<pc, preview, agreed>>
  BY <1>1
<1>2. ASSUME NEW d \in Commits, CommitChecks(d) \/ CommitStep(d)
      PROVE  P(c)
  <2>1. d # c
    <3>1. pc[d] # "done"
      BY <1>2 DEF CommitChecks, CommitStep, CommitTakes, CommitValidates, Decide,
         ApprovalTimesOut, WriteMerges, Begin, WriteFolders, WriteConns, WriteJumps,
         WriteEdits, WriteIcon, Writes, TxCommits, TxFails, TxInv, Running
    <3> QED
      BY <3>1
  <2>2. pc'[c] = pc[c] /\ preview'[c] = preview[c]
    BY <1>0, <1>2, <2>1 DEF CommitChecks, CommitStep, CommitTakes, CommitValidates, Decide,
       ApprovalTimesOut, WriteMerges, Begin, WriteFolders, WriteConns, WriteJumps,
       WriteEdits, WriteIcon, Writes, TxCommits, TxFails, Goto, Return, approval
  <2>3. agreed' \in {agreed, agreed \ {d}}
    BY <1>2 DEF CommitChecks, CommitStep, CommitTakes, CommitValidates, Decide,
       ApprovalTimesOut, WriteMerges, Begin, WriteFolders, WriteConns, WriteJumps,
       WriteEdits, WriteIcon, Writes, TxCommits, TxFails, approval
  <2> QED
    BY <2>1, <2>2, <2>3
<1>3. ASSUME NEW w \in Windows, RespondSends(w) \/ \E d \in Commits : RespondFinds(w, d)
      PROVE  P(c)
  BY <1>3 DEF RespondSends, RespondFinds, SendOn
<1>4. CASE Tools \/ UNCHANGED vars
  BY <1>1, <1>4 DEF Tools, SetManageStore, DropsPlan, ToolChecks, planAddFolder,
     planAddConnection, planAddForward, StageEntry, planSetFolderSettings, planEditConnection,
     planDiscard, Stage, approval, vars
<1>5. CASE UserSetsDefaults \/ UserDeletesDir \/ UserDeletesHost
  BY <1>1, <1>5 DEF UserSetsDefaults, UserDeletesDir, UserDeletesHost, UserWrites, approval
<1> QED
  BY <1>2, <1>3, <1>4, <1>5 DEF Next

\* The store changes by the end of a transaction, or by the user.
LEMMA DbSteps ==
    ASSUME [Next]_vars
    PROVE  \/ UNCHANGED db
           \/ \E c \in Commits : TxCommits(c)
           \/ UserSetsDefaults \/ UserDeletesDir \/ UserDeletesHost
<1>1. ASSUME NEW c \in Commits, CommitChecks(c) \/ CommitStep(c)
      PROVE  UNCHANGED db \/ TxCommits(c)
  BY <1>1 DEF CommitChecks, CommitStep, CommitTakes, CommitValidates, Decide,
     ApprovalTimesOut, WriteMerges, Begin, WriteFolders, WriteConns, WriteJumps,
     WriteEdits, WriteIcon, Writes, TxFails, store
<1>2. ASSUME NEW w \in Windows, RespondSends(w) \/ \E c \in Commits : RespondFinds(w, c)
      PROVE  UNCHANGED db
  BY <1>2 DEF RespondSends, RespondFinds, store
<1>3. CASE Tools \/ UNCHANGED vars
  BY <1>3 DEF Tools, SetManageStore, DropsPlan, ToolChecks, planAddFolder,
     planAddConnection, planAddForward, StageEntry, planSetFolderSettings, planEditConnection,
     planDiscard, Stage, store, vars
<1> QED
  BY <1>1, <1>2, <1>3 DEF Next

LEMMA StepDb == TypeInv /\ ConsentInv /\ TxInv /\ DbInv /\ [Next]_vars => DbInv'
<1> SUFFICES ASSUME TypeInv, ConsentInv, TxInv, DbInv, [Next]_vars PROVE DbInv'
  OBVIOUS
<1>1. \A c \in Past : c \in Past' /\ preview'[c] = preview[c]
  BY PastStays
<1>2. ASSUME db'.rows = db.rows, db'.edit = db.edit PROVE DbInv'
  BY <1>1, <1>2 DEF DbInv
<1>3. CASE UserSetsDefaults \/ UserDeletesDir \/ UserDeletesHost
  <2>1. db'.rows = db.rows /\ db'.edit = db.edit
    BY <1>3 DEF UserSetsDefaults, UserDeletesDir, UserDeletesHost, UserWrites, TypeInv, IsStore
  <2> QED
    BY <1>2, <2>1
<1>4. ASSUME NEW c \in Commits, TxCommits(c) PROVE DbInv'
  <2> DEFINE D == DOMAIN preview[c].entries
  <2>1. Running(c) /\ pc[c] = "commit" /\ db' = tx
    BY <1>4 DEF TxCommits, Running
  <2>2. /\ tx.rows = [i \in DOMAIN db.rows \cup D |->
                         IF i \in D THEN preview[c].entries[i] ELSE db.rows[i]]
        /\ tx.edit.in \in {db.edit.in, preview[c].edit.in}
        /\ tx.edit.jump \in {db.edit.jump, preview[c].edit.jump}
        /\ tx.edit.icon = db.edit.icon \/ tx.edit.icon \subseteq preview[c].edit.icon
    BY <2>1 DEF TxInv, Ahead, Made, Row
  <2>3. c \in Past' /\ preview'[c] = preview[c] /\ Closed(preview[c])
    <3>1. pc'[c] = "done" /\ agreed' = agreed /\ preview'[c] = preview[c]
      BY <1>4, <2>1 DEF TxCommits, Return, TypeInv
    <3> QED
      BY <2>1, <3>1 DEF Past, ConsentInv, Consented, Writing
  <2>4. DOMAIN db'.rows = DOMAIN db.rows \cup D
    BY <2>1, <2>2
  <2>5. ASSUME NEW i \in DOMAIN db'.rows
        PROVE  /\ \E b \in Past' : /\ i \in DOMAIN preview'[b].entries
                                   /\ db'.rows[i] = preview'[b].entries[i]
                                   /\ DOMAIN preview'[b].entries \subseteq DOMAIN db'.rows
               /\ db'.rows[i].in \in DOMAIN db'.rows \cup {None, Dir, Host}
               /\ db'.rows[i].jump \in DOMAIN db'.rows \cup {None}
    <3>1. CASE i \in D
      <4>1. db'.rows[i] = preview[c].entries[i]
        BY <2>1, <2>2, <2>4, <3>1
      <4> QED
        BY <2>3, <2>4, <3>1, <4>1 DEF Closed
    <3>2. CASE i \notin D
      <4>1. db'.rows[i] = db.rows[i] /\ i \in DOMAIN db.rows
        BY <2>1, <2>2, <2>4, <3>2
      <4> QED
        BY <1>1, <2>4, <4>1 DEF DbInv
    <3> QED
      BY <3>1, <3>2
  <2>6. /\ db'.edit.in # None => \E b \in Past' : preview'[b].edit.in = db'.edit.in
        /\ db'.edit.icon # {} => \E b \in Past' : db'.edit.icon \subseteq preview'[b].edit.icon
    BY <1>1, <2>1, <2>2, <2>3 DEF DbInv
  <2>7. db'.edit.jump # None =>
          /\ db'.edit.jump \in DOMAIN db'.rows
          /\ \E b \in Past' : preview'[b].edit.jump = db'.edit.jump
    BY <1>1, <2>1, <2>2, <2>3, <2>4 DEF DbInv, Closed
  <2> QED
    BY <2>5, <2>6, <2>7 DEF DbInv
<1> QED
  BY <1>2, <1>3, <1>4, DbSteps
-----------------------------------------------------------------------------
LEMMA InitIInv == Init => IInv
<1> SUFFICES ASSUME Init PROVE IInv
  OBVIOUS
<1>1. /\ pc = [c \in Commits |-> "idle"] /\ answer = [c \in Commits |-> None]
      /\ holder = None /\ tx = db /\ IsPlan(staged) /\ next = 1
      /\ detached = [c \in Commits |-> Empty] /\ DOMAIN merged = Commits
      /\ DOMAIN preview = Commits
  BY EmptyIsPlan DEF Init
<1>2. /\ DOMAIN db = {"rows", "edit", "dir", "host", "settings"} /\ DOMAIN db.rows = {}
      /\ db.rows = [i \in {} |-> i] /\ db.edit = NoEdit
  BY DEF Init
<1>3. NoEdit \in EditType /\ NoEdit.in = None /\ NoEdit.jump = None /\ NoEdit.icon = {}
  BY DEF NoEdit, EditType
<1>4. TypeInv
  BY <1>1, <1>2, <1>3, EmptyIsPlan DEF TypeInv, IsStore
<1>5. ConsentInv /\ MergeInv
  BY <1>1 DEF ConsentInv, Consented, Writing, MergeInv, Running
<1>6. TxInv
  BY <1>1, PlanAssumption DEF TxInv, Running, Commits
<1>7. DbInv
  BY <1>2, <1>3 DEF DbInv
<1> QED
  BY <1>4, <1>5, <1>6, <1>7 DEF IInv

LEMMA Invariant == Spec => []IInv
<1>1. IInv /\ [Next]_vars => IInv'
  BY StepType, StepConsent, StepTx, StepMerge, StepDb DEF IInv
<1> QED
  BY <1>1, InitIInv, PTL DEF Spec

\* commit_plan writes what the preview showed and the user ran, all of it or
\* nothing (planCommit, WithTx), and every reference in it names a row.
THEOREM OnlyWhatWasAgreed == Spec => []WrittenAsAgreed
<1>1. DbInv => WrittenAsAgreed
  BY DEF DbInv, WrittenAsAgreed, Past
<1>2. IInv => DbInv
  BY DEF IInv
<1> QED
  BY <1>1, <1>2, Invariant, PTL

\* The settings a plan stages for an existing folder join those it has
\* (mergeFolderSettings); what is lost, the folder got after that was read.
THEOREM StaleMergesLose == Spec => OnlyStaleMergesLose
<1> DEFINE A == db.dir => \A f \in db.settings \ db'.settings :
                    \E c \in Commits : holder = c /\ f \in missed[c]
<1>1. IInv /\ [Next]_vars => [A]_vars
  <2> SUFFICES ASSUME IInv, [Next]_vars, NEW f \in db.settings, f \notin db'.settings
               PROVE  \E c \in Commits : holder = c /\ f \in missed[c]
    OBVIOUS
  <2>1. PICK c \in Commits : TxCommits(c)
    <3>1. CASE UserSetsDefaults \/ UserDeletesDir \/ UserDeletesHost
      BY <3>1 DEF UserSetsDefaults, UserDeletesDir, UserDeletesHost, UserWrites,
         IInv, TypeInv, IsStore
    <3> QED
      BY <3>1, DbSteps
  <2>2. Running(c) /\ db' = tx
    BY <2>1 DEF TxCommits, Running
  <2> QED
    BY <2>2 DEF IInv, TxInv, MergeInv
<1> QED
  BY <1>1, Invariant, PTL DEF Spec, OnlyStaleMergesLose
=============================================================================
