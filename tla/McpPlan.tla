------------------------------- MODULE McpPlan -------------------------------
(***************************************************************************)
(* The provisioning plan of the MCP bridge: tools stage folders,           *)
(* connections, forwards and edits (app_mcp_plan.go), a commit shows them  *)
(* to the user (app_mcp.go) and writes what he approved in one             *)
(* transaction (internal/store/tx.go) over the store's one connection.     *)
(*                                                                         *)
(* A staged entry is known by its temp id, and so is the row made of it.   *)
(* The store held one folder, Dir, and one connection, Host, before the    *)
(* tools came.  Commits are calls of commit_plan, numbered as they come,   *)
(* each with an approval of its own.                                       *)
(***************************************************************************)
EXTENDS Naturals, FiniteSets

CONSTANTS
    Windows,    \* windows and double clicks that answer an approval
    Dir,        \* the existing folder
    Host,       \* the existing connection
    Icons,      \* what an edit may do to an icon: "image", "named"
    MaxCalls,   \* bound: calls of the staging tools
    MaxCommits, \* bound: calls of commit_plan
    None

ASSUME PlanAssumption ==
    /\ MaxCalls \in Nat /\ MaxCommits \in Nat /\ Icons \subseteq {"image", "named"}
    /\ None \notin 1..MaxCommits /\ None # "run"

VARIABLES
    manage,     \* mcpState.manageStore
    allowed,    \* a staging tool has asked mcpManageAllowed and been let in
    dropping,   \* a revoke has yet to drop the plan
    staged,     \* mcpState.plan, Empty for nil
    next,       \* the number of the next staging call, its entry's temp id
    pc,         \* where a commit is
    detached,   \* the plan a commit took
    preview,    \* what its approval modal shows
    answer,     \* the buffer of its approval channel
    found,      \* the approval a window has looked up and not yet answered
    merged,     \* mergedFolderSettings of a commit, for Dir
    missed,     \* observer: what Dir was given since
    holder,     \* the commit whose transaction holds the store's connection
    tx,         \* the store as that transaction sees it
    db,         \* the store
    agreed      \* observer: commits whose open modal was answered with "run"

grant == <<manage, allowed, dropping>>
tools == <<grant, staged, next>>
approval == <<preview, answer, found, agreed>>
merges == <<merged, missed>>
store == <<holder, tx, db>>
vars == <<tools, pc, detached, approval, merges, store>>
-----------------------------------------------------------------------------
Commits == 1..MaxCommits
Ids == 1..MaxCalls

\* A plan has entries [kind, in, jump] by temp id, the change of Host, and
\* perhaps settings for Dir.  icon: what it sets, an uploaded image or a name or
\* colour.
NoEdit == [in |-> None, jump |-> None, icon |-> {}]
Empty == [entries |-> <<>>, edit |-> NoEdit, defaults |-> FALSE]

Put(f, k, v) == [x \in DOMAIN f \cup {k} |-> IF x = k THEN v ELSE f[x]]
Of(p, kind) == {i \in DOMAIN p.entries : p.entries[i].kind = kind}

Init ==
    /\ manage = FALSE /\ allowed = FALSE /\ dropping = FALSE
    /\ staged = Empty /\ next = 1
    /\ pc = [c \in Commits |-> "idle"]
    /\ detached = [c \in Commits |-> Empty]
    /\ preview = [c \in Commits |-> Empty]
    /\ answer = [c \in Commits |-> None]
    /\ found = [w \in Windows |-> None]
    /\ merged = [c \in Commits |-> {}]
    /\ missed = [c \in Commits |-> {}]
    /\ holder = None
    /\ db = [rows |-> <<>>, edit |-> NoEdit, dir |-> TRUE, host |-> TRUE, settings |-> {}]
    /\ tx = db
    /\ agreed = {}
-----------------------------------------------------------------------------
(* The grant and the staging tools.                                        *)

\* Bound: the tools stop once every commit has taken its plan, as what is
\* staged then is of no consequence.
ToolsMatter == \E c \in Commits : pc[c] \in {"idle", "take"}

\* McpSetManageStore: off first under mu ...
SetManageStore(on) ==
    /\ manage # on /\ ToolsMatter
    /\ on \/ ~dropping
    /\ manage' = on
    /\ dropping' = (dropping \/ ~on)
    /\ UNCHANGED <<allowed, staged, next, pc, detached, approval, merges, store>>

\* ... then, under planMu, the plan goes.
DropsPlan ==
    /\ dropping
    /\ dropping' = FALSE /\ staged' = Empty
    /\ UNCHANGED <<manage, allowed, next, pc, detached, approval, merges, store>>

\* Every tool asks mcpManageAllowed first, under mu (bound: one tool at a
\* time) ...
ToolChecks ==
    /\ manage /\ ~allowed
    /\ next <= MaxCalls /\ ToolsMatter
    /\ allowed' = TRUE
    /\ UNCHANGED <<manage, dropping, staged, next, pc, detached, approval, merges,
                   store>>

\* ... and appends under planMu, whatever became of the grant.
Stage(p) ==
    /\ allowed /\ next <= MaxCalls /\ ToolsMatter
    /\ allowed' = FALSE
    /\ staged' = p /\ next' = next + 1
    /\ UNCHANGED <<manage, dropping, pc, detached, approval, merges, store>>

\* Temp ids are the tools' answers, so a reference names an entry staged
\* before, if of a plan that is gone by now.  A new folder is compared with
\* those of the store, and a forward's saved connection is read.
StageEntry(kind) ==
    \E in \in (1..next - 1) \cup (IF kind = "forward" THEN {Host} ELSE {None, Dir}),
       jump \in IF kind = "conn" THEN (1..next - 1) \cup {None} ELSE {None} :
        /\ kind = "conn" \/ in \in Ids \/ holder = None
        /\ Stage([staged EXCEPT !.entries =
                      Put(@, next, [kind |-> kind, in |-> in, jump |-> jump])])

planAddFolder == StageEntry("folder")
planAddConnection == StageEntry("conn")
planAddForward == StageEntry("forward")

planSetFolderSettings ==
    \/ \E i \in Of(staged, "folder"), j \in 1..next - 1 :
          Stage([staged EXCEPT !.entries[i].jump = j])
    \/ holder = None /\ Stage([staged EXCEPT !.defaults = TRUE])

\* mergeConnEdit: the later edit wins on the fields it sets; image and name are
\* two fields.
mergeConnEdit(a, b) ==
    [in |-> IF b.in = None THEN a.in ELSE b.in,
     jump |-> IF b.jump = None THEN a.jump ELSE b.jump,
     icon |-> a.icon \cup b.icon]

planEditConnection ==
    /\ holder = None /\ db.host
    /\ \E e \in {[NoEdit EXCEPT !.in = r] : r \in (1..next - 1) \cup {Dir}}
                \cup {[NoEdit EXCEPT !.jump = j] : j \in 1..next - 1}
                \cup {[NoEdit EXCEPT !.icon = {i}] : i \in Icons} :
          Stage([staged EXCEPT !.edit = mergeConnEdit(@, e)])

planDiscard ==
    /\ staged # Empty /\ ToolsMatter
    /\ staged' = Empty
    /\ UNCHANGED <<grant, next, pc, detached, approval, merges, store>>
-----------------------------------------------------------------------------
(* planCommit up to the decision.                                          *)

Goto(c, l) ==
    /\ pc' = [pc EXCEPT ![c] = l]
    /\ UNCHANGED <<detached, merges>>

\* A modal that was not answered with "run" is forgotten.
Return(c) ==
    /\ pc' = [pc EXCEPT ![c] = "done"]
    /\ preview' = IF pc[c] = "ask" THEN [preview EXCEPT ![c] = Empty] ELSE preview
    /\ detached' = [detached EXCEPT ![c] = Empty]
    /\ merged' = [merged EXCEPT ![c] = {}]

\* Bound: the last commit comes after the last staging call.
CommitChecks(c) ==
    /\ pc[c] = "idle" /\ manage
    /\ \A b \in 1..c - 1 : pc[b] # "idle"
    /\ c = MaxCommits => next > MaxCalls
    /\ Goto(c, "take")
    /\ UNCHANGED <<tools, approval, store>>

CommitTakes(c) ==
    /\ pc[c] = "take"
    /\ detached' = [detached EXCEPT ![c] = staged]
    /\ staged' = Empty
    /\ pc' = [pc EXCEPT ![c] = IF staged = Empty THEN "done" ELSE "validate"]
    /\ UNCHANGED <<grant, next, approval, merges, store>>

\* The pointer stays shared: what is staged meanwhile is in it too.
Mut_SharedPlan(c) ==
    [entries |-> [i \in DOMAIN detached[c].entries \cup DOMAIN staged.entries |->
                      IF i \in DOMAIN staged.entries THEN staged.entries[i]
                      ELSE detached[c].entries[i]],
     edit |-> mergeConnEdit(detached[c].edit, staged.edit),
     defaults |-> detached[c].defaults \/ staged.defaults]

\* The plan was taken out of mcpState.plan, so nothing staged since is in it.
PlanOf(c) == detached[c]

PlaceOK(p, in) ==
    in = None \/ in \in Of(p, "folder") \/ (in = Dir /\ db.dir)

validatePlanRefs(p) ==
    /\ \A i \in DOMAIN p.entries :
          LET e == p.entries[i] IN
          IF e.kind = "forward"
          THEN e.in \in Of(p, "conn") \/ (e.in = Host /\ db.host)
          ELSE PlaceOK(p, e.in) /\ e.jump \in Of(p, "conn") \cup {None}
    /\ p.edit # NoEdit =>
          db.host /\ PlaceOK(p, p.edit.in) /\ p.edit.jump \in Of(p, "conn") \cup {None}
    /\ p.defaults => db.dir

\* With the preview built, the approval opens.
CommitValidates(c) ==
    /\ pc[c] = "validate" /\ holder = None
    /\ IF validatePlanRefs(PlanOf(c))
       THEN /\ preview' = [preview EXCEPT ![c] = PlanOf(c)]
            /\ Goto(c, "ask")
       ELSE Return(c) /\ UNCHANGED missed
    /\ UNCHANGED <<tools, answer, found, agreed, store>>

\* McpApprovalRespond: the channel is looked up under approvalsMu ...
RespondFinds(w, c) ==
    /\ found[w] = None /\ pc[c] = "ask"
    /\ found' = [found EXCEPT ![w] = c]
    /\ UNCHANGED <<tools, pc, detached, preview, answer, agreed, merges, store>>

SendOn(c) ==
    IF pc[c] = "ask" /\ answer[c] = None
    THEN \E d \in {"run", "deny"} :
            /\ answer' = [answer EXCEPT ![c] = d]
            /\ agreed' = IF d = "run" THEN agreed \cup {c} ELSE agreed
    ELSE UNCHANGED <<answer, agreed>>

Mut_SendBlocks(w) ==
    /\ found[w] # None /\ answer[found[w]] = None
    /\ SendOn(found[w])
    /\ found' = [found EXCEPT ![w] = None]
    /\ UNCHANGED <<tools, pc, detached, preview, merges, store>>

\* ... and sent to after it.  A full buffer is an error for the caller; once
\* the approval is over nobody reads what is sent.
RespondSends(w) ==
    /\ found[w] # None
    /\ SendOn(found[w])
    /\ found' = [found EXCEPT ![w] = None]
    /\ UNCHANGED <<tools, pc, detached, preview, merges, store>>

\* requestPlanApproval returns the answer, or a denial after its timeout.
Decide(c) ==
    /\ pc[c] = "ask" /\ answer[c] # None
    /\ IF answer[c] = "run" THEN Goto(c, "merge") /\ UNCHANGED preview
       ELSE Return(c) /\ UNCHANGED missed
    /\ answer' = [answer EXCEPT ![c] = None]
    /\ UNCHANGED <<tools, found, agreed, store>>

ApprovalTimesOut(c) ==
    /\ pc[c] = "ask"
    /\ Return(c) /\ UNCHANGED missed
    /\ answer' = IF \E w \in Windows : found[w] = c THEN answer
                 ELSE [answer EXCEPT ![c] = None]
    /\ agreed' = agreed \ {c}
    /\ UNCHANGED <<tools, found, store>>
-----------------------------------------------------------------------------
(* writePlan.                                                              *)

\* A field of the folder's settings is known by who gives it: the user, or the
\* plan of a commit.
UserField == 0

\* What Dir gets while a commit has merged and not begun is news to that
\* commit.
Misses(settings) ==
    [c \in Commits |-> missed[c] \cup IF pc[c] = "begin" THEN settings \ db.settings
                                    ELSE {}]

\* The staged set alone replaces the folder's settings.
Mut_Replaces(c) == {c}

\* mergeFolderSettings: the staged values over the folder's current ones.
mergeFolderSettings(c) == db.settings \cup {c}

\* Everything the transaction needs to know is read before it begins.
WriteMerges(c) ==
    /\ pc[c] = "merge"
    /\ PlanOf(c).defaults \/ PlanOf(c).edit # NoEdit => holder = None
    /\ \/ /\ ~PlanOf(c).defaults
          /\ Goto(c, "begin") /\ UNCHANGED preview
       \/ /\ PlanOf(c).defaults /\ db.dir
          /\ merged' = [merged EXCEPT ![c] = mergeFolderSettings(c)]
          /\ pc' = [pc EXCEPT ![c] = "begin"]
          /\ UNCHANGED <<detached, missed, preview>>
       \/ /\ PlanOf(c).defaults /\ ~db.dir
          /\ Return(c) /\ UNCHANGED missed
    /\ UNCHANGED <<tools, answer, found, agreed, store>>

Begin(c) ==
    /\ pc[c] = "begin" /\ holder = None
    /\ holder' = c
    /\ Goto(c, "folders")
    /\ UNCHANGED <<tools, approval, tx, db>>

\* One group of statements of the transaction: at l, with the new content t.
Writes(c, l, t, then) ==
    /\ pc[c] = l
    /\ tx' = t
    /\ Goto(c, then)
    /\ UNCHANGED <<tools, approval, holder, db>>

\* Rows for the entries of a kind.  A jump host of this plan is left out: the
\* connection need not have an id yet.
Insert(rows, kind, c) ==
    LET p == PlanOf(c) IN
    [i \in DOMAIN rows \cup Of(p, kind) |->
        IF i \in Of(p, kind) THEN [p.entries[i] EXCEPT !.jump = None] ELSE rows[i]]

\* The foreign keys of the new rows name a row.
Placed(kind, c) ==
    \A i \in Of(PlanOf(c), kind) :
        LET in == PlanOf(c).entries[i].in
        IN (in = Dir => tx.dir) /\ (in = Host => tx.host)

\* The new folders, then the settings of the existing one.
WriteFolders(c) ==
    LET d == PlanOf(c).defaults IN
    /\ Placed("folder", c) /\ (d => tx.dir)
    /\ Writes(c, "folders",
              [tx EXCEPT !.rows = Insert(tx.rows, "folder", c),
                         !.settings = IF d THEN merged[c] ELSE @], "conns")

WriteConns(c) ==
    /\ Placed("conn", c)
    /\ Writes(c, "conns", [tx EXCEPT !.rows = Insert(tx.rows, "conn", c)], "jumps")

\* Every connection has its id now: the jump hosts, then the forwards.
WriteJumps(c) ==
    LET p == PlanOf(c)
        Resolved == [i \in DOMAIN tx.rows |->
                        IF i \in DOMAIN p.entries
                        THEN [tx.rows[i] EXCEPT !.jump = p.entries[i].jump]
                        ELSE tx.rows[i]]
    IN /\ Placed("forward", c)
       /\ Writes(c, "jumps", [tx EXCEPT !.rows = Insert(Resolved, "forward", c)], "edits")

WriteEdits(c) ==
    LET e == PlanOf(c).edit IN
    /\ e # NoEdit => tx.host /\ (e.in = Dir => tx.dir)
    /\ Writes(c, "edits", [tx EXCEPT !.edit = mergeConnEdit(@, [e EXCEPT !.icon = {}])],
              "icon")

\* An image comes first.  For a name or a colour the other one is read, with
\* db.GetConnection: over the store's connection and not through the transaction.
ReadsAround(c) == PlanOf(c).edit.icon = {"named"}

WriteIcon(c) ==
    LET set == PlanOf(c).edit.icon
        icon == IF "image" \in set THEN {"image"} ELSE set
    IN
    /\ ReadsAround(c) => holder = None
    /\ Writes(c, "icon", [tx EXCEPT !.edit.icon = IF icon = {} THEN @ ELSE icon], "commit")

TxCommits(c) ==
    /\ pc[c] = "commit"
    /\ db' = tx /\ holder' = None
    /\ missed' = Misses(tx.settings)
    /\ Return(c)
    /\ UNCHANGED <<tools, answer, found, agreed, tx>>

\* A statement, or the commit, fails: the transaction is rolled back.
TxFails(c) ==
    /\ holder = c
    /\ ~(pc[c] = "icon" /\ ReadsAround(c))
    /\ tx' = db /\ holder' = None
    /\ Return(c) /\ UNCHANGED missed
    /\ UNCHANGED <<tools, answer, found, agreed, db>>
-----------------------------------------------------------------------------
(* The user's own changes in the tree; he deletes only what nothing of the *)
(* plans hangs on, as the rest would go with it.                           *)

\* Bound: he makes one change.
UserWrites(d) ==
    /\ holder = None
    /\ db.dir /\ db.host /\ UserField \notin db.settings
    /\ db' = d /\ tx' = d
    /\ missed' = Misses(d.settings)
    /\ UNCHANGED <<tools, pc, detached, approval, merged, holder>>

UserSetsDefaults == UserWrites([db EXCEPT !.settings = @ \cup {UserField}])

UserDeletesDir ==
    /\ \A i \in DOMAIN db.rows : db.rows[i].in # Dir
    /\ db.edit.in # Dir
    /\ UserWrites([db EXCEPT !.dir = FALSE])

UserDeletesHost ==
    /\ \A i \in DOMAIN db.rows : db.rows[i].in # Host
    /\ UserWrites([db EXCEPT !.host = FALSE])
-----------------------------------------------------------------------------
Tools ==
    \/ (\E on \in BOOLEAN : SetManageStore(on)) \/ DropsPlan \/ ToolChecks
    \/ planAddFolder \/ planAddConnection \/ planAddForward
    \/ planSetFolderSettings \/ planEditConnection \/ planDiscard

CommitStep(c) ==
    \/ CommitTakes(c) \/ CommitValidates(c)
    \/ Decide(c) \/ ApprovalTimesOut(c)
    \/ WriteMerges(c) \/ Begin(c)
    \/ WriteFolders(c) \/ WriteConns(c) \/ WriteJumps(c)
    \/ WriteEdits(c) \/ WriteIcon(c)
    \/ TxCommits(c) \/ TxFails(c)

Next ==
    \/ Tools
    \/ \E c \in Commits : CommitChecks(c) \/ CommitStep(c)
    \/ \E w \in Windows : RespondSends(w) \/ \E c \in Commits : RespondFinds(w, c)
    \/ UserSetsDefaults \/ UserDeletesDir \/ UserDeletesHost

Spec == Init /\ [][Next]_vars

\* Goroutines run, statements return, and the approval has a timeout; neither
\* the LLM nor the user has to do anything.
FairSpec ==
    /\ Spec
    /\ \A c \in Commits : WF_vars(CommitStep(c))
    /\ \A w \in Windows : WF_vars(RespondSends(w))
-----------------------------------------------------------------------------
(* Properties.                                                             *)

\* "anything staged during the wait would be written without having been in
\* the preview the user approved" (planCommit) and "all-or-nothing" (WithTx):
\* what plans left in the store is made of whole previews that were answered
\* with "run", and every reference in it names a row.
WrittenAsAgreed ==
    /\ \A i \in DOMAIN db.rows :
         /\ \E c \in agreed :
              /\ i \in DOMAIN preview[c].entries
              /\ db.rows[i] = preview[c].entries[i]
              /\ DOMAIN preview[c].entries \subseteq DOMAIN db.rows
         /\ db.rows[i].in \in DOMAIN db.rows \cup {None, Dir, Host}
         /\ db.rows[i].jump \in DOMAIN db.rows \cup {None}
    /\ db.edit.in # None => \E c \in agreed : preview[c].edit.in = db.edit.in
    /\ db.edit.icon # {} => \E c \in agreed : db.edit.icon \subseteq preview[c].edit.icon
    /\ db.edit.jump # None =>
         db.edit.jump \in DOMAIN db.rows /\ \E c \in agreed : preview[c].edit.jump = db.edit.jump

\* A default of the folder is lost only to a commit that merged before the
\* folder got it: a merge drops nothing it saw, and a transaction that fails
\* nothing at all.
OnlyStaleMergesLose ==
    [][db.dir => \A f \in db.settings \ db'.settings :
                    \E c \in Commits : holder = c /\ f \in missed[c]]_vars

\* Every commit_plan comes back, and so does every click in a modal: "a
\* second (double click, two windows) would block on the full buffer for
\* good" (McpApprovalRespond).
CallsReturn ==
    /\ \A c \in Commits : []<>(pc[c] \in {"idle", "done"})
    /\ \A w \in Windows : []<>(found[w] = None)
=============================================================================
