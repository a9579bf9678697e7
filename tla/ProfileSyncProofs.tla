-------------------------- MODULE ProfileSyncProofs --------------------------
(***************************************************************************)
(* Proofs about ProfileSync, for any number of machines, edits, restarts   *)
(* and failures.  They come in three layers, each with what may not        *)
(* happen: what a push leaves on the remote; whose generation is ahead of  *)
(* it; and whose profile is the one that was committed.                    *)
(***************************************************************************)
EXTENDS ProfileSync, TLAPS

\* One push of a backend at a time, one operation of a machine at a time, and
\* no change of the backend under it; a flush on quit only with the backend
\* whose counter it writes.
Orderly ==
    /\ Faults \cap {"race", "overlap", "lateSwitch"} = {}
    /\ "quit" \in Triggers => Transports = {Webdav}

\* And no operation is cut off, or fails after its snapshot is in place.
Careful == Orderly /\ Faults \cap {"crash", "lateFail"} = {}

\* And no edit meanwhile, with a single backend.
Quiet == Faults = {} /\ Transports = {Webdav}
-----------------------------------------------------------------------------
BusyPCs == PushPCs \cup PullPCs

\* A push has decided on its generation, and its snapshot is not in place.
Deciding == {"persist", "seal", "put", "move", "rename"}

IsOp(o) ==
    /\ DOMAIN o = {"pc", "tr", "force", "known", "gen", "blob", "mode", "answer"}
    /\ o.pc \in BusyPCs \cup {"idle", "check", "exit"}
    /\ o.tr \in Transports /\ o.known \in Nat /\ o.gen \in Nat
    /\ o.pc \in {"put", "move", "rename", "meta", "papply"} => o.blob \in Store

TypeInv ==
    /\ store \in [Machines -> Store] /\ staged \in [Machines -> Snapshots]
    /\ remote \in [Transports -> [meta : Nat, snap : Snapshots, tmp : Snapshots]]
    /\ DOMAIN op = Machines /\ \A m \in Machines : DOMAIN op[m] = Triggers
    /\ \A m \in Machines, g \in Triggers : IsOp(op[m][g])

\* An operation has its machine to itself, a push its backend, and nobody
\* switches it.
TurnInv ==
    /\ \A m \in Machines, g, h \in Triggers :
         op[m][g].pc \in BusyPCs /\ op[m][h].pc \in BusyPCs => g = h
    /\ \A m, n \in Machines, g, h \in Triggers :
         /\ op[m][g].pc \in PushPCs /\ op[n][h].pc \in PushPCs
         /\ op[m][g].tr = op[n][h].tr
         => m = n
    /\ \A m \in Machines, g \in Triggers :
         op[m][g].pc \in BusyPCs => op[m][g].tr = store[m].transport

\* What a push carries has its generation, which is new, and once its snapshot
\* is in place it is this one.
Carries(m, g) ==
    LET o == op[m][g] IN
    /\ o.pc \in Deciding \cup {"meta"} => o.gen > remote[o.tr].meta
    /\ o.pc = "seal" => store[m].gens[o.tr] = o.gen
    /\ o.pc \in {"put", "move", "rename", "meta"} => o.blob.gens[o.tr] = o.gen
    /\ o.pc \in {"move", "rename"} => remote[o.tr].tmp = o.blob
    /\ o.pc = "meta" => remote[o.tr].snap = o.blob

PushInv == \A m \in Machines, g \in Triggers : Carries(m, g)

RemoteInv == TypeInv /\ TurnInv /\ PushInv /\ SnapshotNotOlderThanMeta
-----------------------------------------------------------------------------
(* What a step does to the operations.                                     *)

\* Only the operation of g on m changes, to r.
Turns(m, g, r) ==
    /\ DOMAIN op' = Machines /\ \A n \in Machines : DOMAIN op'[n] = Triggers
    /\ op'[m][g] = r /\ IsOp(r)
    /\ \A n \in Machines, h \in Triggers : n # m \/ h # g => op'[n][h] = op[n][h]

\* r goes on with what o began.
GoesOn(r, o) ==
    /\ r.tr = o.tr /\ r.force = o.force /\ r.known = o.known /\ r.mode = o.mode
    /\ r.answer = o.answer

LEMMA OpSet ==
    ASSUME TypeInv, NEW m \in Machines, NEW g \in Triggers, NEW r, IsOp(r),
           op' = [op EXCEPT ![m][g] = r]
    PROVE  Turns(m, g, r)
BY DEF TypeInv, Turns

LEMMA OpGoto ==
    ASSUME TypeInv, NEW m \in Machines, NEW g \in Triggers,
           NEW pc \in BusyPCs \cup {"check", "idle"}, Goto(m, g, pc),
           pc \in {"put", "move", "rename", "meta", "papply"} => op[m][g].blob \in Store
    PROVE  \E r : Turns(m, g, r) /\ GoesOn(r, op[m][g]) /\ r.pc = pc
                  /\ r.gen = op[m][g].gen /\ r.blob = op[m][g].blob
<1> DEFINE r == [op[m][g] EXCEPT !.pc = pc]
<1>1. IsOp(op[m][g])
  BY DEF TypeInv
<1>2. /\ r.pc = pc /\ GoesOn(r, op[m][g]) /\ IsOp(r)
      /\ r.gen = op[m][g].gen /\ r.blob = op[m][g].blob
  BY <1>1 DEF IsOp, GoesOn
<1>3. op' = [op EXCEPT ![m][g] = r]
  BY DEF Goto
<1> HIDE DEF r
<1> QED
  BY <1>2, <1>3, OpSet

\* Nothing is under way any more.
Rests(o) == IsOp(o) /\ o.pc \notin BusyPCs

LEMMA IdleRests ==
    ASSUME NEW pc \in {"idle", "check", "exit"}
    PROVE  Rests([Idle EXCEPT !.pc = pc])
<1>1. /\ DOMAIN Idle = {"pc", "tr", "force", "known", "gen", "blob", "mode", "answer"}
      /\ Idle.tr = Webdav /\ Idle.known = 0 /\ Idle.gen = 0
  BY DEF Idle
<1>2. pc \notin BusyPCs
  BY DEF BusyPCs, PushPCs, PullPCs
<1> QED
  BY <1>1, <1>2, SyncAssumption DEF Rests, IsOp, BusyPCs, PushPCs, PullPCs

LEMMA OpFinish ==
    ASSUME TypeInv, NEW m \in Machines, NEW g \in Triggers,
           Finish(m, g) \/ FinishFailed(m, g)
    PROVE  \E r : Turns(m, g, r) /\ Rests(r)
<1>1. \E pc \in {"idle", "check", "exit"} : op' = [op EXCEPT ![m][g] = [Idle EXCEPT !.pc = pc]]
  BY DEF Finish, FinishFailed
<1> QED
  BY <1>1, IdleRests, OpSet DEF Rests

LEMMA OpBegins ==
    ASSUME TypeInv, NEW m \in Machines, NEW g \in Triggers, NEW f, BeginPush(m, g, f)
    PROVE  \E r : /\ Turns(m, g, r) /\ r.pc = "fetch" /\ r.tr = store[m].transport
                  /\ r.force = f /\ r.known = store[m].gens[r.tr]
<1> DEFINE r == [Idle EXCEPT !.pc = "fetch", !.tr = store[m].transport,
                             !.force = f, !.known = syncGeneration(m)]
<1>1. /\ store[m].transport \in Transports /\ syncGeneration(m) \in Nat
      /\ syncGeneration(m) = store[m].gens[store[m].transport]
  BY DEF TypeInv, Store, syncGeneration
<1>2. /\ DOMAIN Idle = {"pc", "tr", "force", "known", "gen", "blob", "mode", "answer"}
      /\ Idle.gen = 0
  BY DEF Idle
<1>3. IsOp(r) /\ r.pc = "fetch" /\ r.tr = store[m].transport /\ r.force = f
      /\ r.known = syncGeneration(m)
  BY <1>1, <1>2 DEF IsOp, BusyPCs, PushPCs
<1>4. op' = [op EXCEPT ![m][g] = r]
  BY DEF BeginPush
<1> HIDE DEF r
<1> QED
  BY <1>1, <1>3, <1>4, OpSet

LEMMA OpFetches ==
    ASSUME TypeInv, NEW m \in Machines, NEW g \in Triggers, PushFetch(m, g)
    PROVE  \E r : /\ Turns(m, g, r) /\ GoesOn(r, op[m][g]) /\ r.pc = "persist"
                  /\ r.gen = NextGeneration(remote[op[m][g].tr].meta, op[m][g].known)
<1> DEFINE o == op[m][g]
           n == NextGeneration(remote[o.tr].meta, o.known)
           r == [o EXCEPT !.pc = "persist", !.gen = n]
<1>1. IsOp(o) /\ remote[o.tr].meta \in Nat
  BY DEF TypeInv, IsOp
<1>2. n \in Nat
  BY <1>1 DEF IsOp, NextGeneration
<1>3. op' = [op EXCEPT ![m][g].pc = "persist", ![m][g].gen = n]
  BY DEF PushFetch
<1> HIDE DEF n
<1>4. IsOp(r) /\ GoesOn(r, o) /\ r.pc = "persist" /\ r.gen = n
  BY <1>1, <1>2 DEF IsOp, GoesOn, BusyPCs, PushPCs
<1>5. Turns(m, g, r)
  BY <1>3, <1>4 DEF Turns, TypeInv
<1> QED
  BY <1>4, <1>5 DEF n

LEMMA OpSeals ==
    ASSUME TypeInv, NEW m \in Machines, NEW g \in Triggers, PushSeal(m, g)
    PROVE  \E r : /\ Turns(m, g, r) /\ GoesOn(r, op[m][g]) /\ r.pc = "put"
                  /\ r.gen = op[m][g].gen /\ r.blob = store[m]
<1> DEFINE o == op[m][g]
           r == [o EXCEPT !.pc = "put", !.blob = store[m]]
<1>1. IsOp(o) /\ store[m] \in Store
  BY DEF TypeInv
<1>2. op' = [op EXCEPT ![m][g].pc = "put", ![m][g].blob = store[m]]
  BY DEF PushSeal, Sealed
<1>3. IsOp(r) /\ GoesOn(r, o) /\ r.pc = "put" /\ r.gen = o.gen /\ r.blob = store[m]
  BY <1>1 DEF IsOp, GoesOn, BusyPCs, PushPCs
<1>4. Turns(m, g, r)
  BY <1>2, <1>3 DEF Turns, TypeInv
<1> QED
  BY <1>3, <1>4

LEMMA OpCommits ==
    ASSUME TypeInv, NEW m \in Machines, NEW g \in Triggers, PushMeta(m, g)
    PROVE  \E r : Turns(m, g, r) /\ r.pc = "stamp" /\ r.tr = op[m][g].tr
<1> DEFINE r == [Idle EXCEPT !.pc = "stamp", !.tr = op[m][g].tr]
<1>1. op[m][g].tr \in Transports
  BY DEF TypeInv, IsOp
<1>2. /\ DOMAIN Idle = {"pc", "tr", "force", "known", "gen", "blob", "mode", "answer"}
      /\ Idle.known = 0 /\ Idle.gen = 0
  BY DEF Idle
<1>3. IsOp(r) /\ r.pc = "stamp" /\ r.tr = op[m][g].tr
  BY <1>1, <1>2 DEF IsOp, BusyPCs, PushPCs
<1>4. op' = [op EXCEPT ![m][g] = r]
  BY DEF PushMeta
<1> HIDE DEF r
<1> QED
  BY <1>3, <1>4, OpSet

LEMMA OpPulls ==
    ASSUME TypeInv, NEW m \in Machines, NEW g \in Triggers, NEW mode, NEW answer,
           StartPull(m, g, mode, answer)
    PROVE  \E r : /\ Turns(m, g, r) /\ r.pc = "pmeta" /\ r.tr = store[m].transport
                  /\ r.mode = mode /\ r.answer = answer
<1> DEFINE r == [Idle EXCEPT !.pc = "pmeta", !.tr = store[m].transport, !.mode = mode,
                             !.answer = answer]
<1>1. store[m].transport \in Transports
  BY DEF TypeInv, Store
<1>2. /\ DOMAIN Idle = {"pc", "tr", "force", "known", "gen", "blob", "mode", "answer"}
      /\ Idle.known = 0 /\ Idle.gen = 0
  BY DEF Idle
<1>3. IsOp(r) /\ r.pc = "pmeta" /\ r.tr = store[m].transport /\ r.mode = mode
      /\ r.answer = answer
  BY <1>1, <1>2 DEF IsOp, BusyPCs, PullPCs
<1>4. op' = [op EXCEPT ![m][g] = r]
  BY DEF StartPull
<1> HIDE DEF r
<1> QED
  BY <1>3, <1>4, OpSet

\* A pull of any kind begins.
BeginsPull(m, g) ==
    BeginQuickPull(m, g) \/ \E mode \in {"live", "staged"} : BeginPull(m, g, mode)

\* What a pull began with; only a quick one has an answer.
LEMMA PullBegins ==
    ASSUME NEW m, NEW g, BeginsPull(m, g)
    PROVE  \E mode, answer : /\ StartPull(m, g, mode, answer)
                             /\ mode = "quick" => /\ answer = offered[m]
                                                  /\ offered[m] # None
BY DEF BeginsPull, BeginQuickPull, BeginPull

\* A pull that finds nothing is over.
LEMMA OpPullMeta ==
    ASSUME TypeInv, NEW m \in Machines, NEW g \in Triggers, PullMeta(m, g)
    PROVE  \E r : /\ Turns(m, g, r)
                  /\ \/ Rests(r)
                     \/ /\ r.pc = "pget" /\ r.tr = op[m][g].tr /\ r.mode = op[m][g].mode
                        /\ r.answer = op[m][g].answer
                        /\ r.known = remote[r.tr].meta /\ r.known # 0
<1> DEFINE o == op[m][g]
           k == remote[o.tr].meta
           r == [o EXCEPT !.pc = "pget", !.known = k]
<1>1. IsOp(o) /\ k \in Nat
  BY DEF TypeInv, IsOp
<1>2. CASE k = 0
  <2>1. op' = [op EXCEPT ![m][g] = [Idle EXCEPT !.pc = "idle"]]
    BY <1>2 DEF PullMeta, Idle
  <2> QED
    BY <2>1, OpSet, IdleRests DEF Rests
<1>3. CASE k # 0
  <2>1. op' = [op EXCEPT ![m][g] = r]
    BY <1>3 DEF PullMeta
  <2>2. IsOp(r) /\ r.pc = "pget" /\ r.tr = o.tr /\ r.mode = o.mode /\ r.known = k
       /\ r.answer = o.answer
    BY <1>1 DEF IsOp, BusyPCs, PullPCs
  <2> HIDE DEF r
  <2> QED
    BY <1>3, <2>1, <2>2, OpSet
<1> QED
  BY <1>2, <1>3

LEMMA OpPullGet ==
    ASSUME TypeInv, NEW m \in Machines, NEW g \in Triggers, PullGet(m, g)
    PROVE  \E r : /\ Turns(m, g, r)
                  /\ \/ Rests(r)
                     \/ /\ r.pc = "papply" /\ GoesOn(r, op[m][g])
                        /\ r.blob = remote[r.tr].snap /\ r.blob # None
<1> DEFINE o == op[m][g]
           s == remote[o.tr].snap
           r == [o EXCEPT !.pc = "papply", !.blob = s]
<1>1. IsOp(o) /\ s \in Store \cup {None}
  BY DEF TypeInv, IsOp, Snapshots
<1>2. CASE s = None
  <2>1. op' = [op EXCEPT ![m][g] = [Idle EXCEPT !.pc = "idle"]]
    BY <1>2 DEF PullGet, Idle
  <2> QED
    BY <2>1, OpSet, IdleRests DEF Rests
<1>3. CASE s # None
  <2>1. op' = [op EXCEPT ![m][g] = r]
    BY <1>3 DEF PullGet
  <2>2. IsOp(r) /\ r.pc = "papply" /\ GoesOn(r, o) /\ r.blob = s
    BY <1>1, <1>3 DEF IsOp, BusyPCs, PullPCs, GoesOn
  <2> HIDE DEF r
  <2> QED
    BY <1>3, <2>1, <2>2, OpSet DEF GoesOn
<1> QED
  BY <1>2, <1>3

LEMMA OpApplies ==
    ASSUME TypeInv, NEW m \in Machines, NEW g \in Triggers, PullApplyLive(m, g)
    PROVE  \E r : Turns(m, g, r) /\ r.pc = "pstamp" /\ GoesOn(r, op[m][g])
<1> DEFINE o == op[m][g]
           r == [o EXCEPT !.pc = "pstamp", !.blob = None]
<1>1. IsOp(o)
  BY DEF TypeInv
<1>2. op' = [op EXCEPT ![m][g].pc = "pstamp", ![m][g].blob = None]
  BY DEF PullApplyLive
<1>3. IsOp(r) /\ GoesOn(r, o) /\ r.pc = "pstamp"
  BY <1>1 DEF IsOp, GoesOn, BusyPCs, PullPCs
<1>4. Turns(m, g, r)
  BY <1>2, <1>3 DEF Turns, TypeInv
<1> QED
  BY <1>3, <1>4

\* A process that starts has nothing under way.
LEMMA OpRestarts ==
    ASSUME TypeInv, NEW m \in Machines, Restart(m)
    PROVE  /\ DOMAIN op' = Machines /\ \A n \in Machines : DOMAIN op'[n] = Triggers
           /\ \A g \in Triggers : Rests(op'[m][g])
           /\ \A n \in Machines : n # m => op'[n] = op[n]
<1>1. \A g \in Triggers : Rests(Started[g])
  <2>1. Rests(Idle)
    <3>1. /\ DOMAIN Idle = {"pc", "tr", "force", "known", "gen", "blob", "mode", "answer"}
          /\ Idle.pc = "idle" /\ Idle.tr = Webdav /\ Idle.known = 0 /\ Idle.gen = 0
      BY DEF Idle
    <3> QED
      BY <3>1, SyncAssumption DEF Rests, IsOp, BusyPCs, PushPCs, PullPCs
  <2> QED
    BY <2>1, IdleRests DEF Started
<1> QED
  BY <1>1 DEF TypeInv, Restart, Started
-----------------------------------------------------------------------------
(* What a step does to the stores and the remotes.                         *)

\* Only the store of m changes, and not the backend it syncs with.
StoreOf(m) ==
    /\ store' \in [Machines -> Store]
    /\ \A n \in Machines : n # m => store'[n] = store[n]
    /\ store'[m].transport = store[m].transport

\* The store of m gets the generation k for the backend t.
Generation(m, t, k) ==
    /\ StoreOf(m)
    /\ store'[m].content = store[m].content
    /\ store'[m].gens[t] = k
    /\ \A u \in Transports : u # t => store'[m].gens[u] = store[m].gens[u]

LEMMA StoreStays ==
    ASSUME TypeInv, NEW m \in Machines, UNCHANGED store
    PROVE  StoreOf(m)
BY DEF TypeInv, StoreOf

LEMMA KeyIsBackend ==
    ASSUME Orderly, TypeInv, TurnInv, NEW m \in Machines, NEW g \in Triggers,
           op[m][g].pc \in BusyPCs
    PROVE  syncGenerationKey(m, g) = op[m][g].tr
<1>1. op[m][g].tr \in Transports
  BY DEF TypeInv, IsOp
<1> QED
  BY <1>1 DEF Orderly, TurnInv, syncGenerationKey

LEMMA StoreSet ==
    ASSUME Orderly, TypeInv, TurnInv, NEW m \in Machines, NEW g \in Triggers,
           op[m][g].pc \in BusyPCs, NEW k \in Nat, setSyncGeneration(m, g, k)
    PROVE  Generation(m, op[m][g].tr, k)
<1> DEFINE t == op[m][g].tr
           s == store[m]
           gs == [s.gens EXCEPT ![t] = k]
           s1 == [s EXCEPT !.gens = gs]
<1>1. t \in Transports /\ s \in Store /\ store \in [Machines -> Store]
  BY DEF TypeInv, IsOp
<1>2. store' = [store EXCEPT ![m].gens[t] = k]
  BY KeyIsBackend DEF setSyncGeneration
<1>3. gs \in [Transports -> Nat] /\ gs[t] = k
      /\ \A u \in Transports : u # t => gs[u] = s.gens[u]
  BY <1>1 DEF Store
<1>4. store' = [store EXCEPT ![m] = s1]
  BY <1>2
<1> HIDE DEF gs
<1>5. s1 \in Store /\ s1.gens = gs /\ s1.content = s.content /\ s1.transport = s.transport
  BY <1>1, <1>3 DEF Store
<1> HIDE DEF s1
<1>6. store' \in [Machines -> Store] /\ store'[m] = s1
      /\ \A n \in Machines : n # m => store'[n] = store[n]
  BY <1>1, <1>4, <1>5
<1> QED
  BY <1>3, <1>5, <1>6 DEF Generation, StoreOf

\* Only the backend t changes.
RemoteOf(t) ==
    /\ remote' \in [Transports -> [meta : Nat, snap : Snapshots, tmp : Snapshots]]
    /\ \A u \in Transports : u # t => remote'[u] = remote[u]

LEMMA RemoteStays ==
    ASSUME TypeInv, NEW t \in Transports, UNCHANGED remote
    PROVE  RemoteOf(t) /\ remote'[t] = remote[t]
BY DEF TypeInv, RemoteOf

LEMMA RemotePut ==
    ASSUME TypeInv, NEW m \in Machines, NEW g \in Triggers, PushPut(m, g)
    PROVE  LET t == op[m][g].tr IN
           /\ RemoteOf(t) /\ remote'[t].tmp = op[m][g].blob
           /\ remote'[t].snap = remote[t].snap /\ remote'[t].meta = remote[t].meta
<1>1. op[m][g].tr \in Transports /\ op[m][g].blob \in Snapshots
  BY DEF TypeInv, IsOp, PushPut, Snapshots
<1> QED
  BY <1>1 DEF TypeInv, RemoteOf, PushPut

LEMMA RemoteClears ==
    ASSUME TypeInv, NEW m \in Machines, NEW g \in Triggers, PushMoveClear(m, g)
    PROVE  LET t == op[m][g].tr IN
           /\ RemoteOf(t) /\ remote'[t].snap = None
           /\ remote'[t].tmp = remote[t].tmp /\ remote'[t].meta = remote[t].meta
<1>1. op[m][g].tr \in Transports /\ None \in Snapshots
  BY DEF TypeInv, IsOp, Snapshots
<1> QED
  BY <1>1 DEF TypeInv, RemoteOf, PushMoveClear

\* However the upload gets its final name, it is the snapshot of this push.
Lands(m, g) == PushMove(m, g) \/ PushRename(m, g) \/ PushMoveFallback(m, g)

LEMMA RemoteLands ==
    ASSUME TypeInv, PushInv, NEW m \in Machines, NEW g \in Triggers, Lands(m, g)
    PROVE  LET t == op[m][g].tr IN
           /\ op[m][g].pc \in {"move", "rename"}
           /\ RemoteOf(t) /\ remote'[t].snap = op[m][g].blob
           /\ remote'[t].meta = remote[t].meta
<1> DEFINE t == op[m][g].tr
<1>1. op[m][g].pc \in {"move", "rename"}
  BY DEF Lands, PushMove, PushRename, PushMoveFallback
<1>2. t \in Transports /\ op[m][g].blob \in Snapshots /\ None \in Snapshots
  BY <1>1 DEF TypeInv, IsOp, Snapshots
<1>3. remote[t].tmp = op[m][g].blob
  BY <1>1 DEF PushInv, Carries
<1>4. \/ remote' = [remote EXCEPT ![t].snap = remote[t].tmp, ![t].tmp = None]
      \/ remote' = [remote EXCEPT ![t].snap = op[m][g].blob]
  BY DEF Lands, PushMove, PushRename, PushMoveFallback
<1>5. remote \in [Transports -> [meta : Nat, snap : Snapshots, tmp : Snapshots]]
  BY DEF TypeInv
<1>6. CASE remote' = [remote EXCEPT ![t].snap = remote[t].tmp, ![t].tmp = None]
  BY <1>1, <1>2, <1>3, <1>5, <1>6 DEF RemoteOf
<1>7. CASE remote' = [remote EXCEPT ![t].snap = op[m][g].blob]
  BY <1>1, <1>2, <1>5, <1>7 DEF RemoteOf
<1> QED
  BY <1>4, <1>6, <1>7

LEMMA RemoteCommits ==
    ASSUME TypeInv, NEW m \in Machines, NEW g \in Triggers, CommitMeta(m, g)
    PROVE  LET t == op[m][g].tr IN
           /\ RemoteOf(t) /\ remote'[t].meta = op[m][g].gen
           /\ remote'[t].snap = remote[t].snap
<1>1. op[m][g].tr \in Transports /\ op[m][g].gen \in Nat
  BY DEF TypeInv, IsOp
<1> QED
  BY <1>1 DEF TypeInv, RemoteOf, CommitMeta
-----------------------------------------------------------------------------
(* Generations on the remote.                                              *)

\* The operation of h on n goes on where it was, or rests.
Follows(n, h) ==
    op'[n][h].pc \in BusyPCs =>
        /\ op[n][h].pc \in BusyPCs /\ op'[n][h].tr = op[n][h].tr
        /\ op'[n][h].pc \in PushPCs => op[n][h].pc \in PushPCs

LEMMA TurnFrame ==
    ASSUME TurnInv, \A n \in Machines, h \in Triggers : Follows(n, h),
           \A n \in Machines : store'[n].transport = store[n].transport
                               \/ \A h \in Triggers : op'[n][h].pc \notin BusyPCs
    PROVE  TurnInv'
<1>1. \A n \in Machines, g, h \in Triggers :
        op'[n][g].pc \in BusyPCs /\ op'[n][h].pc \in BusyPCs => g = h
  BY DEF TurnInv, Follows
<1>2. \A m, n \in Machines, g, h \in Triggers :
        /\ op'[m][g].pc \in PushPCs /\ op'[n][h].pc \in PushPCs
        /\ op'[m][g].tr = op'[n][h].tr
        => m = n
  BY DEF TurnInv, Follows, BusyPCs
<1>3. \A n \in Machines, g \in Triggers :
        op'[n][g].pc \in BusyPCs => op'[n][g].tr = store'[n].transport
  BY DEF TurnInv, Follows
<1> QED
  BY <1>1, <1>2, <1>3 DEF TurnInv

LEMMA CarriesFrame ==
    ASSUME NEW n \in Machines, NEW h \in Triggers, Carries(n, h),
           op'[n][h] = op[n][h],
           op[n][h].pc \in PushPCs => /\ remote'[op[n][h].tr] = remote[op[n][h].tr]
                                      /\ store'[n].gens = store[n].gens
    PROVE  Carries(n, h)'
BY DEF Carries, Deciding, PushPCs

LEMMA NothingCarried ==
    ASSUME NEW n \in Machines, NEW h \in Triggers, op'[n][h].pc \notin PushPCs
    PROVE  Carries(n, h)'
BY DEF Carries, Deciding, PushPCs

LEMMA OpsTyped ==
    ASSUME TypeInv, NEW m \in Machines, NEW g \in Triggers, NEW r, Turns(m, g, r)
    PROVE  /\ DOMAIN op' = Machines /\ \A n \in Machines : DOMAIN op'[n] = Triggers
           /\ \A n \in Machines, h \in Triggers : IsOp(op[n][h])'
BY DEF TypeInv, Turns, IsOp

\* A step of the operation of g on m touches no more than the store of m and
\* the backend it pushes to.
OpStep(m, g) ==
    /\ Turns(m, g, op'[m][g])
    /\ op[m][g].pc \in BusyPCs
    /\ op'[m][g].pc \in BusyPCs => op'[m][g].tr = op[m][g].tr
    /\ op'[m][g].pc \in PushPCs => op[m][g].pc \in PushPCs
    /\ StoreOf(m)
    /\ RemoteOf(op[m][g].tr)
    /\ op[m][g].pc \notin PushPCs => remote'[op[m][g].tr] = remote[op[m][g].tr]

LEMMA OthersFollow ==
    ASSUME TypeInv, NEW m \in Machines, NEW g \in Triggers, OpStep(m, g)
    PROVE  /\ \A n \in Machines, h \in Triggers : Follows(n, h)
           /\ \A n \in Machines : store'[n].transport = store[n].transport
BY DEF OpStep, Turns, StoreOf, Follows

\* What the others see of it: nothing.
LEMMA Undisturbed ==
    ASSUME TypeInv, TurnInv, NEW m \in Machines, NEW g \in Triggers,
           OpStep(m, g),
           NEW n \in Machines, NEW h \in Triggers, n # m \/ h # g
    PROVE  /\ op'[n][h] = op[n][h]
           /\ op[n][h].pc \in BusyPCs => n # m /\ store'[n] = store[n]
           /\ op[n][h].pc \in PushPCs => remote'[op[n][h].tr] = remote[op[n][h].tr]
<1>1. op'[n][h] = op[n][h]
  BY DEF OpStep, Turns
<1>2. op[n][h].pc \in BusyPCs => n # m
  BY DEF OpStep, TurnInv
<1>3. n # m => store'[n] = store[n]
  BY DEF OpStep, StoreOf
<1>4. op[n][h].pc \in PushPCs => remote'[op[n][h].tr] = remote[op[n][h].tr]
  <2> SUFFICES ASSUME op[n][h].pc \in PushPCs
               PROVE  remote'[op[n][h].tr] = remote[op[n][h].tr]
    OBVIOUS
  <2>1. op[n][h].tr \in Transports /\ n # m
    BY <1>2 DEF TypeInv, IsOp, BusyPCs
  <2>2. CASE op[m][g].pc \in PushPCs
    BY <2>1, <2>2 DEF TurnInv, OpStep, RemoteOf
  <2>3. CASE op[m][g].pc \notin PushPCs
    BY <2>1, <2>3 DEF OpStep, RemoteOf
  <2> QED
    BY <2>2, <2>3
<1> QED
  BY <1>1, <1>2, <1>3, <1>4

LEMMA RemoteStep ==
    ASSUME RemoteInv, NEW m \in Machines, NEW g \in Triggers,
           OpStep(m, g),
           staged' \in [Machines -> Snapshots],
           Carries(m, g)',
           remote'[op[m][g].tr].snap # None =>
             remote'[op[m][g].tr].snap.gens[op[m][g].tr] >= remote'[op[m][g].tr].meta
    PROVE  RemoteInv'
<1>0. TypeInv /\ TurnInv /\ PushInv
  BY DEF RemoteInv
<1>1. TypeInv'
  BY <1>0, OpsTyped DEF OpStep, StoreOf, RemoteOf, TypeInv
<1>2. TurnInv'
  BY <1>0, OthersFollow, TurnFrame
<1>3. PushInv'
  <2> SUFFICES ASSUME NEW n \in Machines, NEW h \in Triggers, n # m \/ h # g
               PROVE  Carries(n, h)'
    BY DEF PushInv
  <2>1. Carries(n, h)
    BY <1>0 DEF PushInv
  <2> QED
    BY <1>0, <2>1, Undisturbed, CarriesFrame DEF BusyPCs
<1>4. SnapshotNotOlderThanMeta'
  BY DEF SnapshotNotOlderThanMeta, RemoteInv, OpStep, RemoteOf
<1> QED
  BY <1>1, <1>2, <1>3, <1>4 DEF RemoteInv

\* Nothing changes on a remote, nor in the generations of a busy machine, and
\* what is under way goes on.
LEMMA RemoteFrame ==
    ASSUME RemoteInv, UNCHANGED remote,
           store' \in [Machines -> Store], staged' \in [Machines -> Snapshots],
           DOMAIN op' = Machines, \A n \in Machines : DOMAIN op'[n] = Triggers,
           \A n \in Machines, h \in Triggers : IsOp(op'[n][h]),
           \A n \in Machines, h \in Triggers :
             op'[n][h].pc \in BusyPCs => op'[n][h] = op[n][h],
           \A n \in Machines :
             \/ \A h \in Triggers : op'[n][h].pc \notin BusyPCs
             \/ store'[n].transport = store[n].transport /\ store'[n].gens = store[n].gens
    PROVE  RemoteInv'
<1>0. TypeInv /\ TurnInv /\ PushInv
  BY DEF RemoteInv
<1>1. TypeInv'
  BY <1>0 DEF TypeInv, IsOp
<1>2. TurnInv'
  BY <1>0, TurnFrame DEF Follows
<1>3. PushInv'
  <2> SUFFICES ASSUME NEW n \in Machines, NEW h \in Triggers
               PROVE  Carries(n, h)'
    BY DEF PushInv
  <2>1. CASE op'[n][h].pc \notin PushPCs
    BY <2>1, NothingCarried
  <2>2. CASE op'[n][h].pc \in PushPCs
    <3>1. Carries(n, h)
      BY <1>0 DEF PushInv
    <3>2. op'[n][h] = op[n][h] /\ store'[n].gens = store[n].gens
      BY <2>2 DEF BusyPCs
    <3> QED
      BY <3>1, <3>2, CarriesFrame
  <2> QED
    BY <2>1, <2>2
<1>4. SnapshotNotOlderThanMeta'
  BY DEF SnapshotNotOlderThanMeta, RemoteInv
<1> QED
  BY <1>1, <1>2, <1>3, <1>4 DEF RemoteInv
-----------------------------------------------------------------------------
(* The steps of an operation, under Orderly.                               *)

\* The operation of g on m has no further step.
Ends(m, g) == OpStep(m, g) /\ Rests(op'[m][g])

\* It goes on at pc with what it began.
Continues(m, g, pc) ==
    OpStep(m, g) /\ op'[m][g].pc = pc /\ GoesOn(op'[m][g], op[m][g])

\* and with what it carries.
Keeps(m, g) ==
    op'[m][g].gen = op[m][g].gen /\ op'[m][g].blob = op[m][g].blob

LEMMA FetchStep ==
    ASSUME Orderly, RemoteInv, NEW m \in Machines, NEW g \in Triggers, PushFetch(m, g)
    PROVE  /\ Continues(m, g, "persist") /\ UNCHANGED <<store, remote>>
           /\ op[m][g].pc = "fetch"
           /\ op'[m][g].gen = NextGeneration(remote[op[m][g].tr].meta, op[m][g].known)
<1>0. TypeInv /\ TurnInv /\ PushInv
  BY DEF RemoteInv
<1>1. op[m][g].tr \in Transports /\ op[m][g].known \in Nat /\ op[m][g].gen \in Nat
  BY <1>0 DEF TypeInv, IsOp
<1>2. op[m][g].pc = "fetch" /\ UNCHANGED <<store, remote>>
  BY DEF PushFetch
<1>3. StoreOf(m) /\ RemoteOf(op[m][g].tr)
  BY <1>0, <1>1, <1>2, StoreStays, RemoteStays
<1>4. PICK r : /\ Turns(m, g, r) /\ GoesOn(r, op[m][g]) /\ r.pc = "persist"
               /\ r.gen = NextGeneration(remote[op[m][g].tr].meta, op[m][g].known)
  BY <1>0, OpFetches
<1>5. op'[m][g] = r
  BY <1>4 DEF Turns
<1> QED
  BY <1>2, <1>3, <1>4, <1>5 DEF Continues, OpStep, BusyPCs, PushPCs, GoesOn
LEMMA PersistStep ==
    ASSUME Orderly, RemoteInv, NEW m \in Machines, NEW g \in Triggers, PushPersist(m, g)
    PROVE  /\ Continues(m, g, "seal") /\ Keeps(m, g) /\ UNCHANGED remote
           /\ op[m][g].pc = "persist"
           /\ Generation(m, op[m][g].tr, op[m][g].gen)
<1>0. TypeInv /\ TurnInv /\ PushInv
  BY DEF RemoteInv
<1>1. op[m][g].tr \in Transports /\ op[m][g].known \in Nat /\ op[m][g].gen \in Nat
  BY <1>0 DEF TypeInv, IsOp
<1>2. op[m][g].pc = "persist" /\ UNCHANGED remote
      /\ setSyncGeneration(m, g, op[m][g].gen) /\ Goto(m, g, "seal")
  BY DEF PushPersist
<1>3. Generation(m, op[m][g].tr, op[m][g].gen) /\ RemoteOf(op[m][g].tr)
  BY <1>0, <1>1, <1>2, StoreSet, RemoteStays DEF BusyPCs, PushPCs
<1>4. PICK r : Turns(m, g, r) /\ GoesOn(r, op[m][g]) /\ r.pc = "seal"
               /\ r.gen = op[m][g].gen /\ r.blob = op[m][g].blob
  BY <1>0, <1>2, OpGoto DEF BusyPCs, PushPCs
<1>5. op'[m][g] = r
  BY <1>4 DEF Turns
<1> QED
  BY <1>2, <1>3, <1>4, <1>5
  DEF Continues, Keeps, Generation, OpStep, BusyPCs, PushPCs, GoesOn
LEMMA SealStep ==
    ASSUME Orderly, RemoteInv, NEW m \in Machines, NEW g \in Triggers, PushSeal(m, g)
    PROVE  /\ Continues(m, g, "put") /\ UNCHANGED <<store, remote>>
           /\ op[m][g].pc = "seal"
           /\ op'[m][g].gen = op[m][g].gen /\ op'[m][g].blob = store[m]
<1>0. TypeInv /\ TurnInv /\ PushInv
  BY DEF RemoteInv
<1>1. op[m][g].tr \in Transports /\ op[m][g].known \in Nat /\ op[m][g].gen \in Nat
  BY <1>0 DEF TypeInv, IsOp
<1>2. op[m][g].pc = "seal" /\ UNCHANGED <<store, remote>>
  BY DEF PushSeal
<1>3. StoreOf(m) /\ RemoteOf(op[m][g].tr)
  BY <1>0, <1>1, <1>2, StoreStays, RemoteStays
<1>4. PICK r : /\ Turns(m, g, r) /\ GoesOn(r, op[m][g]) /\ r.pc = "put"
               /\ r.gen = op[m][g].gen /\ r.blob = store[m]
  BY <1>0, OpSeals
<1>5. op'[m][g] = r
  BY <1>4 DEF Turns
<1> QED
  BY <1>2, <1>3, <1>4, <1>5 DEF Continues, OpStep, BusyPCs, PushPCs, GoesOn
LEMMA PutStep ==
    ASSUME Orderly, RemoteInv, NEW m \in Machines, NEW g \in Triggers, PushPut(m, g)
    PROVE  /\ Continues(m, g, "move") /\ Keeps(m, g) /\ UNCHANGED store
           /\ op[m][g].pc = "put"
           /\ LET t == op[m][g].tr IN
              /\ remote'[t].tmp = op[m][g].blob
              /\ remote'[t].snap = remote[t].snap /\ remote'[t].meta = remote[t].meta
<1>0. TypeInv /\ TurnInv /\ PushInv
  BY DEF RemoteInv
<1>1. op[m][g].tr \in Transports /\ op[m][g].known \in Nat /\ op[m][g].gen \in Nat
  BY <1>0 DEF TypeInv, IsOp
<1>2. op[m][g].pc = "put" /\ UNCHANGED store /\ Goto(m, g, "move")
  BY DEF PushPut
<1>3. op[m][g].pc \in PushPCs /\ op[m][g].blob \in Store
  BY <1>0, <1>2 DEF TypeInv, IsOp, PushPCs
<1>4. /\ StoreOf(m) /\ RemoteOf(op[m][g].tr)
      /\ LET t == op[m][g].tr IN
         /\ remote'[t].tmp = op[m][g].blob
              /\ remote'[t].snap = remote[t].snap /\ remote'[t].meta = remote[t].meta
  BY <1>0, <1>2, StoreStays, RemotePut
<1>5. PICK r : Turns(m, g, r) /\ GoesOn(r, op[m][g]) /\ r.pc = "move"
               /\ r.gen = op[m][g].gen /\ r.blob = op[m][g].blob
  BY <1>0, <1>2, <1>3, OpGoto DEF BusyPCs, PushPCs
<1>6. op'[m][g] = r
  BY <1>5 DEF Turns
<1>7. r.pc \in BusyPCs /\ r.pc \in PushPCs /\ op[m][g].pc \in BusyPCs
  BY <1>3, <1>5 DEF BusyPCs, PushPCs
<1> QED
  BY <1>2, <1>3, <1>4, <1>5, <1>6, <1>7 DEF Continues, Keeps, OpStep, GoesOn
LEMMA ClearStep ==
    ASSUME Orderly, RemoteInv, NEW m \in Machines, NEW g \in Triggers, PushMoveClear(m, g)
    PROVE  /\ Continues(m, g, "rename") /\ Keeps(m, g) /\ UNCHANGED store
           /\ op[m][g].pc = "move"
           /\ LET t == op[m][g].tr IN
              /\ remote'[t].snap = None
              /\ remote'[t].tmp = remote[t].tmp /\ remote'[t].meta = remote[t].meta
<1>0. TypeInv /\ TurnInv /\ PushInv
  BY DEF RemoteInv
<1>1. op[m][g].tr \in Transports /\ op[m][g].known \in Nat /\ op[m][g].gen \in Nat
  BY <1>0 DEF TypeInv, IsOp
<1>2. op[m][g].pc = "move" /\ UNCHANGED store /\ Goto(m, g, "rename")
  BY DEF PushMoveClear
<1>3. op[m][g].pc \in PushPCs /\ op[m][g].blob \in Store
  BY <1>0, <1>2 DEF TypeInv, IsOp, PushPCs
<1>4. /\ StoreOf(m) /\ RemoteOf(op[m][g].tr)
      /\ LET t == op[m][g].tr IN
         /\ remote'[t].snap = None
              /\ remote'[t].tmp = remote[t].tmp /\ remote'[t].meta = remote[t].meta
  BY <1>0, <1>2, StoreStays, RemoteClears
<1>5. PICK r : Turns(m, g, r) /\ GoesOn(r, op[m][g]) /\ r.pc = "rename"
               /\ r.gen = op[m][g].gen /\ r.blob = op[m][g].blob
  BY <1>0, <1>2, <1>3, OpGoto DEF BusyPCs, PushPCs
<1>6. op'[m][g] = r
  BY <1>5 DEF Turns
<1>7. r.pc \in BusyPCs /\ r.pc \in PushPCs /\ op[m][g].pc \in BusyPCs
  BY <1>3, <1>5 DEF BusyPCs, PushPCs
<1> QED
  BY <1>2, <1>3, <1>4, <1>5, <1>6, <1>7 DEF Continues, Keeps, OpStep, GoesOn
LEMMA LandStep ==
    ASSUME Orderly, RemoteInv, NEW m \in Machines, NEW g \in Triggers, Lands(m, g)
    PROVE  /\ Continues(m, g, "meta") /\ Keeps(m, g) /\ UNCHANGED store
           /\ op[m][g].pc \in {"move", "rename"}
           /\ LET t == op[m][g].tr IN
              /\ remote'[t].snap = op[m][g].blob
              /\ remote'[t].meta = remote[t].meta
<1>0. TypeInv /\ TurnInv /\ PushInv
  BY DEF RemoteInv
<1>1. op[m][g].tr \in Transports /\ op[m][g].known \in Nat /\ op[m][g].gen \in Nat
  BY <1>0 DEF TypeInv, IsOp
<1>2. op[m][g].pc \in {"move", "rename"} /\ UNCHANGED store /\ Goto(m, g, "meta")
  BY DEF Lands, PushMove, PushRename, PushMoveFallback
<1>3. op[m][g].pc \in PushPCs /\ op[m][g].blob \in Store
  BY <1>0, <1>2 DEF TypeInv, IsOp, PushPCs
<1>4. /\ StoreOf(m) /\ RemoteOf(op[m][g].tr)
      /\ LET t == op[m][g].tr IN
         /\ remote'[t].snap = op[m][g].blob
              /\ remote'[t].meta = remote[t].meta
  BY <1>0, <1>2, StoreStays, RemoteLands
<1>5. PICK r : Turns(m, g, r) /\ GoesOn(r, op[m][g]) /\ r.pc = "meta"
               /\ r.gen = op[m][g].gen /\ r.blob = op[m][g].blob
  BY <1>0, <1>2, <1>3, OpGoto DEF BusyPCs, PushPCs
<1>6. op'[m][g] = r
  BY <1>5 DEF Turns
<1>7. r.pc \in BusyPCs /\ r.pc \in PushPCs /\ op[m][g].pc \in BusyPCs
  BY <1>3, <1>5 DEF BusyPCs, PushPCs
<1> QED
  BY <1>2, <1>3, <1>4, <1>5, <1>6, <1>7 DEF Continues, Keeps, OpStep, GoesOn
LEMMA MetaStep ==
    ASSUME Orderly, RemoteInv, NEW m \in Machines, NEW g \in Triggers, PushMeta(m, g)
    PROVE  /\ OpStep(m, g) /\ op'[m][g].pc = "stamp" /\ UNCHANGED store
           /\ op[m][g].pc = "meta" /\ op'[m][g].tr = op[m][g].tr
           /\ LET t == op[m][g].tr IN
              /\ remote'[t].meta = op[m][g].gen
              /\ remote'[t].snap = remote[t].snap
<1>0. TypeInv /\ TurnInv /\ PushInv
  BY DEF RemoteInv
<1>1. op[m][g].tr \in Transports /\ op[m][g].known \in Nat /\ op[m][g].gen \in Nat
  BY <1>0 DEF TypeInv, IsOp
<1>2. op[m][g].pc = "meta" /\ UNCHANGED store /\ CommitMeta(m, g)
  BY DEF PushMeta, CommitMeta
<1>3. /\ StoreOf(m) /\ RemoteOf(op[m][g].tr)
      /\ LET t == op[m][g].tr IN
         /\ remote'[t].meta = op[m][g].gen
         /\ remote'[t].snap = remote[t].snap
  BY <1>0, <1>2, StoreStays, RemoteCommits
<1>4. PICK r : Turns(m, g, r) /\ r.pc = "stamp" /\ r.tr = op[m][g].tr
  BY <1>0, OpCommits
<1>5. op'[m][g] = r
  BY <1>4 DEF Turns
<1> QED
  BY <1>2, <1>3, <1>4, <1>5 DEF OpStep, BusyPCs, PushPCs
LEMMA StampStep ==
    ASSUME Orderly, RemoteInv, NEW m \in Machines, NEW g \in Triggers, PushStamp(m, g)
    PROVE  Ends(m, g) /\ UNCHANGED <<store, remote>> /\ op[m][g].pc = "stamp"
<1>0. TypeInv /\ TurnInv /\ PushInv
  BY DEF RemoteInv
<1>1. op[m][g].tr \in Transports /\ op[m][g].known \in Nat /\ op[m][g].gen \in Nat
  BY <1>0 DEF TypeInv, IsOp
<1>2. op[m][g].pc = "stamp" /\ UNCHANGED <<store, remote>> /\ Finish(m, g)
  BY DEF PushStamp
<1>3. StoreOf(m) /\ RemoteOf(op[m][g].tr)
  BY <1>0, <1>1, <1>2, StoreStays, RemoteStays
<1>4. Turns(m, g, op'[m][g]) /\ Rests(op'[m][g])
  BY <1>0, <1>2, OpFinish DEF Turns
<1> QED
  BY <1>2, <1>3, <1>4 DEF Ends, OpStep, Rests, BusyPCs, PushPCs
\* A push that is refused or fails writes the old generation back.
LEMMA GivesUpStep ==
    ASSUME Orderly, RemoteInv, NEW m \in Machines, NEW g \in Triggers, 
           op[m][g].pc \in PushPCs, setSyncGeneration(m, g, op[m][g].known),
           FinishFailed(m, g), UNCHANGED remote
    PROVE  Ends(m, g) /\ Generation(m, op[m][g].tr, op[m][g].known)
<1>0. TypeInv /\ TurnInv /\ PushInv
  BY DEF RemoteInv
<1>1. op[m][g].tr \in Transports /\ op[m][g].known \in Nat /\ op[m][g].gen \in Nat
  BY <1>0 DEF TypeInv, IsOp
<1>2. Generation(m, op[m][g].tr, op[m][g].known) /\ RemoteOf(op[m][g].tr)
  BY <1>0, <1>1, StoreSet, RemoteStays DEF BusyPCs
<1>3. Turns(m, g, op'[m][g]) /\ Rests(op'[m][g])
  BY <1>0, OpFinish DEF Turns
<1> QED
  BY <1>2, <1>3 DEF Ends, OpStep, Rests, BusyPCs, Generation
LEMMA MetaLostStep ==
    ASSUME Orderly, RemoteInv, NEW m \in Machines, NEW g \in Triggers, PushMetaLost(m, g)
    PROVE  /\ Ends(m, g) /\ Generation(m, op[m][g].tr, op[m][g].known)
           /\ op[m][g].pc = "meta"
           /\ LET t == op[m][g].tr IN
              /\ remote'[t].meta = op[m][g].gen
              /\ remote'[t].snap = remote[t].snap
<1>0. TypeInv /\ TurnInv /\ PushInv
  BY DEF RemoteInv
<1>1. op[m][g].tr \in Transports /\ op[m][g].known \in Nat /\ op[m][g].gen \in Nat
  BY <1>0 DEF TypeInv, IsOp
<1>2. op[m][g].pc = "meta" /\ CommitMeta(m, g) /\ FinishFailed(m, g)
      /\ setSyncGeneration(m, g, op[m][g].known)
  BY DEF PushMetaLost, CommitMeta, Rollback
<1>3. Generation(m, op[m][g].tr, op[m][g].known)
  BY <1>0, <1>1, <1>2, StoreSet DEF BusyPCs, PushPCs
<1>4. Turns(m, g, op'[m][g]) /\ Rests(op'[m][g])
  BY <1>0, <1>2, OpFinish DEF Turns
<1>5. /\ RemoteOf(op[m][g].tr)
      /\ LET t == op[m][g].tr IN
         /\ remote'[t].meta = op[m][g].gen
         /\ remote'[t].snap = remote[t].snap
  BY <1>0, <1>2, RemoteCommits
<1> QED
  BY <1>2, <1>3, <1>4, <1>5
  DEF Ends, OpStep, Rests, Generation, BusyPCs, PushPCs
LEMMA PullMetaStep ==
    ASSUME Orderly, RemoteInv, NEW m \in Machines, NEW g \in Triggers, PullMeta(m, g)
    PROVE  /\ OpStep(m, g) /\ UNCHANGED <<store, remote>> /\ op[m][g].pc = "pmeta"
           /\ \/ Rests(op'[m][g])
              \/ /\ op'[m][g].pc = "pget" /\ op'[m][g].tr = op[m][g].tr
                 /\ op'[m][g].mode = op[m][g].mode
                 /\ op'[m][g].answer = op[m][g].answer
                 /\ op'[m][g].known = remote[op[m][g].tr].meta
                 /\ op'[m][g].known # 0
<1>0. TypeInv /\ TurnInv /\ PushInv
  BY DEF RemoteInv
<1>1. op[m][g].tr \in Transports /\ op[m][g].known \in Nat /\ op[m][g].gen \in Nat
  BY <1>0 DEF TypeInv, IsOp
<1>2. op[m][g].pc = "pmeta" /\ UNCHANGED <<store, remote>>
  BY DEF PullMeta
<1>3. StoreOf(m) /\ RemoteOf(op[m][g].tr)
  BY <1>0, <1>1, <1>2, StoreStays, RemoteStays
<1>4. PICK r : /\ Turns(m, g, r)
               /\ \/ Rests(r)
                  \/ /\ r.pc = "pget" /\ r.tr = op[m][g].tr /\ r.mode = op[m][g].mode
                     /\ r.answer = op[m][g].answer
                     /\ r.known = remote[r.tr].meta /\ r.known # 0
  BY <1>0, OpPullMeta
<1>5. op'[m][g] = r
  BY <1>4 DEF Turns
<1> QED
  BY <1>2, <1>3, <1>4, <1>5 DEF OpStep, Rests, BusyPCs, PushPCs, PullPCs
LEMMA PullGetStep ==
    ASSUME Orderly, RemoteInv, NEW m \in Machines, NEW g \in Triggers, PullGet(m, g)
    PROVE  /\ OpStep(m, g) /\ UNCHANGED <<store, remote>> /\ op[m][g].pc = "pget"
           /\ \/ Rests(op'[m][g])
              \/ /\ Continues(m, g, "papply")
                 /\ op'[m][g].blob = remote[op[m][g].tr].snap
                 /\ remote[op[m][g].tr].snap # None
<1>0. TypeInv /\ TurnInv /\ PushInv
  BY DEF RemoteInv
<1>1. op[m][g].tr \in Transports /\ op[m][g].known \in Nat /\ op[m][g].gen \in Nat
  BY <1>0 DEF TypeInv, IsOp
<1>2. op[m][g].pc = "pget" /\ UNCHANGED <<store, remote>>
  BY DEF PullGet
<1>3. StoreOf(m) /\ RemoteOf(op[m][g].tr)
  BY <1>0, <1>1, <1>2, StoreStays, RemoteStays
<1>4. PICK r : /\ Turns(m, g, r)
               /\ \/ Rests(r)
                  \/ /\ r.pc = "papply" /\ GoesOn(r, op[m][g])
                     /\ r.blob = remote[r.tr].snap /\ r.blob # None
  BY <1>0, OpPullGet
<1>5. op'[m][g] = r
  BY <1>4 DEF Turns
<1>6. OpStep(m, g)
  BY <1>2, <1>3, <1>4, <1>5 DEF OpStep, Rests, GoesOn, BusyPCs, PushPCs, PullPCs
<1> QED
  BY <1>2, <1>4, <1>5, <1>6 DEF Continues, GoesOn
\* The profile of m becomes that of the snapshot it pulled.
LEMMA Mirrored ==
    ASSUME TypeInv, NEW m \in Machines, NEW b \in Store, MirrorFrom(m, b)
    PROVE  /\ StoreOf(m) /\ store'[m].gens = store[m].gens
           /\ store'[m].content = b.content
BY DEF TypeInv, MirrorFrom, StoreOf, Store

LEMMA ApplyStep ==
    ASSUME Orderly, RemoteInv, NEW m \in Machines, NEW g \in Triggers, PullApplyLive(m, g)
    PROVE  /\ Continues(m, g, "pstamp") /\ UNCHANGED remote
           /\ op[m][g].pc = "papply" /\ op[m][g].blob \in Store
           /\ store'[m].gens = store[m].gens
           /\ store'[m].content = op[m][g].blob.content
           /\ staged' \in [Machines -> Snapshots]
           /\ \A n \in Machines :
                staged'[n] = staged[n] \/ (n = m /\ staged'[n] = op[m][g].blob)
<1>0. TypeInv /\ TurnInv /\ PushInv
  BY DEF RemoteInv
<1>1. op[m][g].tr \in Transports /\ op[m][g].known \in Nat /\ op[m][g].gen \in Nat
  BY <1>0 DEF TypeInv, IsOp
<1>2. /\ op[m][g].pc = "papply" /\ UNCHANGED remote /\ MirrorFrom(m, op[m][g].blob)
      /\ \E restartNeeded \in BOOLEAN :
           staged' = [staged EXCEPT ![m] = IF restartNeeded THEN op[m][g].blob ELSE @]
  BY DEF PullApplyLive
<1>3. op[m][g].blob \in Store
  BY <1>0, <1>2 DEF TypeInv, IsOp
<1>4. /\ StoreOf(m) /\ store'[m].gens = store[m].gens
      /\ store'[m].content = op[m][g].blob.content /\ RemoteOf(op[m][g].tr)
  BY <1>0, <1>1, <1>2, <1>3, Mirrored, RemoteStays
<1>5. PICK r : Turns(m, g, r) /\ r.pc = "pstamp" /\ GoesOn(r, op[m][g])
  BY <1>0, OpApplies
<1>6. op'[m][g] = r
  BY <1>5 DEF Turns
<1>7. /\ staged' \in [Machines -> Snapshots]
      /\ \A n \in Machines :
           staged'[n] = staged[n] \/ (n = m /\ staged'[n] = op[m][g].blob)
  <2>1. staged \in [Machines -> Snapshots] /\ op[m][g].blob \in Snapshots
    BY <1>0, <1>3 DEF TypeInv, Snapshots
  <2>2. staged' = staged \/ staged' = [staged EXCEPT ![m] = op[m][g].blob]
    BY <1>2, <2>1
  <2> QED
    BY <2>1, <2>2
<1>8. OpStep(m, g)
  BY <1>2, <1>4, <1>5, <1>6 DEF OpStep, GoesOn, BusyPCs, PushPCs, PullPCs
<1> QED
  BY <1>2, <1>3, <1>4, <1>5, <1>6, <1>7, <1>8 DEF Continues
LEMMA NotStagedStep ==
    ASSUME Orderly, RemoteInv, NEW m \in Machines, NEW g \in Triggers, PullNotStaged(m, g)
    PROVE  /\ Ends(m, g) /\ UNCHANGED remote
           /\ op[m][g].pc = "papply" /\ op[m][g].blob \in Store
           /\ store'[m].gens = store[m].gens
           /\ store'[m].content = op[m][g].blob.content
<1>0. TypeInv /\ TurnInv /\ PushInv
  BY DEF RemoteInv
<1>1. op[m][g].tr \in Transports /\ op[m][g].known \in Nat /\ op[m][g].gen \in Nat
  BY <1>0 DEF TypeInv, IsOp
<1>2. /\ op[m][g].pc = "papply" /\ UNCHANGED remote /\ MirrorFrom(m, op[m][g].blob)
      /\ Finish(m, g)
  BY DEF PullNotStaged
<1>3. op[m][g].blob \in Store
  BY <1>0, <1>2 DEF TypeInv, IsOp
<1>4. /\ StoreOf(m) /\ store'[m].gens = store[m].gens
      /\ store'[m].content = op[m][g].blob.content /\ RemoteOf(op[m][g].tr)
  BY <1>0, <1>1, <1>2, <1>3, Mirrored, RemoteStays
<1>5. Turns(m, g, op'[m][g]) /\ Rests(op'[m][g])
  BY <1>0, <1>2, OpFinish DEF Turns
<1> QED
  BY <1>2, <1>3, <1>4, <1>5 DEF Ends, OpStep, Rests, BusyPCs, PushPCs, PullPCs
LEMMA PullStampStep ==
    ASSUME Orderly, RemoteInv, NEW m \in Machines, NEW g \in Triggers, PullStamp(m, g)
    PROVE  /\ Ends(m, g) /\ UNCHANGED remote /\ op[m][g].pc = "pstamp"
           /\ Generation(m, op[m][g].tr, op[m][g].known)
<1>0. TypeInv /\ TurnInv /\ PushInv
  BY DEF RemoteInv
<1>1. op[m][g].tr \in Transports /\ op[m][g].known \in Nat /\ op[m][g].gen \in Nat
  BY <1>0 DEF TypeInv, IsOp
<1>2. op[m][g].pc = "pstamp" /\ UNCHANGED remote /\ Finish(m, g)
      /\ setSyncGeneration(m, g, op[m][g].known)
  BY DEF PullStamp
<1>3. Generation(m, op[m][g].tr, op[m][g].known) /\ RemoteOf(op[m][g].tr)
  BY <1>0, <1>1, <1>2, StoreSet, RemoteStays DEF BusyPCs, PullPCs
<1>4. Turns(m, g, op'[m][g]) /\ Rests(op'[m][g])
  BY <1>0, <1>2, OpFinish DEF Turns
<1> QED
  BY <1>2, <1>3, <1>4 DEF Ends, OpStep, Rests, Generation, BusyPCs, PushPCs, PullPCs
LEMMA QuietEnd ==
    ASSUME Orderly, RemoteInv, NEW m \in Machines, NEW g \in Triggers, 
           op[m][g].pc \in PullPCs, Finish(m, g), UNCHANGED <<store, remote>>
    PROVE  Ends(m, g)
<1>0. TypeInv /\ TurnInv /\ PushInv
  BY DEF RemoteInv
<1>1. op[m][g].tr \in Transports /\ op[m][g].known \in Nat /\ op[m][g].gen \in Nat
  BY <1>0 DEF TypeInv, IsOp
<1>2. StoreOf(m) /\ RemoteOf(op[m][g].tr)
  BY <1>0, <1>1, StoreStays, RemoteStays
<1>3. Turns(m, g, op'[m][g]) /\ Rests(op'[m][g])
  BY <1>0, OpFinish DEF Turns
<1> QED
  BY <1>2, <1>3 DEF Ends, OpStep, Rests, BusyPCs, PushPCs, PullPCs
-----------------------------------------------------------------------------
(* The steps outside an operation.                                         *)

LEMMA EditStep ==
    ASSUME TypeInv, NEW m \in Machines, NEW e \in Edits, Edit(m, e)
    PROVE  /\ StoreOf(m) /\ store'[m].gens = store[m].gens
           /\ store'[m].content = store[m].content \cup {e}
<1>1. store' = [store EXCEPT ![m].content = store[m].content \cup {e}]
  BY DEF Edit, TypeInv
<1> QED
  BY <1>1 DEF TypeInv, StoreOf, Store

LEMMA SwitchStep ==
    ASSUME Orderly, TypeInv, NEW m \in Machines, NEW t \in Transports,
           SetTransport(m, t)
    PROVE  /\ store' \in [Machines -> Store]
           /\ \A n \in Machines : n # m => store'[n] = store[n]
           /\ store'[m].gens = store[m].gens /\ store'[m].content = store[m].content
           /\ store'[m].transport = t
           /\ \A g \in Triggers : op[m][g].pc \notin BusyPCs
<1>1. ~Busy(m)
  BY DEF Orderly, SetTransport
<1> QED
  BY <1>1 DEF TypeInv, SetTransport, Store, Busy, BusyPCs

\* The loop turns without an operation.
LEMMA TickStep ==
    ASSUME TypeInv, NEW m \in Machines, Loop(m) \/ RemoteCheckFails(m)
    PROVE  /\ "auto" \in Triggers
           /\ op[m]["auto"].pc \notin BusyPCs
           /\ Turns(m, "auto", op'[m]["auto"]) /\ Rests(op'[m]["auto"])
           /\ UNCHANGED <<store, stamp, staged, remote>>
<1>1. "auto" \in Triggers /\ op[m]["auto"].pc \in {"idle", "check"}
      /\ UNCHANGED <<store, stamp, staged, remote>>
  BY DEF Loop, TickClean, TickDirty, RemoteCheck, RemoteCheckFails
<1>2. op[m]["auto"].pc \notin BusyPCs
  BY <1>1 DEF BusyPCs, PushPCs, PullPCs
<1>3. Turns(m, "auto", op'[m]["auto"]) /\ Rests(op'[m]["auto"])
  <2>1. CASE TickClean(m)
    <3>1. PICK pc \in {"idle", "check"} : Goto(m, "auto", pc)
      BY <2>1 DEF TickClean
    <3>2. \E r : Turns(m, "auto", r) /\ r.pc = pc
      BY <1>1, <3>1, OpGoto
    <3> QED
      BY <3>2 DEF Turns, Rests, BusyPCs, PushPCs, PullPCs
  <2>2. CASE TickDirty(m)
    BY <1>1, <1>2, <2>2 DEF TickDirty, Turns, Rests, TypeInv
  <2>3. CASE RemoteCheck(m) \/ RemoteCheckFails(m)
    <3>1. Finish(m, "auto")
      BY <2>3 DEF RemoteCheck, RemoteCheckFails
    <3> QED
      BY <1>1, <3>1, OpFinish DEF Turns
  <2> QED
    BY <2>1, <2>2, <2>3 DEF Loop
<1> QED
  BY <1>1, <1>2, <1>3

\* What the start of an operation changes, and who else is at work then:
\* nobody on the machine and, for a push, nobody on the remote.
Starts(m, g) ==
    /\ \A h \in Triggers : op[m][h].pc \notin BusyPCs
    /\ Turns(m, g, op'[m][g]) /\ op'[m][g].pc \in {"fetch", "pmeta"}
    /\ op'[m][g].tr = store[m].transport
    /\ op'[m][g].pc = "fetch" => op'[m][g].known = store[m].gens[op'[m][g].tr]
    /\ UNCHANGED <<store, stamp, staged, remote>>
    /\ op'[m][g].pc = "fetch" =>
         \A n \in Machines, h \in Triggers :
           op[n][h].pc \in PushPCs => op[n][h].tr # store[m].transport

\* A push or a pull begins.
Begins(m, g) == (\E f \in BOOLEAN : BeginPush(m, g, f)) \/ BeginsPull(m, g)

LEMMA BeginPushStep ==
    ASSUME Orderly, TypeInv, NEW m \in Machines, NEW g \in Triggers,
           NEW f \in BOOLEAN, BeginPush(m, g, f)
    PROVE  Starts(m, g)
<1>1. ~Busy(m) /\ UNCHANGED <<store, stamp, staged, remote>>
  BY DEF Orderly, BeginPush
<1>2. \A h \in Triggers : op[m][h].pc \notin BusyPCs
  BY <1>1 DEF Busy, BusyPCs
<1>3. PICK r : /\ Turns(m, g, r) /\ r.pc = "fetch" /\ r.tr = store[m].transport
               /\ r.force = f /\ r.known = store[m].gens[r.tr]
  BY OpBegins
<1>4. op'[m][g] = r
  BY <1>3 DEF Turns
<1>5. Pushing(store[m].transport) \ ({m} \X Triggers) = {}
  BY DEF BeginPush, Orderly
<1>6. ASSUME NEW n \in Machines, NEW h \in Triggers,
             op[n][h].pc \in PushPCs, op[n][h].tr = store[m].transport
      PROVE  FALSE
  <2>1. <<n, h>> \in Pushing(store[m].transport)
    BY <1>6 DEF Pushing
  <2>2. n = m
    BY <1>5, <2>1
  <2> QED
    BY <1>2, <1>6, <2>2 DEF BusyPCs
<1> QED
  BY <1>1, <1>2, <1>3, <1>4, <1>6 DEF Starts

LEMMA BeginPullStep ==
    ASSUME Orderly, TypeInv, NEW m \in Machines, NEW g \in Triggers,
           BeginsPull(m, g)
    PROVE  Starts(m, g)
<1>1. PICK mode, answer : StartPull(m, g, mode, answer)
  BY PullBegins
<1>2. ~Busy(m) /\ UNCHANGED <<store, stamp, staged, remote>>
  BY <1>1 DEF Orderly, StartPull
<1>3. \A h \in Triggers : op[m][h].pc \notin BusyPCs
  BY <1>2 DEF Busy, BusyPCs
<1>4. PICK r : Turns(m, g, r) /\ r.pc = "pmeta" /\ r.tr = store[m].transport
  BY <1>1, OpPulls
<1>5. op'[m][g] = r
  BY <1>4 DEF Turns
<1> QED
  BY <1>2, <1>3, <1>4, <1>5 DEF Starts

LEMMA BeginStep ==
    ASSUME Orderly, TypeInv, NEW m \in Machines, NEW g \in Triggers,
           Begins(m, g)
    PROVE  Starts(m, g)
BY BeginPushStep, BeginPullStep DEF Begins

LEMMA RestartStep ==
    ASSUME TypeInv, NEW m \in Machines, Restart(m)
    PROVE  /\ DOMAIN op' = Machines /\ \A n \in Machines : DOMAIN op'[n] = Triggers
           /\ \A g \in Triggers : Rests(op'[m][g])
           /\ \A n \in Machines : n # m => op'[n] = op[n]
           /\ \A n \in Machines : n # m => store'[n] = store[n] /\ staged'[n] = staged[n]
           /\ store' \in [Machines -> Store] /\ staged' \in [Machines -> Snapshots]
           /\ staged'[m] = None /\ UNCHANGED remote
           /\ \/ staged[m] = None /\ UNCHANGED <<store, stamp>>
              \/ /\ staged[m] \in Store /\ store'[m] = staged[m]
                 /\ stamp' = [stamp EXCEPT ![m] = ContentFingerprint(staged[m].content)]
<1>1. staged \in [Machines -> Snapshots] /\ store \in [Machines -> Store]
  BY DEF TypeInv
<1>2. UNCHANGED remote /\ staged' = [staged EXCEPT ![m] = None]
  BY DEF Restart
<1>3. CASE staged[m] = None
  BY <1>1, <1>2, <1>3, OpRestarts DEF Restart, Snapshots
<1>4. CASE staged[m] # None
  <2>1. staged[m] \in Store
    BY <1>1, <1>4 DEF Snapshots
  <2>2. store' = [store EXCEPT ![m] = staged[m]]
        /\ stamp' = [stamp EXCEPT ![m] = ContentFingerprint(staged[m].content)]
    BY <1>4 DEF Restart
  <2> QED
    BY <1>1, <1>2, <2>1, <2>2, OpRestarts DEF Snapshots
<1> QED
  BY <1>3, <1>4
-----------------------------------------------------------------------------
(* What can be read is never older than what meta.json names.              *)

LEMMA RemoteInit == Init => RemoteInv
<1> SUFFICES ASSUME Init PROVE RemoteInv
  OBVIOUS
<1>1. TypeInv
  <2>1. \A m \in Machines : store[m] \in Store
    BY SyncAssumption DEF Init, Store
  <2>2. Rests(Idle) /\ \A g \in Triggers : Rests(Started[g])
    <3>1. /\ DOMAIN Idle = {"pc", "tr", "force", "known", "gen", "blob", "mode", "answer"}
          /\ Idle.pc = "idle" /\ Idle.tr = Webdav /\ Idle.known = 0 /\ Idle.gen = 0
      BY DEF Idle
    <3>2. Rests(Idle)
      BY <3>1, SyncAssumption DEF Rests, IsOp, BusyPCs, PushPCs, PullPCs
    <3> QED
      BY <3>2, IdleRests DEF Started
  <2>3. DOMAIN op = Machines /\ (\A m \in Machines : DOMAIN op[m] = Triggers)
        /\ \A m \in Machines, g \in Triggers : IsOp(op[m][g])
    BY <2>2 DEF Init, Started, Rests
  <2> QED
    BY <2>1, <2>3 DEF Init, TypeInv, Snapshots
<1>2. \A m \in Machines, g \in Triggers : op[m][g].pc \in {"idle", "check"}
  BY DEF Init, Started, Idle
<1>3. TurnInv /\ PushInv
  BY <1>2 DEF TurnInv, PushInv, Carries, Deciding, BusyPCs, PushPCs, PullPCs
<1>4. SnapshotNotOlderThanMeta
  BY DEF Init, SnapshotNotOlderThanMeta
<1> QED
  BY <1>1, <1>3, <1>4 DEF RemoteInv

LEMMA RemoteFetch ==
    ASSUME Orderly, RemoteInv, NEW m \in Machines, NEW g \in Triggers, PushFetch(m, g)
    PROVE  RemoteInv'
<1> DEFINE o == op[m][g]
           t == op[m][g].tr
<1>0. TypeInv /\ TurnInv /\ PushInv /\ SnapshotNotOlderThanMeta
  BY DEF RemoteInv
<1>1. t \in Transports /\ o.known \in Nat /\ o.gen \in Nat /\ remote[t].meta \in Nat
  BY <1>0 DEF TypeInv, IsOp
<1>2. Carries(m, g)
  BY <1>0 DEF PushInv
<1>3. remote[t].snap # None => remote[t].snap.gens[t] >= remote[t].meta
  BY <1>0, <1>1 DEF SnapshotNotOlderThanMeta
<1>4. staged' \in [Machines -> Snapshots]
  BY <1>0 DEF PushFetch, TypeInv
<1>5. OpStep(m, g)
  BY FetchStep DEF Continues, Ends
<1>6. Carries(m, g)'
  <2>1. op'[m][g].pc = "persist" /\ op'[m][g].tr = t /\ UNCHANGED remote
        /\ op'[m][g].gen = NextGeneration(remote[t].meta, o.known)
    BY FetchStep DEF Continues, GoesOn
  <2>2. NextGeneration(remote[t].meta, o.known) > remote[t].meta
    BY <1>1 DEF NextGeneration
  <2> QED
    BY <2>1, <2>2 DEF Carries, Deciding
<1>7. remote'[t].snap # None => remote'[t].snap.gens[t] >= remote'[t].meta
  BY <1>3, FetchStep
<1> QED
  BY <1>4, <1>5, <1>6, <1>7, RemoteStep
LEMMA RemotePersist ==
    ASSUME Orderly, RemoteInv, NEW m \in Machines, NEW g \in Triggers, PushPersist(m, g)
    PROVE  RemoteInv'
<1> DEFINE o == op[m][g]
           t == op[m][g].tr
<1>0. TypeInv /\ TurnInv /\ PushInv /\ SnapshotNotOlderThanMeta
  BY DEF RemoteInv
<1>1. t \in Transports /\ o.known \in Nat /\ o.gen \in Nat /\ remote[t].meta \in Nat
  BY <1>0 DEF TypeInv, IsOp
<1>2. Carries(m, g)
  BY <1>0 DEF PushInv
<1>3. remote[t].snap # None => remote[t].snap.gens[t] >= remote[t].meta
  BY <1>0, <1>1 DEF SnapshotNotOlderThanMeta
<1>4. staged' \in [Machines -> Snapshots]
  BY <1>0 DEF PushPersist, TypeInv
<1>5. OpStep(m, g)
  BY PersistStep DEF Continues, Ends
<1>6. Carries(m, g)'
  BY <1>2, PersistStep DEF Carries, Deciding, Continues, GoesOn, Keeps, Generation
<1>7. remote'[t].snap # None => remote'[t].snap.gens[t] >= remote'[t].meta
  BY <1>3, PersistStep
<1> QED
  BY <1>4, <1>5, <1>6, <1>7, RemoteStep
LEMMA RemoteSeal ==
    ASSUME Orderly, RemoteInv, NEW m \in Machines, NEW g \in Triggers, PushSeal(m, g)
    PROVE  RemoteInv'
<1> DEFINE o == op[m][g]
           t == op[m][g].tr
<1>0. TypeInv /\ TurnInv /\ PushInv /\ SnapshotNotOlderThanMeta
  BY DEF RemoteInv
<1>1. t \in Transports /\ o.known \in Nat /\ o.gen \in Nat /\ remote[t].meta \in Nat
  BY <1>0 DEF TypeInv, IsOp
<1>2. Carries(m, g)
  BY <1>0 DEF PushInv
<1>3. remote[t].snap # None => remote[t].snap.gens[t] >= remote[t].meta
  BY <1>0, <1>1 DEF SnapshotNotOlderThanMeta
<1>4. staged' \in [Machines -> Snapshots]
  BY <1>0 DEF PushSeal, TypeInv
<1>5. OpStep(m, g)
  BY SealStep DEF Continues, Ends
<1>6. Carries(m, g)'
  BY <1>2, SealStep DEF Carries, Deciding, Continues, GoesOn
<1>7. remote'[t].snap # None => remote'[t].snap.gens[t] >= remote'[t].meta
  BY <1>3, SealStep
<1> QED
  BY <1>4, <1>5, <1>6, <1>7, RemoteStep
LEMMA RemotePutStep ==
    ASSUME Orderly, RemoteInv, NEW m \in Machines, NEW g \in Triggers, PushPut(m, g)
    PROVE  RemoteInv'
<1> DEFINE o == op[m][g]
           t == op[m][g].tr
<1>0. TypeInv /\ TurnInv /\ PushInv /\ SnapshotNotOlderThanMeta
  BY DEF RemoteInv
<1>1. t \in Transports /\ o.known \in Nat /\ o.gen \in Nat /\ remote[t].meta \in Nat
  BY <1>0 DEF TypeInv, IsOp
<1>2. Carries(m, g)
  BY <1>0 DEF PushInv
<1>3. remote[t].snap # None => remote[t].snap.gens[t] >= remote[t].meta
  BY <1>0, <1>1 DEF SnapshotNotOlderThanMeta
<1>4. staged' \in [Machines -> Snapshots]
  BY <1>0 DEF PushPut, TypeInv
<1>5. OpStep(m, g)
  BY PutStep DEF Continues, Ends
<1>6. Carries(m, g)'
  BY <1>2, PutStep DEF Carries, Deciding, Continues, GoesOn, Keeps
<1>7. remote'[t].snap # None => remote'[t].snap.gens[t] >= remote'[t].meta
  BY <1>3, PutStep
<1> QED
  BY <1>4, <1>5, <1>6, <1>7, RemoteStep
LEMMA RemoteClear ==
    ASSUME Orderly, RemoteInv, NEW m \in Machines, NEW g \in Triggers, PushMoveClear(m, g)
    PROVE  RemoteInv'
<1> DEFINE o == op[m][g]
           t == op[m][g].tr
<1>0. TypeInv /\ TurnInv /\ PushInv /\ SnapshotNotOlderThanMeta
  BY DEF RemoteInv
<1>1. t \in Transports /\ o.known \in Nat /\ o.gen \in Nat /\ remote[t].meta \in Nat
  BY <1>0 DEF TypeInv, IsOp
<1>2. Carries(m, g)
  BY <1>0 DEF PushInv
<1>3. remote[t].snap # None => remote[t].snap.gens[t] >= remote[t].meta
  BY <1>0, <1>1 DEF SnapshotNotOlderThanMeta
<1>4. staged' \in [Machines -> Snapshots]
  BY <1>0 DEF PushMoveClear, TypeInv
<1>5. OpStep(m, g)
  BY ClearStep DEF Continues, Ends
<1>6. Carries(m, g)'
  BY <1>2, ClearStep DEF Carries, Deciding, Continues, GoesOn, Keeps
<1>7. remote'[t].snap # None => remote'[t].snap.gens[t] >= remote'[t].meta
  BY <1>3, ClearStep
<1> QED
  BY <1>4, <1>5, <1>6, <1>7, RemoteStep
LEMMA RemoteLand ==
    ASSUME Orderly, RemoteInv, NEW m \in Machines, NEW g \in Triggers, Lands(m, g)
    PROVE  RemoteInv'
<1> DEFINE o == op[m][g]
           t == op[m][g].tr
<1>0. TypeInv /\ TurnInv /\ PushInv /\ SnapshotNotOlderThanMeta
  BY DEF RemoteInv
<1>1. t \in Transports /\ o.known \in Nat /\ o.gen \in Nat /\ remote[t].meta \in Nat
  BY <1>0 DEF TypeInv, IsOp
<1>2. Carries(m, g)
  BY <1>0 DEF PushInv
<1>3. remote[t].snap # None => remote[t].snap.gens[t] >= remote[t].meta
  BY <1>0, <1>1 DEF SnapshotNotOlderThanMeta
<1>4. staged' \in [Machines -> Snapshots]
  BY <1>0 DEF Lands, PushMove, PushRename, PushMoveFallback, TypeInv
<1>5. OpStep(m, g)
  BY LandStep DEF Continues, Ends
<1>6. Carries(m, g)'
  BY <1>2, LandStep DEF Carries, Deciding, Continues, GoesOn, Keeps
<1>7. remote'[t].snap # None => remote'[t].snap.gens[t] >= remote'[t].meta
  BY <1>1, <1>2, LandStep DEF Carries, Deciding
<1> QED
  BY <1>4, <1>5, <1>6, <1>7, RemoteStep
LEMMA RemoteMeta ==
    ASSUME Orderly, RemoteInv, NEW m \in Machines, NEW g \in Triggers, PushMeta(m, g)
    PROVE  RemoteInv'
<1> DEFINE o == op[m][g]
           t == op[m][g].tr
<1>0. TypeInv /\ TurnInv /\ PushInv /\ SnapshotNotOlderThanMeta
  BY DEF RemoteInv
<1>1. t \in Transports /\ o.known \in Nat /\ o.gen \in Nat /\ remote[t].meta \in Nat
  BY <1>0 DEF TypeInv, IsOp
<1>2. Carries(m, g)
  BY <1>0 DEF PushInv
<1>3. remote[t].snap # None => remote[t].snap.gens[t] >= remote[t].meta
  BY <1>0, <1>1 DEF SnapshotNotOlderThanMeta
<1>4. staged' \in [Machines -> Snapshots]
  BY <1>0 DEF PushMeta, TypeInv
<1>5. OpStep(m, g)
  BY MetaStep DEF Continues, Ends
<1>6. Carries(m, g)'
  BY MetaStep DEF Carries, Deciding
<1>7. remote'[t].snap # None => remote'[t].snap.gens[t] >= remote'[t].meta
  BY <1>1, <1>2, MetaStep DEF Carries, Deciding
<1> QED
  BY <1>4, <1>5, <1>6, <1>7, RemoteStep
LEMMA RemoteStamp ==
    ASSUME Orderly, RemoteInv, NEW m \in Machines, NEW g \in Triggers, PushStamp(m, g)
    PROVE  RemoteInv'
<1> DEFINE o == op[m][g]
           t == op[m][g].tr
<1>0. TypeInv /\ TurnInv /\ PushInv /\ SnapshotNotOlderThanMeta
  BY DEF RemoteInv
<1>1. t \in Transports /\ o.known \in Nat /\ o.gen \in Nat /\ remote[t].meta \in Nat
  BY <1>0 DEF TypeInv, IsOp
<1>2. Carries(m, g)
  BY <1>0 DEF PushInv
<1>3. remote[t].snap # None => remote[t].snap.gens[t] >= remote[t].meta
  BY <1>0, <1>1 DEF SnapshotNotOlderThanMeta
<1>4. staged' \in [Machines -> Snapshots]
  BY <1>0 DEF PushStamp, TypeInv
<1>5. OpStep(m, g)
  BY StampStep DEF Continues, Ends
<1>6. Carries(m, g)'
  BY StampStep, NothingCarried DEF Ends, Rests, BusyPCs
<1>7. remote'[t].snap # None => remote'[t].snap.gens[t] >= remote'[t].meta
  BY <1>3, StampStep
<1> QED
  BY <1>4, <1>5, <1>6, <1>7, RemoteStep
LEMMA RemoteMetaLost ==
    ASSUME Orderly, RemoteInv, NEW m \in Machines, NEW g \in Triggers, PushMetaLost(m, g)
    PROVE  RemoteInv'
<1> DEFINE o == op[m][g]
           t == op[m][g].tr
<1>0. TypeInv /\ TurnInv /\ PushInv /\ SnapshotNotOlderThanMeta
  BY DEF RemoteInv
<1>1. t \in Transports /\ o.known \in Nat /\ o.gen \in Nat /\ remote[t].meta \in Nat
  BY <1>0 DEF TypeInv, IsOp
<1>2. Carries(m, g)
  BY <1>0 DEF PushInv
<1>3. remote[t].snap # None => remote[t].snap.gens[t] >= remote[t].meta
  BY <1>0, <1>1 DEF SnapshotNotOlderThanMeta
<1>4. staged' \in [Machines -> Snapshots]
  BY <1>0 DEF PushMetaLost, TypeInv
<1>5. OpStep(m, g)
  BY MetaLostStep DEF Continues, Ends
<1>6. Carries(m, g)'
  BY MetaLostStep, NothingCarried DEF Ends, Rests, BusyPCs
<1>7. remote'[t].snap # None => remote'[t].snap.gens[t] >= remote'[t].meta
  BY <1>1, <1>2, MetaLostStep DEF Carries, Deciding
<1> QED
  BY <1>4, <1>5, <1>6, <1>7, RemoteStep
\* The ways a push gives up before its commit.
GivesUp(m, g) == PushRefused(m, g) \/ PushFail(m, g) \/ PushFailLate(m, g)

LEMMA GivingUp ==
    ASSUME NEW m \in Machines, NEW g \in Triggers, GivesUp(m, g)
    PROVE  /\ op[m][g].pc \in {"fetch", "persist", "seal", "put", "move", "rename", "meta"}
           /\ setSyncGeneration(m, g, op[m][g].known) /\ FinishFailed(m, g)
           /\ UNCHANGED <<remote, staged, stamp>>
           /\ op[m][g].pc \in {"rename", "meta"} => "lateFail" \in Faults
BY DEF GivesUp, PushRefused, PushFail, PushFailLate, Rollback

LEMMA RemoteGivesUp ==
    ASSUME Orderly, RemoteInv, NEW m \in Machines, NEW g \in Triggers, GivesUp(m, g)
    PROVE  RemoteInv'
<1> DEFINE o == op[m][g]
           t == op[m][g].tr
<1>0. TypeInv /\ TurnInv /\ PushInv /\ SnapshotNotOlderThanMeta
  BY DEF RemoteInv
<1>1. t \in Transports /\ o.known \in Nat /\ o.gen \in Nat /\ remote[t].meta \in Nat
  BY <1>0 DEF TypeInv, IsOp
<1>2. Carries(m, g)
  BY <1>0 DEF PushInv
<1>3. remote[t].snap # None => remote[t].snap.gens[t] >= remote[t].meta
  BY <1>0, <1>1 DEF SnapshotNotOlderThanMeta
<1>4. staged' \in [Machines -> Snapshots] /\ UNCHANGED remote
  BY <1>0, GivingUp DEF TypeInv
<1>5. Ends(m, g)
  BY GivingUp, GivesUpStep DEF PushPCs
<1>6. Carries(m, g)'
  BY <1>5, NothingCarried DEF Ends, Rests, BusyPCs
<1> QED
  BY <1>3, <1>4, <1>5, <1>6, RemoteStep DEF Ends
LEMMA RemotePullMeta ==
    ASSUME Orderly, RemoteInv, NEW m \in Machines, NEW g \in Triggers, PullMeta(m, g)
    PROVE  RemoteInv'
<1> DEFINE o == op[m][g]
           t == op[m][g].tr
<1>0. TypeInv /\ TurnInv /\ PushInv /\ SnapshotNotOlderThanMeta
  BY DEF RemoteInv
<1>1. t \in Transports /\ o.known \in Nat /\ o.gen \in Nat /\ remote[t].meta \in Nat
  BY <1>0 DEF TypeInv, IsOp
<1>2. Carries(m, g)
  BY <1>0 DEF PushInv
<1>3. remote[t].snap # None => remote[t].snap.gens[t] >= remote[t].meta
  BY <1>0, <1>1 DEF SnapshotNotOlderThanMeta
<1>4. staged' \in [Machines -> Snapshots]
  BY <1>0 DEF PullMeta, TypeInv
<1>5. OpStep(m, g)
  BY PullMetaStep DEF Continues, Ends
<1>6. Carries(m, g)'
  BY PullMetaStep, NothingCarried DEF Continues, Rests, BusyPCs, PushPCs
<1>7. remote'[t].snap # None => remote'[t].snap.gens[t] >= remote'[t].meta
  BY <1>3, PullMetaStep
<1> QED
  BY <1>4, <1>5, <1>6, <1>7, RemoteStep
LEMMA RemotePullGet ==
    ASSUME Orderly, RemoteInv, NEW m \in Machines, NEW g \in Triggers, PullGet(m, g)
    PROVE  RemoteInv'
<1> DEFINE o == op[m][g]
           t == op[m][g].tr
<1>0. TypeInv /\ TurnInv /\ PushInv /\ SnapshotNotOlderThanMeta
  BY DEF RemoteInv
<1>1. t \in Transports /\ o.known \in Nat /\ o.gen \in Nat /\ remote[t].meta \in Nat
  BY <1>0 DEF TypeInv, IsOp
<1>2. Carries(m, g)
  BY <1>0 DEF PushInv
<1>3. remote[t].snap # None => remote[t].snap.gens[t] >= remote[t].meta
  BY <1>0, <1>1 DEF SnapshotNotOlderThanMeta
<1>4. staged' \in [Machines -> Snapshots]
  BY <1>0 DEF PullGet, TypeInv
<1>5. OpStep(m, g)
  BY PullGetStep DEF Continues, Ends
<1>6. Carries(m, g)'
  BY PullGetStep, NothingCarried DEF Continues, Rests, BusyPCs, PushPCs
<1>7. remote'[t].snap # None => remote'[t].snap.gens[t] >= remote'[t].meta
  BY <1>3, PullGetStep
<1> QED
  BY <1>4, <1>5, <1>6, <1>7, RemoteStep
LEMMA RemoteApply ==
    ASSUME Orderly, RemoteInv, NEW m \in Machines, NEW g \in Triggers, PullApplyLive(m, g)
    PROVE  RemoteInv'
<1> DEFINE o == op[m][g]
           t == op[m][g].tr
<1>0. TypeInv /\ TurnInv /\ PushInv /\ SnapshotNotOlderThanMeta
  BY DEF RemoteInv
<1>1. t \in Transports /\ o.known \in Nat /\ o.gen \in Nat /\ remote[t].meta \in Nat
  BY <1>0 DEF TypeInv, IsOp
<1>2. Carries(m, g)
  BY <1>0 DEF PushInv
<1>3. remote[t].snap # None => remote[t].snap.gens[t] >= remote[t].meta
  BY <1>0, <1>1 DEF SnapshotNotOlderThanMeta
<1>4. staged' \in [Machines -> Snapshots]
  BY ApplyStep
<1>5. OpStep(m, g)
  BY ApplyStep DEF Continues, Ends
<1>6. Carries(m, g)'
  BY ApplyStep, NothingCarried DEF Continues, Rests, BusyPCs, PushPCs
<1>7. remote'[t].snap # None => remote'[t].snap.gens[t] >= remote'[t].meta
  BY <1>3, ApplyStep
<1> QED
  BY <1>4, <1>5, <1>6, <1>7, RemoteStep
LEMMA RemoteNotStaged ==
    ASSUME Orderly, RemoteInv, NEW m \in Machines, NEW g \in Triggers, PullNotStaged(m, g)
    PROVE  RemoteInv'
<1> DEFINE o == op[m][g]
           t == op[m][g].tr
<1>0. TypeInv /\ TurnInv /\ PushInv /\ SnapshotNotOlderThanMeta
  BY DEF RemoteInv
<1>1. t \in Transports /\ o.known \in Nat /\ o.gen \in Nat /\ remote[t].meta \in Nat
  BY <1>0 DEF TypeInv, IsOp
<1>2. Carries(m, g)
  BY <1>0 DEF PushInv
<1>3. remote[t].snap # None => remote[t].snap.gens[t] >= remote[t].meta
  BY <1>0, <1>1 DEF SnapshotNotOlderThanMeta
<1>4. staged' \in [Machines -> Snapshots]
  BY <1>0 DEF PullNotStaged, TypeInv
<1>5. OpStep(m, g)
  BY NotStagedStep DEF Continues, Ends
<1>6. Carries(m, g)'
  BY NotStagedStep, NothingCarried DEF Ends, Rests, BusyPCs
<1>7. remote'[t].snap # None => remote'[t].snap.gens[t] >= remote'[t].meta
  BY <1>3, NotStagedStep
<1> QED
  BY <1>4, <1>5, <1>6, <1>7, RemoteStep
LEMMA RemotePullStamp ==
    ASSUME Orderly, RemoteInv, NEW m \in Machines, NEW g \in Triggers, PullStamp(m, g)
    PROVE  RemoteInv'
<1> DEFINE o == op[m][g]
           t == op[m][g].tr
<1>0. TypeInv /\ TurnInv /\ PushInv /\ SnapshotNotOlderThanMeta
  BY DEF RemoteInv
<1>1. t \in Transports /\ o.known \in Nat /\ o.gen \in Nat /\ remote[t].meta \in Nat
  BY <1>0 DEF TypeInv, IsOp
<1>2. Carries(m, g)
  BY <1>0 DEF PushInv
<1>3. remote[t].snap # None => remote[t].snap.gens[t] >= remote[t].meta
  BY <1>0, <1>1 DEF SnapshotNotOlderThanMeta
<1>4. staged' \in [Machines -> Snapshots]
  BY <1>0 DEF PullStamp, TypeInv
<1>5. OpStep(m, g)
  BY PullStampStep DEF Continues, Ends
<1>6. Carries(m, g)'
  BY PullStampStep, NothingCarried DEF Ends, Rests, BusyPCs
<1>7. remote'[t].snap # None => remote'[t].snap.gens[t] >= remote'[t].meta
  BY <1>3, PullStampStep
<1> QED
  BY <1>4, <1>5, <1>6, <1>7, RemoteStep
\* A pull ends with its snapshot staged, or with an error.
LEMMA PullEnds ==
    ASSUME Orderly, RemoteInv, NEW m \in Machines, NEW g \in Triggers,
           PullStage(m, g) \/ PullFail(m, g)
    PROVE  /\ Ends(m, g) /\ UNCHANGED <<store, stamp, remote>>
           /\ op[m][g].pc \in PullPCs
           /\ staged' \in [Machines -> Snapshots]
           /\ \A n \in Machines :
                \/ staged'[n] = staged[n]
                \/ /\ n = m /\ staged'[n] = op[m][g].blob
                   /\ op[m][g].pc = "papply" /\ op[m][g].blob \in Store
<1>0. TypeInv
  BY DEF RemoteInv
<1>1. op[m][g].pc \in PullPCs /\ Finish(m, g) /\ UNCHANGED <<store, stamp, remote>>
  BY DEF PullStage, PullFail, PullPCs
<1>2. Ends(m, g)
  BY <1>1, QuietEnd
<1>3. CASE PullStage(m, g)
  <2>1. op[m][g].pc = "papply" /\ staged' = [staged EXCEPT ![m] = op[m][g].blob]
    BY <1>3 DEF PullStage
  <2>2. op[m][g].blob \in Store /\ staged \in [Machines -> Snapshots]
    BY <1>0, <2>1 DEF TypeInv, IsOp
  <2> QED
    BY <1>1, <1>2, <2>1, <2>2 DEF Snapshots
<1>4. CASE PullFail(m, g)
  BY <1>0, <1>1, <1>2, <1>4 DEF PullFail, TypeInv
<1> QED
  BY <1>3, <1>4

LEMMA RemotePullEnds ==
    ASSUME Orderly, RemoteInv, NEW m \in Machines, NEW g \in Triggers, PullStage(m, g) \/ PullFail(m, g)
    PROVE  RemoteInv'
<1> DEFINE o == op[m][g]
           t == op[m][g].tr
<1>0. TypeInv /\ TurnInv /\ PushInv /\ SnapshotNotOlderThanMeta
  BY DEF RemoteInv
<1>1. t \in Transports /\ o.known \in Nat /\ o.gen \in Nat /\ remote[t].meta \in Nat
  BY <1>0 DEF TypeInv, IsOp
<1>2. Carries(m, g)
  BY <1>0 DEF PushInv
<1>3. remote[t].snap # None => remote[t].snap.gens[t] >= remote[t].meta
  BY <1>0, <1>1 DEF SnapshotNotOlderThanMeta
<1>4. staged' \in [Machines -> Snapshots]
  BY PullEnds
<1>5. OpStep(m, g)
  BY PullEnds DEF Continues, Ends
<1>6. Carries(m, g)'
  BY PullEnds, NothingCarried DEF Ends, Rests, BusyPCs
<1>7. remote'[t].snap # None => remote'[t].snap.gens[t] >= remote'[t].meta
  BY <1>3, PullEnds
<1> QED
  BY <1>4, <1>5, <1>6, <1>7, RemoteStep
LEMMA RemoteBegin ==
    ASSUME Orderly, RemoteInv, NEW m \in Machines, NEW g \in Triggers,
           Begins(m, g)
    PROVE  RemoteInv'
<1>0. TypeInv /\ TurnInv /\ PushInv
  BY DEF RemoteInv
<1>1. /\ \A h \in Triggers : op[m][h].pc \notin BusyPCs
      /\ Turns(m, g, op'[m][g]) /\ op'[m][g].pc \in {"fetch", "pmeta"}
      /\ op'[m][g].tr = store[m].transport
      /\ UNCHANGED <<store, staged, remote>>
      /\ op'[m][g].pc = "fetch" =>
           \A n \in Machines, h \in Triggers :
             op[n][h].pc \in PushPCs => op[n][h].tr # store[m].transport
  BY <1>0, BeginStep DEF Starts
<1>2. /\ op'[m][g].pc \in PushPCs => op'[m][g].pc = "fetch"
      /\ PushPCs \subseteq BusyPCs
  BY <1>1 DEF BusyPCs, PushPCs, PullPCs
<1>3. \A n \in Machines, h \in Triggers : n # m \/ h # g => op'[n][h] = op[n][h]
  BY <1>1 DEF Turns
<1>4. TypeInv'
  BY <1>0, <1>1, OpsTyped DEF TypeInv
<1>5. TurnInv'
  <2>1. \A n \in Machines, k, h \in Triggers :
          op'[n][k].pc \in BusyPCs /\ op'[n][h].pc \in BusyPCs => k = h
    BY <1>0, <1>1, <1>3 DEF TurnInv
  <2>2. \A l, n \in Machines, k, h \in Triggers :
          /\ op'[l][k].pc \in PushPCs /\ op'[n][h].pc \in PushPCs
          /\ op'[l][k].tr = op'[n][h].tr
          => l = n
    BY <1>0, <1>1, <1>2, <1>3 DEF TurnInv
  <2>3. \A n \in Machines, k \in Triggers :
          op'[n][k].pc \in BusyPCs => op'[n][k].tr = store'[n].transport
    BY <1>0, <1>1, <1>3 DEF TurnInv
  <2> QED
    BY <2>1, <2>2, <2>3 DEF TurnInv
<1>6. PushInv'
  <2> SUFFICES ASSUME NEW n \in Machines, NEW h \in Triggers
               PROVE  Carries(n, h)'
    BY DEF PushInv
  <2>1. CASE n = m /\ h = g
    <3>1. op'[n][h].pc \in {"fetch", "pmeta"}
      BY <1>1, <2>1
    <3> QED
      BY <3>1 DEF Carries, Deciding
  <2>2. CASE n # m \/ h # g
    BY <1>0, <1>1, <1>3, <2>2, CarriesFrame DEF PushInv
  <2> QED
    BY <2>1, <2>2
<1>7. SnapshotNotOlderThanMeta'
  BY <1>1 DEF RemoteInv, SnapshotNotOlderThanMeta
<1> QED
  BY <1>4, <1>5, <1>6, <1>7 DEF RemoteInv

LEMMA RemoteOutside ==
    ASSUME Orderly, RemoteInv, NEW m \in Machines,
           \/ \E e \in Edits : Edit(m, e)
           \/ \E t \in Transports : SetTransport(m, t)
           \/ Loop(m) \/ RemoteCheckFails(m)
           \/ Restart(m)
    PROVE  RemoteInv'
<1>0. TypeInv
  BY DEF RemoteInv
<1>1. CASE \E e \in Edits : Edit(m, e)
  <2>1. StoreOf(m) /\ store'[m].gens = store[m].gens /\ UNCHANGED <<op, staged, remote>>
    BY <1>0, <1>1, EditStep DEF Edit
  <2> QED
    BY <1>0, <2>1, RemoteFrame DEF StoreOf, TypeInv
<1>2. CASE \E t \in Transports : SetTransport(m, t)
  <2>1. /\ store' \in [Machines -> Store] /\ store'[m].gens = store[m].gens
        /\ \A n \in Machines : n # m => store'[n] = store[n]
        /\ \A g \in Triggers : op[m][g].pc \notin BusyPCs
        /\ UNCHANGED <<op, staged, remote>>
    BY <1>0, <1>2, SwitchStep DEF SetTransport
  <2> QED
    BY <1>0, <2>1, RemoteFrame DEF TypeInv
<1>3. CASE Loop(m) \/ RemoteCheckFails(m)
  <2>1. /\ "auto" \in Triggers
        /\ Turns(m, "auto", op'[m]["auto"]) /\ Rests(op'[m]["auto"])
        /\ UNCHANGED <<store, staged, remote>>
    BY <1>0, <1>3, TickStep
  <2>2. /\ DOMAIN op' = Machines /\ \A n \in Machines : DOMAIN op'[n] = Triggers
        /\ \A n \in Machines, h \in Triggers : IsOp(op'[n][h])
        /\ \A n \in Machines, h \in Triggers :
             op'[n][h].pc \in BusyPCs => op'[n][h] = op[n][h]
    BY <1>0, <2>1 DEF Turns, Rests, TypeInv
  <2> QED
    BY <1>0, <2>1, <2>2, RemoteFrame DEF TypeInv
<1>4. CASE Restart(m)
  <2>1. /\ DOMAIN op' = Machines /\ \A n \in Machines : DOMAIN op'[n] = Triggers
        /\ \A g \in Triggers : Rests(op'[m][g])
        /\ \A n \in Machines : n # m => op'[n] = op[n] /\ store'[n] = store[n]
        /\ store' \in [Machines -> Store] /\ staged' \in [Machines -> Snapshots]
        /\ UNCHANGED remote
    BY <1>0, <1>4, RestartStep
  <2>2. /\ \A n \in Machines, h \in Triggers : IsOp(op'[n][h])
        /\ \A n \in Machines, h \in Triggers :
             op'[n][h].pc \in BusyPCs => op'[n][h] = op[n][h]
    BY <1>0, <2>1 DEF Rests, TypeInv
  <2>3. \A n \in Machines :
          \/ \A h \in Triggers : op'[n][h].pc \notin BusyPCs
          \/ store'[n].transport = store[n].transport /\ store'[n].gens = store[n].gens
    BY <2>1 DEF Rests
  <2> QED
    BY <2>1, <2>2, <2>3, RemoteFrame
<1> QED
  BY <1>1, <1>2, <1>3, <1>4

LEMMA RemoteNext == Orderly /\ RemoteInv /\ [Next]_vars => RemoteInv'
<1> SUFFICES ASSUME Orderly, RemoteInv, [Next]_vars PROVE RemoteInv'
  OBVIOUS
<1>1. CASE UNCHANGED <<store, staged, remote, op>>
  BY <1>1 DEF RemoteInv, TypeInv, TurnInv, PushInv, Carries, IsOp,
              SnapshotNotOlderThanMeta
<1>2. CASE Next
  <2>1. PICK m \in Machines :
          \/ \E e \in Edits : Edit(m, e)
          \/ \E t \in Transports : SetTransport(m, t)
          \/ \E g \in Triggers, f \in BOOLEAN : BeginPush(m, g, f)
          \/ \E g \in Triggers : PushStep(m, g) \/ PullStep(m, g) \/ FailStep(m, g)
          \/ Offer(m) \/ \E g \in Triggers : BeginsPull(m, g)
          \/ Loop(m) \/ RemoteCheckFails(m)
          \/ Restart(m)
    BY <1>2 DEF Next, BeginsPull
  <2>2. CASE \E g \in Triggers, f \in BOOLEAN : BeginPush(m, g, f)
    BY <2>2, RemoteBegin DEF Begins
  <2>3. CASE \E g \in Triggers : BeginsPull(m, g)
    BY <2>3, RemoteBegin DEF Begins
  <2>4. CASE \E g \in Triggers : PushStep(m, g) \/ PullStep(m, g) \/ FailStep(m, g)
    <3>1. PICK g \in Triggers : PushStep(m, g) \/ PullStep(m, g) \/ FailStep(m, g)
      BY <2>4
    <3>2. CASE PushStep(m, g)
      BY <3>2, RemoteFetch, RemoteGivesUp, RemotePersist, RemoteSeal, RemotePutStep,
         RemoteClear, RemoteLand, RemoteMeta, RemoteStamp
      DEF PushStep, GivesUp, Lands
    <3>3. CASE PullStep(m, g)
      BY <3>3, RemotePullMeta, RemotePullGet, RemoteApply, RemotePullStamp, RemotePullEnds
      DEF PullStep
    <3>4. CASE FailStep(m, g)
      BY <3>4, RemoteGivesUp, RemoteMetaLost, RemotePullEnds, RemoteNotStaged
      DEF FailStep, GivesUp
    <3> QED
      BY <3>1, <3>2, <3>3, <3>4
  <2> QED
    BY <1>1, <2>1, <2>2, <2>3, <2>4, RemoteOutside DEF Offer
<1> QED
  BY <1>1, <1>2 DEF vars

\* syncer.Push writes meta.json last, so a reader that sees the new meta finds
\* the new snapshot or a newer one, whoever pushes from wherever and whatever
\* step it dies or fails at.
THEOREM NewMetaNewSnapshot ==
    ASSUME Orderly
    PROVE  Spec => []SnapshotNotOlderThanMeta
<1>1. RemoteInv /\ [Next]_vars => RemoteInv'
  BY RemoteNext
<1>2. RemoteInv => SnapshotNotOlderThanMeta
  BY DEF RemoteInv
<1> QED
  BY RemoteInit, <1>1, <1>2, PTL DEF Spec

\* Every commit of a push raises the generation of its backend, the forced
\* one too, so every other machine can see that it is behind.
THEOREM GenerationsRise ==
    ASSUME Orderly
    PROVE  Spec => CommitsRaiseGeneration
<1> DEFINE Rises ==
             \A m \in Machines, g \in Triggers :
               PushMeta(m, g) =>
                 LET t == op[m][g].tr IN remote'[t].meta > remote[t].meta
<1>1. RemoteInv => Rises
  <2> SUFFICES ASSUME RemoteInv, NEW m \in Machines, NEW g \in Triggers,
                      PushMeta(m, g)
               PROVE  LET t == op[m][g].tr IN remote'[t].meta > remote[t].meta
    OBVIOUS
  <2>1. Carries(m, g)
    BY DEF RemoteInv, PushInv
  <2> QED
    BY <2>1, MetaStep DEF Carries
<1>2. RemoteInv /\ [Next]_vars => RemoteInv'
  BY RemoteNext
<1> HIDE DEF Rises
<1>3. Spec => [][Rises]_vars
  BY RemoteInit, <1>1, <1>2, PTL DEF Spec
<1> QED
  BY <1>3 DEF Rises, CommitsRaiseGeneration
-----------------------------------------------------------------------------
(* The newest generation and profile of a backend, committed or not.       *)
TopGen(t) == IF remote[t].snap = None THEN remote[t].meta
                                      ELSE remote[t].snap.gens[t]

TopContent(t) == IF remote[t].snap = None THEN committed[t]
                                          ELSE remote[t].snap.content

\* A push of t has its snapshot in place and not its generation.
Committing(t) == \E m \in Machines, g \in Triggers :
                   op[m][g].pc = "meta" /\ op[m][g].tr = t

\* A push of m has counted up, and its snapshot is not in place.
Counted(m, t) == \E g \in Triggers :
                   op[m][g].pc \in {"seal", "put", "move", "rename"} /\ op[m][g].tr = t

Below(s) == \A t \in Transports : s.gens[t] <= TopGen(t)

\* What an operation brings is not ahead of any backend, but for the
\* generation a push has counted up to.
OpBelow(m, g) ==
    LET o == op[m][g] IN
    /\ o.pc \in Deciding \cup {"fetch", "pget", "papply", "pstamp"} => o.known <= TopGen(o.tr)
    /\ o.pc = "papply" => Below(o.blob)
    /\ o.pc \in {"put", "move", "rename"} =>
         \A t \in Transports : t # o.tr => o.blob.gens[t] <= TopGen(t)
    /\ o.pc \in {"put", "move", "rename", "meta"} => store[m].gens[o.tr] = o.gen

BelowInv ==
    /\ \A t \in Transports :
         remote[t].snap # None =>
           /\ Below(remote[t].snap)
           /\ ~Committing(t) => remote[t].snap.gens[t] = remote[t].meta
    /\ \A m \in Machines : staged[m] # None => Below(staged[m])
    /\ \A m \in Machines, t \in Transports :
         store[m].gens[t] <= TopGen(t) \/ Counted(m, t)
    /\ \A m \in Machines, g \in Triggers : OpBelow(m, g)

\* The generations of the store of m that are ahead are those it counted up.
StoreBelow(m) == \A t \in Transports : store[m].gens[t] <= TopGen(t) \/ Counted(m, t)

LEMMA GensTyped ==
    ASSUME TypeInv, NEW t \in Transports
    PROVE  /\ TopGen(t) \in Nat /\ remote[t].meta \in Nat
           /\ remote[t].snap # None => remote[t].snap \in Store
           /\ \A m \in Machines : store[m].gens[t] \in Nat
           /\ \A s \in Store : s.gens[t] \in Nat
           /\ \A m \in Machines : staged[m] # None => staged[m] \in Store
<1>1. \A s \in Store : s.gens[t] \in Nat
  BY DEF Store
<1>2. remote[t].meta \in Nat /\ (remote[t].snap # None => remote[t].snap \in Store)
  BY DEF TypeInv, Snapshots
<1>3. \A m \in Machines : store[m] \in Store /\ (staged[m] # None => staged[m] \in Store)
  BY DEF TypeInv, Snapshots
<1> QED
  BY <1>1, <1>2, <1>3 DEF TopGen

LEMMA MetaBelowTop ==
    ASSUME TypeInv, SnapshotNotOlderThanMeta, NEW t \in Transports
    PROVE  remote[t].meta <= TopGen(t)
BY GensTyped DEF SnapshotNotOlderThanMeta, TopGen

\* While a push has not put its snapshot in place, the newest generation of
\* its backend is the committed one.
LEMMA SettledBefore ==
    ASSUME RemoteInv, BelowInv, NEW m \in Machines, NEW g \in Triggers,
           op[m][g].pc \in PushPCs, op[m][g].pc # "meta"
    PROVE  /\ ~Committing(op[m][g].tr)
           /\ TopGen(op[m][g].tr) = remote[op[m][g].tr].meta
<1> DEFINE t == op[m][g].tr
<1>0. TypeInv /\ TurnInv /\ t \in Transports
  BY DEF RemoteInv, TypeInv, IsOp
<1>1. ~Committing(t)
  <2> SUFFICES ASSUME NEW n \in Machines, NEW h \in Triggers,
                      op[n][h].pc = "meta", op[n][h].tr = t
               PROVE  FALSE
    BY DEF Committing
  <2>1. n = m
    BY <1>0 DEF TurnInv, PushPCs
  <2>2. h = g
    BY <1>0, <2>1 DEF TurnInv, BusyPCs, PushPCs
  <2> QED
    BY <2>1, <2>2
<1> QED
  BY <1>0, <1>1 DEF BelowInv, TopGen

\* Only the operation under way has counted up.
LEMMA CountedOnce ==
    ASSUME TurnInv, NEW m \in Machines, NEW g \in Triggers,
           op[m][g].pc \in BusyPCs, NEW t, Counted(m, t)
    PROVE  op[m][g].pc \in {"seal", "put", "move", "rename"} /\ op[m][g].tr = t
BY DEF Counted, TurnInv, BusyPCs, PushPCs

LEMMA OpBelowFrame ==
    ASSUME TypeInv, NEW n \in Machines, NEW h \in Triggers, OpBelow(n, h),
           \A u \in Transports : TopGen(u) \in Nat /\ TopGen(u)' \in Nat
                                 /\ TopGen(u) <= TopGen(u)',
           op'[n][h] = op[n][h],
           op[n][h].pc \in BusyPCs => store'[n].gens = store[n].gens
    PROVE  OpBelow(n, h)'
<1> DEFINE o == op[n][h]
<1>1. o.tr \in Transports /\ o.known \in Nat
      /\ (o.pc \in {"put", "move", "rename", "meta", "papply"} => o.blob \in Store)
  BY DEF TypeInv, IsOp
<1>2. o.pc \in {"put", "move", "rename", "papply"} =>
        \A u \in Transports : o.blob.gens[u] \in Nat
  BY <1>1 DEF Store
<1>3. o.pc \in Deciding \cup {"fetch", "pget", "papply", "pstamp"} => o.known <= TopGen(o.tr)'
  BY <1>1 DEF OpBelow
<1>4. o.pc = "papply" => Below(o.blob)'
  BY <1>2 DEF OpBelow, Below
<1>5. o.pc \in {"put", "move", "rename"} =>
         \A t \in Transports : t # o.tr => o.blob.gens[t] <= TopGen(t)'
  BY <1>2 DEF OpBelow
<1>6. o.pc \in {"put", "move", "rename", "meta"} => store'[n].gens[o.tr] = o.gen
  BY DEF OpBelow, BusyPCs, PushPCs
<1> QED
  BY <1>3, <1>4, <1>5, <1>6 DEF OpBelow, Below

LEMMA RestsBelow ==
    ASSUME NEW n \in Machines, NEW h \in Triggers, op'[n][h].pc \notin BusyPCs
    PROVE  OpBelow(n, h)'
BY DEF OpBelow, Deciding, BusyPCs, PushPCs, PullPCs

LEMMA TopSame ==
    ASSUME NEW t \in Transports, remote'[t].snap = remote[t].snap,
           remote'[t].meta = remote[t].meta
    PROVE  TopGen(t)' = TopGen(t)
BY DEF TopGen

\* The new newest generation is a later one.
Later == \A u \in Transports : TopGen(u) <= TopGen(u)'

\* What a step of an operation owes BelowInv.
LEMMA BelowStep ==
    ASSUME RemoteInv, RemoteInv', BelowInv, NEW m \in Machines, NEW g \in Triggers,
           OpStep(m, g), Later, NEW t \in Transports, t = op[m][g].tr,
           \A n \in Machines : staged'[n] # None =>
             \/ staged'[n] = staged[n]
             \/ op[m][g].pc = "papply" /\ staged'[n] = op[m][g].blob,
           remote'[t].snap # None =>
             /\ Below(remote[t].snap)'
             /\ ~Committing(t)' => remote'[t].snap.gens[t] = remote'[t].meta,
           StoreBelow(m)', OpBelow(m, g)'
    PROVE  BelowInv'
<1>0. /\ TypeInv /\ TurnInv /\ TypeInv'
      /\ op[m][g].pc = "papply" => op[m][g].blob \in Store
  BY DEF RemoteInv, TypeInv, IsOp
<1>1. \A u \in Transports : TopGen(u) \in Nat /\ TopGen(u)' \in Nat /\ TopGen(u) <= TopGen(u)'
  <2>1. \A u \in Transports : TopGen(u) \in Nat
    BY <1>0, GensTyped
  <2>2. \A u \in Transports : TopGen(u)' \in Nat
    BY <1>0 DEF TypeInv, TopGen, Snapshots, Store
  <2> QED
    BY <2>1, <2>2 DEF Later
<1>2. \A s \in Store : Below(s) => Below(s)'
  BY <1>1 DEF Below, Store
<1>3. ASSUME NEW u \in Transports, remote'[u].snap # None
      PROVE  /\ Below(remote[u].snap)'
             /\ ~Committing(u)' => remote'[u].snap.gens[u] = remote'[u].meta
  <2>1. CASE u = t
    BY <1>3, <2>1
  <2>2. CASE u # t
    <3>1. remote'[u] = remote[u]
      BY <2>2 DEF OpStep, RemoteOf
    <3>2. remote[u].snap \in Store /\ Below(remote[u].snap)
      BY <1>0, <1>3, <3>1, GensTyped DEF BelowInv
    <3>3. \A x \in Store : x = remote[u].snap => Below(x)'
      BY <1>2, <3>2
    <3>4. Below(remote[u].snap)'
      BY <3>1, <3>2, <3>3 DEF Below
    <3>5. Committing(u) => Committing(u)'
      <4> SUFFICES ASSUME NEW n \in Machines, NEW h \in Triggers,
                          op[n][h].pc = "meta", op[n][h].tr = u
                   PROVE  op'[n][h] = op[n][h]
        BY DEF Committing
      <4> QED
        BY <2>2 DEF OpStep, Turns
    <3> QED
      BY <1>3, <3>1, <3>4, <3>5 DEF BelowInv
  <2> QED
    BY <2>1, <2>2
<1>4. ASSUME NEW n \in Machines, staged'[n] # None
      PROVE  Below(staged[n])'
  <2>1. PICK x : x = staged'[n]
    OBVIOUS
  <2>2. x \in Store /\ Below(x)
    <3>1. CASE x = staged[n]
      BY <1>0, <1>4, <2>1, <3>1, GensTyped DEF BelowInv, TypeInv, Snapshots
    <3>2. CASE x # staged[n]
      BY <1>0, <1>4, <2>1, <3>2 DEF BelowInv, OpBelow
    <3> QED
      BY <3>1, <3>2
  <2> QED
    BY <1>2, <2>1, <2>2 DEF Below
<1>5. \A n \in Machines : StoreBelow(n)'
  <2> SUFFICES ASSUME NEW n \in Machines, n # m, NEW u \in Transports
               PROVE  store'[n].gens[u] <= TopGen(u)' \/ Counted(n, u)'
    BY DEF StoreBelow
  <2>1. store'[n] = store[n] /\ \A h \in Triggers : op'[n][h] = op[n][h]
    BY DEF OpStep, StoreOf, Turns
  <2>2. store[n].gens[u] \in Nat
    BY <1>0, GensTyped
  <2>3. Counted(n, u) => Counted(n, u)'
    BY <2>1 DEF Counted
  <2> QED
    BY <1>1, <2>1, <2>2, <2>3 DEF BelowInv
<1>6. \A n \in Machines, h \in Triggers : OpBelow(n, h)'
  <2> SUFFICES ASSUME NEW n \in Machines, NEW h \in Triggers, n # m \/ h # g
               PROVE  OpBelow(n, h)'
    OBVIOUS
  <2>1. OpBelow(n, h)
    BY DEF BelowInv
  <2>2. op'[n][h] = op[n][h] /\ (op[n][h].pc \in BusyPCs => store'[n] = store[n])
    BY <1>0, Undisturbed
  <2> QED
    BY <1>0, <1>1, <2>1, <2>2, OpBelowFrame
<1> QED
  BY <1>3, <1>4, <1>5, <1>6 DEF BelowInv, StoreBelow

\* What is known of the operation that takes a step.
LEMMA BelowBase ==
    ASSUME RemoteInv, BelowInv, NEW m \in Machines, NEW g \in Triggers,
           op[m][g].pc \in BusyPCs, NEW t \in Transports, t = op[m][g].tr
    PROVE  /\ TypeInv /\ TurnInv /\ SnapshotNotOlderThanMeta
           /\ Carries(m, g) /\ OpBelow(m, g)
           /\ op[m][g].known \in Nat /\ op[m][g].gen \in Nat
           /\ \A u \in Transports :
                /\ TopGen(u) \in Nat /\ store[m].gens[u] \in Nat
                /\ \/ store[m].gens[u] <= TopGen(u)
                   \/ u = t /\ op[m][g].pc \in {"seal", "put", "move", "rename"}
<1>1. /\ TypeInv /\ TurnInv /\ SnapshotNotOlderThanMeta
      /\ Carries(m, g) /\ OpBelow(m, g)
      /\ op[m][g].known \in Nat /\ op[m][g].gen \in Nat
  BY DEF RemoteInv, PushInv, BelowInv, TypeInv, IsOp
<1>2. \A u \in Transports :
        /\ TopGen(u) \in Nat /\ store[m].gens[u] \in Nat
        /\ store[m].gens[u] <= TopGen(u) \/ Counted(m, u)
  BY <1>1, GensTyped DEF BelowInv
<1>3. \A u \in Transports : Counted(m, u) =>
        u = t /\ op[m][g].pc \in {"seal", "put", "move", "rename"}
  BY <1>1, CountedOnce
<1> QED
  BY <1>1, <1>2, <1>3

\* A step that leaves snapshot and generation of its backend alone.
LEMMA BelowKept ==
    ASSUME RemoteInv, RemoteInv', BelowInv, NEW m \in Machines, NEW g \in Triggers,
           OpStep(m, g), op[m][g].pc # "meta",
           NEW t \in Transports, t = op[m][g].tr,
           remote'[t].snap = remote[t].snap, remote'[t].meta = remote[t].meta,
           \A n \in Machines : staged'[n] # None =>
             \/ staged'[n] = staged[n]
             \/ op[m][g].pc = "papply" /\ staged'[n] = op[m][g].blob,
           (\A u \in Transports : TopGen(u)' = TopGen(u)) =>
             StoreBelow(m)' /\ OpBelow(m, g)'
    PROVE  BelowInv'
<1>0. TypeInv
  BY DEF RemoteInv
<1>1. \A u \in Transports : TopGen(u)' = TopGen(u) /\ TopGen(u) \in Nat
  <2> SUFFICES ASSUME NEW u \in Transports
               PROVE  TopGen(u)' = TopGen(u) /\ TopGen(u) \in Nat
    OBVIOUS
  <2>1. remote'[u].snap = remote[u].snap /\ remote'[u].meta = remote[u].meta
    BY DEF OpStep, RemoteOf
  <2> QED
    BY <1>0, <2>1, TopSame, GensTyped
<1>2. Later
  BY <1>1 DEF Later
<1>3. Committing(t) => Committing(t)'
  <2> SUFFICES ASSUME NEW n \in Machines, NEW h \in Triggers, op[n][h].pc = "meta"
               PROVE  op'[n][h] = op[n][h]
    BY DEF Committing
  <2> QED
    BY DEF OpStep, Turns
<1>4. remote'[t].snap # None =>
        /\ Below(remote[t].snap)'
        /\ ~Committing(t)' => remote'[t].snap.gens[t] = remote'[t].meta
  BY <1>1, <1>3 DEF BelowInv, Below
<1> QED
  BY <1>1, <1>2, <1>4, BelowStep

LEMMA BelowFetch ==
    ASSUME Careful, RemoteInv, RemoteInv', BelowInv,
           NEW m \in Machines, NEW g \in Triggers, PushFetch(m, g)
    PROVE  BelowInv'
<1> DEFINE o == op[m][g]
<1>0. Orderly /\ "lateFail" \notin Faults
  BY DEF Careful
<1>1. PICK t \in Transports : t = o.tr
  BY DEF RemoteInv, TypeInv, IsOp
<1>2. /\ OpStep(m, g) /\ o.pc = "fetch" /\ op'[m][g].pc = "persist" /\ op'[m][g].tr = t
      /\ op'[m][g].known = o.known /\ UNCHANGED <<store, remote>>
  BY <1>0, <1>1, FetchStep DEF Continues, GoesOn
<1>3. o.pc \in BusyPCs
  BY <1>2 DEF OpStep
<1>4. /\ TypeInv /\ TurnInv /\ SnapshotNotOlderThanMeta
      /\ Carries(m, g) /\ OpBelow(m, g)
      /\ o.known \in Nat /\ o.gen \in Nat
      /\ \A u \in Transports :
           /\ TopGen(u) \in Nat /\ store[m].gens[u] \in Nat
           /\ \/ store[m].gens[u] <= TopGen(u)
              \/ u = t /\ o.pc \in {"seal", "put", "move", "rename"}
  BY <1>1, <1>3, BelowBase
<1>5. UNCHANGED staged
  BY DEF PushFetch
<1>6. ASSUME \A u \in Transports : TopGen(u)' = TopGen(u)
      PROVE  StoreBelow(m)' /\ OpBelow(m, g)'
  <2>1. OpBelow(m, g)'
    BY <1>1, <1>2, <1>4, <1>6 DEF OpBelow, Deciding
  <2>2. StoreBelow(m)'
    BY <1>2, <1>4, <1>6 DEF StoreBelow
  <2> QED
    BY <2>1, <2>2
<1> QED
  BY <1>1, <1>2, <1>5, <1>6, BelowKept DEF PushPCs, PullPCs
LEMMA BelowPersist ==
    ASSUME Careful, RemoteInv, RemoteInv', BelowInv,
           NEW m \in Machines, NEW g \in Triggers, PushPersist(m, g)
    PROVE  BelowInv'
<1> DEFINE o == op[m][g]
<1>0. Orderly /\ "lateFail" \notin Faults
  BY DEF Careful
<1>1. PICK t \in Transports : t = o.tr
  BY DEF RemoteInv, TypeInv, IsOp
<1>2. /\ OpStep(m, g) /\ o.pc = "persist" /\ op'[m][g].pc = "seal" /\ op'[m][g].tr = t
      /\ op'[m][g].known = o.known /\ Generation(m, t, o.gen) /\ UNCHANGED remote
  BY <1>0, <1>1, PersistStep DEF Continues, GoesOn
<1>3. o.pc \in BusyPCs
  BY <1>2 DEF OpStep
<1>4. /\ TypeInv /\ TurnInv /\ SnapshotNotOlderThanMeta
      /\ Carries(m, g) /\ OpBelow(m, g)
      /\ o.known \in Nat /\ o.gen \in Nat
      /\ \A u \in Transports :
           /\ TopGen(u) \in Nat /\ store[m].gens[u] \in Nat
           /\ \/ store[m].gens[u] <= TopGen(u)
              \/ u = t /\ o.pc \in {"seal", "put", "move", "rename"}
  BY <1>1, <1>3, BelowBase
<1>5. UNCHANGED staged
  BY DEF PushPersist
<1>6. ASSUME \A u \in Transports : TopGen(u)' = TopGen(u)
      PROVE  StoreBelow(m)' /\ OpBelow(m, g)'
  <2>1. OpBelow(m, g)'
    BY <1>1, <1>2, <1>4, <1>6 DEF OpBelow, Deciding
  <2>2. StoreBelow(m)'
    <3>1. Counted(m, t)'
      BY <1>1, <1>2 DEF Counted
    <3> QED
      BY <1>2, <1>4, <1>6, <3>1 DEF StoreBelow, Generation
  <2> QED
    BY <2>1, <2>2
<1> QED
  BY <1>1, <1>2, <1>5, <1>6, BelowKept DEF PushPCs, PullPCs
LEMMA BelowSeal ==
    ASSUME Careful, RemoteInv, RemoteInv', BelowInv,
           NEW m \in Machines, NEW g \in Triggers, PushSeal(m, g)
    PROVE  BelowInv'
<1> DEFINE o == op[m][g]
<1>0. Orderly /\ "lateFail" \notin Faults
  BY DEF Careful
<1>1. PICK t \in Transports : t = o.tr
  BY DEF RemoteInv, TypeInv, IsOp
<1>2. /\ OpStep(m, g) /\ o.pc = "seal" /\ op'[m][g].pc = "put" /\ op'[m][g].tr = t
      /\ op'[m][g].known = o.known /\ op'[m][g].gen = o.gen
      /\ op'[m][g].blob = store[m] /\ UNCHANGED <<store, remote>>
  BY <1>0, <1>1, SealStep DEF Continues, GoesOn
<1>3. o.pc \in BusyPCs
  BY <1>2 DEF OpStep
<1>4. /\ TypeInv /\ TurnInv /\ SnapshotNotOlderThanMeta
      /\ Carries(m, g) /\ OpBelow(m, g)
      /\ o.known \in Nat /\ o.gen \in Nat
      /\ \A u \in Transports :
           /\ TopGen(u) \in Nat /\ store[m].gens[u] \in Nat
           /\ \/ store[m].gens[u] <= TopGen(u)
              \/ u = t /\ o.pc \in {"seal", "put", "move", "rename"}
  BY <1>1, <1>3, BelowBase
<1>5. UNCHANGED staged
  BY DEF PushSeal
<1>6. ASSUME \A u \in Transports : TopGen(u)' = TopGen(u)
      PROVE  StoreBelow(m)' /\ OpBelow(m, g)'
  <2>1. OpBelow(m, g)'
    BY <1>1, <1>2, <1>4, <1>6 DEF OpBelow, Deciding, Carries
  <2>2. StoreBelow(m)'
    <3>1. Counted(m, t)'
      BY <1>1, <1>2 DEF Counted
    <3> QED
      BY <1>2, <1>4, <1>6, <3>1 DEF StoreBelow, Generation
  <2> QED
    BY <2>1, <2>2
<1> QED
  BY <1>1, <1>2, <1>5, <1>6, BelowKept DEF PushPCs, PullPCs
LEMMA BelowPut ==
    ASSUME Careful, RemoteInv, RemoteInv', BelowInv,
           NEW m \in Machines, NEW g \in Triggers, PushPut(m, g)
    PROVE  BelowInv'
<1> DEFINE o == op[m][g]
<1>0. Orderly /\ "lateFail" \notin Faults
  BY DEF Careful
<1>1. PICK t \in Transports : t = o.tr
  BY DEF RemoteInv, TypeInv, IsOp
<1>2. /\ OpStep(m, g) /\ o.pc = "put" /\ op'[m][g].pc = "move" /\ op'[m][g].tr = t
      /\ op'[m][g].known = o.known /\ op'[m][g].gen = o.gen
      /\ op'[m][g].blob = o.blob /\ UNCHANGED store
      /\ remote'[t].snap = remote[t].snap /\ remote'[t].meta = remote[t].meta
  BY <1>0, <1>1, PutStep DEF Continues, GoesOn, Keeps
<1>3. o.pc \in BusyPCs
  BY <1>2 DEF OpStep
<1>4. /\ TypeInv /\ TurnInv /\ SnapshotNotOlderThanMeta
      /\ Carries(m, g) /\ OpBelow(m, g)
      /\ o.known \in Nat /\ o.gen \in Nat
      /\ \A u \in Transports :
           /\ TopGen(u) \in Nat /\ store[m].gens[u] \in Nat
           /\ \/ store[m].gens[u] <= TopGen(u)
              \/ u = t /\ o.pc \in {"seal", "put", "move", "rename"}
  BY <1>1, <1>3, BelowBase
<1>5. UNCHANGED staged
  BY DEF PushPut
<1>6. ASSUME \A u \in Transports : TopGen(u)' = TopGen(u)
      PROVE  StoreBelow(m)' /\ OpBelow(m, g)'
  <2>1. OpBelow(m, g)'
    BY <1>1, <1>2, <1>4, <1>6 DEF OpBelow, Deciding
  <2>2. StoreBelow(m)'
    <3>1. Counted(m, t)'
      BY <1>1, <1>2 DEF Counted
    <3> QED
      BY <1>2, <1>4, <1>6, <3>1 DEF StoreBelow, Generation
  <2> QED
    BY <2>1, <2>2
<1> QED
  BY <1>1, <1>2, <1>5, <1>6, BelowKept DEF PushPCs, PullPCs
LEMMA BelowStamp ==
    ASSUME Careful, RemoteInv, RemoteInv', BelowInv,
           NEW m \in Machines, NEW g \in Triggers, PushStamp(m, g)
    PROVE  BelowInv'
<1> DEFINE o == op[m][g]
<1>0. Orderly /\ "lateFail" \notin Faults
  BY DEF Careful
<1>1. PICK t \in Transports : t = o.tr
  BY DEF RemoteInv, TypeInv, IsOp
<1>2. /\ OpStep(m, g) /\ o.pc = "stamp" /\ op'[m][g].pc \notin BusyPCs
      /\ UNCHANGED <<store, remote>>
  BY <1>0, <1>1, StampStep DEF Ends, Rests
<1>3. o.pc \in BusyPCs
  BY <1>2 DEF OpStep
<1>4. /\ TypeInv /\ TurnInv /\ SnapshotNotOlderThanMeta
      /\ Carries(m, g) /\ OpBelow(m, g)
      /\ o.known \in Nat /\ o.gen \in Nat
      /\ \A u \in Transports :
           /\ TopGen(u) \in Nat /\ store[m].gens[u] \in Nat
           /\ \/ store[m].gens[u] <= TopGen(u)
              \/ u = t /\ o.pc \in {"seal", "put", "move", "rename"}
  BY <1>1, <1>3, BelowBase
<1>5. UNCHANGED staged
  BY DEF PushStamp
<1>6. ASSUME \A u \in Transports : TopGen(u)' = TopGen(u)
      PROVE  StoreBelow(m)' /\ OpBelow(m, g)'
  <2>1. OpBelow(m, g)'
    BY <1>2, RestsBelow
  <2>2. StoreBelow(m)'
    BY <1>2, <1>4, <1>6 DEF StoreBelow
  <2> QED
    BY <2>1, <2>2
<1> QED
  BY <1>1, <1>2, <1>5, <1>6, BelowKept DEF PushPCs, PullPCs
LEMMA BelowGivesUp ==
    ASSUME Careful, RemoteInv, RemoteInv', BelowInv,
           NEW m \in Machines, NEW g \in Triggers, GivesUp(m, g)
    PROVE  BelowInv'
<1> DEFINE o == op[m][g]
<1>0. Orderly /\ "lateFail" \notin Faults
  BY DEF Careful
<1>1. PICK t \in Transports : t = o.tr
  BY DEF RemoteInv, TypeInv, IsOp
<1>2. /\ OpStep(m, g) /\ o.pc \in {"fetch", "persist", "seal", "put", "move"}
      /\ op'[m][g].pc \notin BusyPCs
      /\ Generation(m, t, o.known) /\ UNCHANGED remote
  <2>1. /\ o.pc \in {"fetch", "persist", "seal", "put", "move"} /\ o.pc \in PushPCs
        /\ setSyncGeneration(m, g, o.known) /\ FinishFailed(m, g) /\ UNCHANGED remote
    BY <1>0, GivingUp DEF PushPCs
  <2> QED
    BY <1>0, <1>1, <2>1, GivesUpStep DEF Ends, Rests
<1>3. o.pc \in BusyPCs
  BY <1>2 DEF OpStep
<1>4. /\ TypeInv /\ TurnInv /\ SnapshotNotOlderThanMeta
      /\ Carries(m, g) /\ OpBelow(m, g)
      /\ o.known \in Nat /\ o.gen \in Nat
      /\ \A u \in Transports :
           /\ TopGen(u) \in Nat /\ store[m].gens[u] \in Nat
           /\ \/ store[m].gens[u] <= TopGen(u)
              \/ u = t /\ o.pc \in {"seal", "put", "move", "rename"}
  BY <1>1, <1>3, BelowBase
<1>5. UNCHANGED staged
  BY GivingUp
<1>6. ASSUME \A u \in Transports : TopGen(u)' = TopGen(u)
      PROVE  StoreBelow(m)' /\ OpBelow(m, g)'
  <2>1. OpBelow(m, g)'
    BY <1>2, RestsBelow
  <2>2. StoreBelow(m)'
    BY <1>1, <1>2, <1>4, <1>6 DEF StoreBelow, Generation, OpBelow, Deciding
  <2> QED
    BY <2>1, <2>2
<1> QED
  BY <1>1, <1>2, <1>5, <1>6, BelowKept DEF PushPCs, PullPCs
LEMMA BelowPullMeta ==
    ASSUME Careful, RemoteInv, RemoteInv', BelowInv,
           NEW m \in Machines, NEW g \in Triggers, PullMeta(m, g)
    PROVE  BelowInv'
<1> DEFINE o == op[m][g]
<1>0. Orderly /\ "lateFail" \notin Faults
  BY DEF Careful
<1>1. PICK t \in Transports : t = o.tr
  BY DEF RemoteInv, TypeInv, IsOp
<1>2. /\ OpStep(m, g) /\ o.pc = "pmeta" /\ UNCHANGED <<store, remote>>
      /\ \/ op'[m][g].pc \notin BusyPCs
         \/ /\ op'[m][g].pc = "pget" /\ op'[m][g].tr = t
            /\ op'[m][g].known = remote[t].meta
  BY <1>0, <1>1, PullMetaStep DEF Rests
<1>3. o.pc \in BusyPCs
  BY <1>2 DEF OpStep
<1>4. /\ TypeInv /\ TurnInv /\ SnapshotNotOlderThanMeta
      /\ Carries(m, g) /\ OpBelow(m, g)
      /\ o.known \in Nat /\ o.gen \in Nat
      /\ \A u \in Transports :
           /\ TopGen(u) \in Nat /\ store[m].gens[u] \in Nat
           /\ \/ store[m].gens[u] <= TopGen(u)
              \/ u = t /\ o.pc \in {"seal", "put", "move", "rename"}
  BY <1>1, <1>3, BelowBase
<1>5. UNCHANGED staged
  BY DEF PullMeta
<1>6. ASSUME \A u \in Transports : TopGen(u)' = TopGen(u)
      PROVE  StoreBelow(m)' /\ OpBelow(m, g)'
  <2>1. OpBelow(m, g)'
    BY <1>1, <1>2, <1>4, <1>6, RestsBelow, MetaBelowTop DEF OpBelow, Deciding
  <2>2. StoreBelow(m)'
    BY <1>2, <1>4, <1>6 DEF StoreBelow
  <2> QED
    BY <2>1, <2>2
<1> QED
  BY <1>1, <1>2, <1>5, <1>6, BelowKept DEF PushPCs, PullPCs
LEMMA BelowPullGet ==
    ASSUME Careful, RemoteInv, RemoteInv', BelowInv,
           NEW m \in Machines, NEW g \in Triggers, PullGet(m, g)
    PROVE  BelowInv'
<1> DEFINE o == op[m][g]
<1>0. Orderly /\ "lateFail" \notin Faults
  BY DEF Careful
<1>1. PICK t \in Transports : t = o.tr
  BY DEF RemoteInv, TypeInv, IsOp
<1>2. /\ OpStep(m, g) /\ o.pc = "pget" /\ UNCHANGED <<store, remote>>
      /\ \/ op'[m][g].pc \notin BusyPCs
         \/ /\ op'[m][g].pc = "papply" /\ op'[m][g].tr = t
            /\ op'[m][g].known = o.known
            /\ op'[m][g].blob = remote[t].snap /\ remote[t].snap # None
  BY <1>0, <1>1, PullGetStep DEF Rests, Continues, GoesOn
<1>3. o.pc \in BusyPCs
  BY <1>2 DEF OpStep
<1>4. /\ TypeInv /\ TurnInv /\ SnapshotNotOlderThanMeta
      /\ Carries(m, g) /\ OpBelow(m, g)
      /\ o.known \in Nat /\ o.gen \in Nat
      /\ \A u \in Transports :
           /\ TopGen(u) \in Nat /\ store[m].gens[u] \in Nat
           /\ \/ store[m].gens[u] <= TopGen(u)
              \/ u = t /\ o.pc \in {"seal", "put", "move", "rename"}
  BY <1>1, <1>3, BelowBase
<1>5. UNCHANGED staged
  BY DEF PullGet
<1>6. ASSUME \A u \in Transports : TopGen(u)' = TopGen(u)
      PROVE  StoreBelow(m)' /\ OpBelow(m, g)'
  <2>1. OpBelow(m, g)'
    <3>1. remote[t].snap # None => Below(remote[t].snap)
      BY DEF BelowInv
    <3> QED
      BY <1>1, <1>2, <1>4, <1>6, <3>1, RestsBelow DEF OpBelow, Deciding, Below
  <2>2. StoreBelow(m)'
    BY <1>2, <1>4, <1>6 DEF StoreBelow
  <2> QED
    BY <2>1, <2>2
<1> QED
  BY <1>1, <1>2, <1>5, <1>6, BelowKept DEF PushPCs, PullPCs
LEMMA BelowApply ==
    ASSUME Careful, RemoteInv, RemoteInv', BelowInv,
           NEW m \in Machines, NEW g \in Triggers, PullApplyLive(m, g)
    PROVE  BelowInv'
<1> DEFINE o == op[m][g]
<1>0. Orderly /\ "lateFail" \notin Faults
  BY DEF Careful
<1>1. PICK t \in Transports : t = o.tr
  BY DEF RemoteInv, TypeInv, IsOp
<1>2. /\ OpStep(m, g) /\ o.pc = "papply" /\ op'[m][g].pc = "pstamp" /\ op'[m][g].tr = t
      /\ op'[m][g].known = o.known /\ UNCHANGED remote
      /\ store'[m].gens = store[m].gens
  BY <1>0, <1>1, ApplyStep DEF Continues, GoesOn
<1>3. o.pc \in BusyPCs
  BY <1>2 DEF OpStep
<1>4. /\ TypeInv /\ TurnInv /\ SnapshotNotOlderThanMeta
      /\ Carries(m, g) /\ OpBelow(m, g)
      /\ o.known \in Nat /\ o.gen \in Nat
      /\ \A u \in Transports :
           /\ TopGen(u) \in Nat /\ store[m].gens[u] \in Nat
           /\ \/ store[m].gens[u] <= TopGen(u)
              \/ u = t /\ o.pc \in {"seal", "put", "move", "rename"}
  BY <1>1, <1>3, BelowBase
<1>5. \A n \in Machines : staged'[n] # None =>
        \/ staged'[n] = staged[n]
        \/ o.pc = "papply" /\ staged'[n] = o.blob
  BY <1>0, ApplyStep
<1>6. ASSUME \A u \in Transports : TopGen(u)' = TopGen(u)
      PROVE  StoreBelow(m)' /\ OpBelow(m, g)'
  <2>1. OpBelow(m, g)'
    BY <1>1, <1>2, <1>4, <1>6 DEF OpBelow, Deciding
  <2>2. StoreBelow(m)'
    BY <1>2, <1>4, <1>6 DEF StoreBelow
  <2> QED
    BY <2>1, <2>2
<1> QED
  BY <1>1, <1>2, <1>5, <1>6, BelowKept DEF PushPCs, PullPCs
LEMMA BelowNotStaged ==
    ASSUME Careful, RemoteInv, RemoteInv', BelowInv,
           NEW m \in Machines, NEW g \in Triggers, PullNotStaged(m, g)
    PROVE  BelowInv'
<1> DEFINE o == op[m][g]
<1>0. Orderly /\ "lateFail" \notin Faults
  BY DEF Careful
<1>1. PICK t \in Transports : t = o.tr
  BY DEF RemoteInv, TypeInv, IsOp
<1>2. /\ OpStep(m, g) /\ o.pc = "papply" /\ op'[m][g].pc \notin BusyPCs /\ UNCHANGED remote
      /\ store'[m].gens = store[m].gens
  BY <1>0, <1>1, NotStagedStep DEF Ends, Rests
<1>3. o.pc \in BusyPCs
  BY <1>2 DEF OpStep
<1>4. /\ TypeInv /\ TurnInv /\ SnapshotNotOlderThanMeta
      /\ Carries(m, g) /\ OpBelow(m, g)
      /\ o.known \in Nat /\ o.gen \in Nat
      /\ \A u \in Transports :
           /\ TopGen(u) \in Nat /\ store[m].gens[u] \in Nat
           /\ \/ store[m].gens[u] <= TopGen(u)
              \/ u = t /\ o.pc \in {"seal", "put", "move", "rename"}
  BY <1>1, <1>3, BelowBase
<1>5. UNCHANGED staged
  BY DEF PullNotStaged
<1>6. ASSUME \A u \in Transports : TopGen(u)' = TopGen(u)
      PROVE  StoreBelow(m)' /\ OpBelow(m, g)'
  <2>1. OpBelow(m, g)'
    BY <1>2, RestsBelow
  <2>2. StoreBelow(m)'
    BY <1>2, <1>4, <1>6 DEF StoreBelow
  <2> QED
    BY <2>1, <2>2
<1> QED
  BY <1>1, <1>2, <1>5, <1>6, BelowKept DEF PushPCs, PullPCs
LEMMA BelowPullStamp ==
    ASSUME Careful, RemoteInv, RemoteInv', BelowInv,
           NEW m \in Machines, NEW g \in Triggers, PullStamp(m, g)
    PROVE  BelowInv'
<1> DEFINE o == op[m][g]
<1>0. Orderly /\ "lateFail" \notin Faults
  BY DEF Careful
<1>1. PICK t \in Transports : t = o.tr
  BY DEF RemoteInv, TypeInv, IsOp
<1>2. /\ OpStep(m, g) /\ o.pc = "pstamp" /\ op'[m][g].pc \notin BusyPCs /\ UNCHANGED remote
      /\ Generation(m, t, o.known)
  BY <1>0, <1>1, PullStampStep DEF Ends, Rests
<1>3. o.pc \in BusyPCs
  BY <1>2 DEF OpStep
<1>4. /\ TypeInv /\ TurnInv /\ SnapshotNotOlderThanMeta
      /\ Carries(m, g) /\ OpBelow(m, g)
      /\ o.known \in Nat /\ o.gen \in Nat
      /\ \A u \in Transports :
           /\ TopGen(u) \in Nat /\ store[m].gens[u] \in Nat
           /\ \/ store[m].gens[u] <= TopGen(u)
              \/ u = t /\ o.pc \in {"seal", "put", "move", "rename"}
  BY <1>1, <1>3, BelowBase
<1>5. UNCHANGED staged
  BY DEF PullStamp
<1>6. ASSUME \A u \in Transports : TopGen(u)' = TopGen(u)
      PROVE  StoreBelow(m)' /\ OpBelow(m, g)'
  <2>1. OpBelow(m, g)'
    BY <1>2, RestsBelow
  <2>2. StoreBelow(m)'
    BY <1>1, <1>2, <1>4, <1>6 DEF StoreBelow, Generation, OpBelow
  <2> QED
    BY <2>1, <2>2
<1> QED
  BY <1>1, <1>2, <1>5, <1>6, BelowKept DEF PushPCs, PullPCs
LEMMA BelowPullEnds ==
    ASSUME Careful, RemoteInv, RemoteInv', BelowInv,
           NEW m \in Machines, NEW g \in Triggers, PullStage(m, g) \/ PullFail(m, g)
    PROVE  BelowInv'
<1> DEFINE o == op[m][g]
<1>0. Orderly /\ "lateFail" \notin Faults
  BY DEF Careful
<1>1. PICK t \in Transports : t = o.tr
  BY DEF RemoteInv, TypeInv, IsOp
<1>2. /\ OpStep(m, g) /\ o.pc \in PullPCs /\ op'[m][g].pc \notin BusyPCs
      /\ UNCHANGED <<store, remote>>
  BY <1>0, <1>1, PullEnds DEF Ends, Rests
<1>3. o.pc \in BusyPCs
  BY <1>2 DEF OpStep
<1>4. /\ TypeInv /\ TurnInv /\ SnapshotNotOlderThanMeta
      /\ Carries(m, g) /\ OpBelow(m, g)
      /\ o.known \in Nat /\ o.gen \in Nat
      /\ \A u \in Transports :
           /\ TopGen(u) \in Nat /\ store[m].gens[u] \in Nat
           /\ \/ store[m].gens[u] <= TopGen(u)
              \/ u = t /\ o.pc \in {"seal", "put", "move", "rename"}
  BY <1>1, <1>3, BelowBase
<1>5. \A n \in Machines : staged'[n] # None =>
        \/ staged'[n] = staged[n]
        \/ o.pc = "papply" /\ staged'[n] = o.blob
  BY <1>0, PullEnds
<1>6. ASSUME \A u \in Transports : TopGen(u)' = TopGen(u)
      PROVE  StoreBelow(m)' /\ OpBelow(m, g)'
  <2>1. OpBelow(m, g)'
    BY <1>2, RestsBelow
  <2>2. StoreBelow(m)'
    BY <1>2, <1>4, <1>6 DEF PullPCs, StoreBelow
  <2> QED
    BY <2>1, <2>2
<1> QED
  BY <1>1, <1>2, <1>5, <1>6, BelowKept DEF PushPCs, PullPCs
LEMMA BelowClear ==
    ASSUME Careful, RemoteInv, RemoteInv', BelowInv,
           NEW m \in Machines, NEW g \in Triggers, PushMoveClear(m, g)
    PROVE  BelowInv'
<1> DEFINE o == op[m][g]
<1>0. Orderly /\ "lateFail" \notin Faults
  BY DEF Careful
<1>1. PICK t \in Transports : t = o.tr
  BY DEF RemoteInv, TypeInv, IsOp
<1>2. /\ OpStep(m, g) /\ o.pc = "move" /\ op'[m][g].pc = "rename" /\ op'[m][g].tr = t
      /\ op'[m][g].known = o.known /\ op'[m][g].gen = o.gen
      /\ op'[m][g].blob = o.blob /\ UNCHANGED store
      /\ remote'[t].snap = None /\ remote'[t].meta = remote[t].meta
  BY <1>0, <1>1, ClearStep DEF Continues, GoesOn, Keeps
<1>3. o.pc \in BusyPCs
  BY <1>2 DEF OpStep
<1>4. /\ TypeInv /\ TurnInv /\ SnapshotNotOlderThanMeta
      /\ Carries(m, g) /\ OpBelow(m, g)
      /\ o.known \in Nat /\ o.gen \in Nat
      /\ \A u \in Transports :
           /\ TopGen(u) \in Nat /\ store[m].gens[u] \in Nat
           /\ \/ store[m].gens[u] <= TopGen(u)
              \/ u = t /\ o.pc \in {"seal", "put", "move", "rename"}
  BY <1>1, <1>3, BelowBase
<1>5. UNCHANGED staged
  BY DEF PushMoveClear
<1>6. \A u \in Transports : TopGen(u)' = TopGen(u)
  <2> SUFFICES ASSUME NEW u \in Transports PROVE TopGen(u)' = TopGen(u)
    OBVIOUS
  <2>1. CASE u = t
    <3>1. TopGen(t) = remote[t].meta
      BY <1>1, <1>2, SettledBefore DEF PushPCs
    <3> QED
      BY <1>2, <2>1, <3>1 DEF TopGen
  <2>2. CASE u # t
    <3>1. remote'[u] = remote[u]
      BY <1>1, <1>2, <2>2 DEF OpStep, RemoteOf
    <3> QED
      BY <3>1, TopSame
  <2> QED
    BY <2>1, <2>2
<1>7. OpBelow(m, g)'
  BY <1>1, <1>2, <1>4, <1>6 DEF OpBelow, Deciding
<1>8. StoreBelow(m)'
  <2>1. Counted(m, t)'
    BY <1>1, <1>2 DEF Counted
  <2> QED
    BY <1>2, <1>4, <1>6, <2>1 DEF StoreBelow
<1>9. Later
  BY <1>4, <1>6 DEF Later
<1> QED
  BY <1>1, <1>2, <1>5, <1>7, <1>8, <1>9, BelowStep
LEMMA BelowLand ==
    ASSUME Careful, RemoteInv, RemoteInv', BelowInv,
           NEW m \in Machines, NEW g \in Triggers, Lands(m, g)
    PROVE  BelowInv'
<1> DEFINE o == op[m][g]
<1>0. Orderly /\ "lateFail" \notin Faults
  BY DEF Careful
<1>1. PICK t \in Transports : t = o.tr
  BY DEF RemoteInv, TypeInv, IsOp
<1>2. /\ OpStep(m, g) /\ o.pc \in {"move", "rename"} /\ op'[m][g].pc = "meta" /\ op'[m][g].tr = t
      /\ op'[m][g].gen = o.gen /\ op'[m][g].blob = o.blob /\ UNCHANGED store
      /\ remote'[t].snap = o.blob /\ remote'[t].meta = remote[t].meta
  BY <1>0, <1>1, LandStep DEF Continues, GoesOn, Keeps
<1>3. o.pc \in BusyPCs
  BY <1>2 DEF OpStep
<1>4. /\ TypeInv /\ TurnInv /\ SnapshotNotOlderThanMeta
      /\ Carries(m, g) /\ OpBelow(m, g)
      /\ o.known \in Nat /\ o.gen \in Nat
      /\ \A u \in Transports :
           /\ TopGen(u) \in Nat /\ store[m].gens[u] \in Nat
           /\ \/ store[m].gens[u] <= TopGen(u)
              \/ u = t /\ o.pc \in {"seal", "put", "move", "rename"}
  BY <1>1, <1>3, BelowBase
<1>5. UNCHANGED staged
  BY DEF Lands, PushMove, PushRename, PushMoveFallback
<1>6. /\ o.blob \in Store /\ o.blob # None
      /\ o.blob.gens[t] = o.gen /\ store[m].gens[t] = o.gen
      /\ o.gen > remote[t].meta /\ remote[t].meta \in Nat
  BY <1>1, <1>2, <1>4, NoneAssumption, GensTyped
  DEF TypeInv, IsOp, Carries, Deciding, OpBelow
<1>7. TopGen(t)' = o.gen /\ TopGen(t) < o.gen
  <2>1. TopGen(t) = remote[t].meta
    BY <1>1, <1>2, SettledBefore DEF PushPCs
  <2> QED
    BY <1>2, <1>6, <2>1 DEF TopGen
<1>8. \A u \in Transports : u # t => TopGen(u)' = TopGen(u)
  <2> SUFFICES ASSUME NEW u \in Transports, u # t PROVE TopGen(u)' = TopGen(u)
    OBVIOUS
  <2>1. remote'[u] = remote[u]
    BY <1>1, <1>2 DEF OpStep, RemoteOf
  <2> QED
    BY <2>1, TopSame
<1>9. Later
  BY <1>4, <1>7, <1>8 DEF Later
<1>10. Below(remote[t].snap)' /\ Committing(t)'
  <2>1. Committing(t)'
    BY <1>1, <1>2 DEF Committing
  <2>2. \A u \in Transports : o.blob.gens[u] <= TopGen(u)'
    BY <1>1, <1>2, <1>4, <1>6, <1>7, <1>8 DEF OpBelow
  <2> QED
    BY <1>2, <2>1, <2>2 DEF Below
<1>11. OpBelow(m, g)'
  BY <1>1, <1>2, <1>6 DEF OpBelow, Deciding
<1>12. StoreBelow(m)'
  BY <1>2, <1>4, <1>6, <1>7, <1>8 DEF StoreBelow
<1> QED
  BY <1>1, <1>2, <1>5, <1>9, <1>10, <1>11, <1>12, BelowStep
LEMMA BelowMeta ==
    ASSUME Careful, RemoteInv, RemoteInv', BelowInv,
           NEW m \in Machines, NEW g \in Triggers, PushMeta(m, g)
    PROVE  BelowInv'
<1> DEFINE o == op[m][g]
<1>0. Orderly /\ "lateFail" \notin Faults
  BY DEF Careful
<1>1. PICK t \in Transports : t = o.tr
  BY DEF RemoteInv, TypeInv, IsOp
<1>2. /\ OpStep(m, g) /\ o.pc = "meta" /\ op'[m][g].pc = "stamp" /\ UNCHANGED store
      /\ remote'[t].snap = remote[t].snap /\ remote'[t].meta = o.gen
  BY <1>0, <1>1, MetaStep DEF Continues
<1>3. o.pc \in BusyPCs
  BY <1>2 DEF OpStep
<1>4. /\ TypeInv /\ TurnInv /\ SnapshotNotOlderThanMeta
      /\ Carries(m, g) /\ OpBelow(m, g)
      /\ o.known \in Nat /\ o.gen \in Nat
      /\ \A u \in Transports :
           /\ TopGen(u) \in Nat /\ store[m].gens[u] \in Nat
           /\ \/ store[m].gens[u] <= TopGen(u)
              \/ u = t /\ o.pc \in {"seal", "put", "move", "rename"}
  BY <1>1, <1>3, BelowBase
<1>5. UNCHANGED staged
  BY DEF PushMeta
<1>6. remote[t].snap = o.blob /\ o.blob.gens[t] = o.gen /\ o.blob # None
  BY <1>1, <1>2, <1>4, NoneAssumption DEF TypeInv, IsOp, Carries
<1>7. \A u \in Transports : TopGen(u)' = TopGen(u)
  BY <1>1, <1>2, <1>6, TopSame DEF TopGen, OpStep, RemoteOf
<1>8. Below(remote[t].snap)'
  BY <1>2, <1>6, <1>7 DEF BelowInv, Below
<1>9. OpBelow(m, g)'
  BY <1>2 DEF OpBelow, Deciding
<1>10. StoreBelow(m)'
  BY <1>2, <1>4, <1>7 DEF StoreBelow
<1>11. Later
  BY <1>4, <1>7 DEF Later
<1> QED
  BY <1>1, <1>2, <1>5, <1>6, <1>8, <1>9, <1>10, <1>11, BelowStep
\* The remotes and what is under way stay; no store gets ahead.
LEMMA BelowFrame ==
    ASSUME RemoteInv, RemoteInv', BelowInv, UNCHANGED remote,
           \A n \in Machines : staged'[n] # None => staged'[n] = staged[n],
           \A n \in Machines :
             \/ /\ \A u \in Transports : store'[n].gens[u] = store[n].gens[u]
                /\ \A h \in Triggers :
                     op[n][h].pc \in BusyPCs => store'[n].gens = store[n].gens
             \/ /\ \A h \in Triggers : op[n][h].pc \notin BusyPCs
                /\ \A u \in Transports : store'[n].gens[u] <= TopGen(u),
           \A n \in Machines, h \in Triggers :
             \/ op'[n][h] = op[n][h]
             \/ /\ op[n][h].pc \notin BusyPCs
                /\ (\A u \in Transports : TopGen(u)' = TopGen(u)) => OpBelow(n, h)'
    PROVE  BelowInv'
<1>0. TypeInv
  BY DEF RemoteInv
<1>1. \A u \in Transports : TopGen(u)' = TopGen(u) /\ TopGen(u) \in Nat
  BY <1>0, GensTyped DEF TopGen
<1>2. \A n \in Machines, h \in Triggers : op[n][h].pc \in BusyPCs => op'[n][h] = op[n][h]
  OBVIOUS
<1>3. ASSUME NEW u \in Transports, remote'[u].snap # None
      PROVE  /\ Below(remote[u].snap)'
             /\ ~Committing(u)' => remote'[u].snap.gens[u] = remote'[u].meta
  <2>1. Committing(u) => Committing(u)'
    BY <1>2 DEF Committing, BusyPCs, PushPCs
  <2> QED
    BY <1>1, <1>3, <2>1 DEF BelowInv, Below
<1>4. ASSUME NEW n \in Machines, staged'[n] # None
      PROVE  Below(staged[n])'
  BY <1>1, <1>4 DEF BelowInv, Below
<1>5. \A n \in Machines, u \in Transports :
        store'[n].gens[u] <= TopGen(u)' \/ Counted(n, u)'
  <2> SUFFICES ASSUME NEW n \in Machines, NEW u \in Transports
               PROVE  store'[n].gens[u] <= TopGen(u)' \/ Counted(n, u)'
    OBVIOUS
  <2>1. Counted(n, u) => Counted(n, u)' /\ \E h \in Triggers : op[n][h].pc \in BusyPCs
    BY <1>2 DEF Counted, BusyPCs, PushPCs
  <2>2. store[n].gens[u] <= TopGen(u) \/ Counted(n, u)
    BY DEF BelowInv
  <2> QED
    BY <1>1, <2>1, <2>2
<1>6. \A n \in Machines, h \in Triggers : OpBelow(n, h)'
  <2> SUFFICES ASSUME NEW n \in Machines, NEW h \in Triggers
               PROVE  OpBelow(n, h)'
    OBVIOUS
  <2>1. CASE op'[n][h] = op[n][h] /\ op[n][h].pc \in BusyPCs
    <3>1. OpBelow(n, h)
      BY DEF BelowInv
    <3>2. store'[n].gens = store[n].gens
      BY <2>1
    <3>3. \A u \in Transports : TopGen(u) \in Nat /\ TopGen(u)' \in Nat
                                /\ TopGen(u) <= TopGen(u)'
      BY <1>1
    <3> QED
      BY <1>0, <2>1, <3>1, <3>2, <3>3, OpBelowFrame
  <2>2. CASE op'[n][h] = op[n][h] /\ op[n][h].pc \notin BusyPCs
    BY <2>2, RestsBelow
  <2>3. CASE op'[n][h] # op[n][h]
    BY <1>1, <2>3
  <2> QED
    BY <2>1, <2>2, <2>3
<1> QED
  BY <1>3, <1>4, <1>5, <1>6 DEF BelowInv

LEMMA BelowBegin ==
    ASSUME Careful, RemoteInv, RemoteInv', BelowInv,
           NEW m \in Machines, NEW g \in Triggers,
           Begins(m, g)
    PROVE  BelowInv'
<1>0. TypeInv /\ Orderly
  BY DEF RemoteInv, Careful
<1>1. /\ \A h \in Triggers : op[m][h].pc \notin BusyPCs
      /\ Turns(m, g, op'[m][g]) /\ op'[m][g].pc \in {"fetch", "pmeta"}
      /\ op'[m][g].tr = store[m].transport
      /\ op'[m][g].pc = "fetch" => op'[m][g].known = store[m].gens[op'[m][g].tr]
      /\ UNCHANGED <<store, staged, remote>>
  BY <1>0, BeginStep DEF Starts
<1>2. store[m].transport \in Transports
  BY <1>0 DEF TypeInv, Store
<1>3. \A u \in Transports : store[m].gens[u] <= TopGen(u)
  BY <1>1 DEF BelowInv, Counted, BusyPCs, PushPCs
<1>4. ASSUME \A u \in Transports : TopGen(u)' = TopGen(u)
      PROVE  OpBelow(m, g)'
  BY <1>1, <1>2, <1>3, <1>4 DEF OpBelow, Deciding
<1>5. \A n \in Machines, h \in Triggers : n # m \/ h # g => op'[n][h] = op[n][h]
  BY <1>1 DEF Turns
<1>6. \A n \in Machines, h \in Triggers :
        \/ op'[n][h] = op[n][h]
        \/ /\ op[n][h].pc \notin BusyPCs
           /\ (\A u \in Transports : TopGen(u)' = TopGen(u)) => OpBelow(n, h)'
  BY <1>1, <1>4, <1>5
<1> QED
  BY <1>1, <1>6, BelowFrame

LEMMA BelowOutside ==
    ASSUME Careful, RemoteInv, RemoteInv', BelowInv, NEW m \in Machines,
           \/ \E e \in Edits : Edit(m, e)
           \/ \E t \in Transports : SetTransport(m, t)
           \/ Loop(m) \/ RemoteCheckFails(m)
           \/ Restart(m)
    PROVE  BelowInv'
<1>0. TypeInv /\ Orderly /\ "crash" \notin Faults
  BY DEF RemoteInv, Careful
<1>1. CASE \E e \in Edits : Edit(m, e)
  <2>1. StoreOf(m) /\ store'[m].gens = store[m].gens /\ UNCHANGED <<op, staged, remote>>
    BY <1>0, <1>1, EditStep DEF Edit
  <2> QED
    BY <2>1, BelowFrame DEF StoreOf
<1>2. CASE \E t \in Transports : SetTransport(m, t)
  <2>1. /\ store'[m].gens = store[m].gens
        /\ \A n \in Machines : n # m => store'[n] = store[n]
        /\ UNCHANGED <<op, staged, remote>>
    BY <1>0, <1>2, SwitchStep DEF SetTransport
  <2> QED
    BY <2>1, BelowFrame
<1>3. CASE Loop(m) \/ RemoteCheckFails(m)
  <2>1. /\ "auto" \in Triggers /\ op[m]["auto"].pc \notin BusyPCs
        /\ Turns(m, "auto", op'[m]["auto"]) /\ Rests(op'[m]["auto"])
        /\ UNCHANGED <<store, staged, remote>>
    BY <1>0, <1>3, TickStep
  <2>2. OpBelow(m, "auto")'
    BY <2>1, RestsBelow DEF Rests
  <2>3. \A n \in Machines, h \in Triggers :
          \/ op'[n][h] = op[n][h]
          \/ op[n][h].pc \notin BusyPCs /\ OpBelow(n, h)'
    BY <2>1, <2>2 DEF Turns
  <2> QED
    BY <2>1, <2>3, BelowFrame
<1>4. CASE Restart(m)
  <2>1. \A h \in Triggers : op[m][h].pc \notin BusyPCs
    BY <1>0, <1>4 DEF Restart, Busy, BusyPCs
  <2>2. /\ \A g \in Triggers : Rests(op'[m][g])
        /\ \A n \in Machines : n # m => op'[n] = op[n]
        /\ \A n \in Machines : n # m => store'[n] = store[n] /\ staged'[n] = staged[n]
        /\ staged'[m] = None /\ UNCHANGED remote
        /\ \/ UNCHANGED store
           \/ staged[m] \in Store /\ store'[m] = staged[m]
    BY <1>0, <1>4, RestartStep
  <2>3. \A n \in Machines, h \in Triggers :
          \/ op'[n][h] = op[n][h]
          \/ op[n][h].pc \notin BusyPCs /\ OpBelow(n, h)'
    BY <2>1, <2>2, RestsBelow DEF Rests
  <2>4. \/ UNCHANGED store
        \/ \A u \in Transports : store'[m].gens[u] <= TopGen(u)
    BY <2>2, NoneAssumption DEF BelowInv, Below
  <2> QED
    BY <2>1, <2>2, <2>3, <2>4, BelowFrame
<1> QED
  BY <1>1, <1>2, <1>3, <1>4

LEMMA BelowInit == Init => BelowInv
<1> SUFFICES ASSUME Init PROVE BelowInv
  OBVIOUS
<1>1. \A t \in Transports : TopGen(t) = 0
  BY DEF Init, TopGen
<1>2. \A m \in Machines, g \in Triggers : op[m][g].pc \in {"idle", "check"}
  BY DEF Init, Started, Idle
<1>3. \A m \in Machines, g \in Triggers : OpBelow(m, g)
  BY <1>2 DEF OpBelow, Deciding
<1> QED
  BY <1>1, <1>3 DEF Init, BelowInv

\* Careful excludes the steps that leave a snapshot without its generation.
LEMMA NotLate ==
    ASSUME Careful, NEW m \in Machines, NEW g \in Triggers
    PROVE  ~PushMetaLost(m, g)
BY DEF Careful, PushMetaLost

LEMMA BelowNext ==
    ASSUME Careful, RemoteInv, BelowInv, [Next]_vars
    PROVE  BelowInv'
<1>0. Orderly /\ RemoteInv'
  BY RemoteNext DEF Careful
<1>1. CASE UNCHANGED <<store, staged, remote, op>>
  BY <1>1 DEF BelowInv, Below, OpBelow, Committing, Counted, TopGen
<1>2. CASE Next
  <2>1. PICK m \in Machines :
          \/ \E e \in Edits : Edit(m, e)
          \/ \E t \in Transports : SetTransport(m, t)
          \/ \E g \in Triggers, f \in BOOLEAN : BeginPush(m, g, f)
          \/ \E g \in Triggers : PushStep(m, g) \/ PullStep(m, g) \/ FailStep(m, g)
          \/ Offer(m) \/ \E g \in Triggers : BeginsPull(m, g)
          \/ Loop(m) \/ RemoteCheckFails(m)
          \/ Restart(m)
    BY <1>2 DEF Next, BeginsPull
  <2>2. CASE \E g \in Triggers, f \in BOOLEAN : BeginPush(m, g, f)
    BY <1>0, <2>2, BelowBegin DEF Begins
  <2>3. CASE \E g \in Triggers : BeginsPull(m, g)
    BY <1>0, <2>3, BelowBegin DEF Begins
  <2>4. CASE \E g \in Triggers : PushStep(m, g) \/ PullStep(m, g) \/ FailStep(m, g)
    <3>1. PICK g \in Triggers : PushStep(m, g) \/ PullStep(m, g) \/ FailStep(m, g)
      BY <2>4
    <3>2. CASE PushStep(m, g)
      BY <1>0, <3>2, BelowFetch, BelowGivesUp, BelowPersist, BelowSeal, BelowPut,
         BelowClear, BelowLand, BelowMeta, BelowStamp
      DEF PushStep, GivesUp, Lands
    <3>3. CASE PullStep(m, g)
      BY <1>0, <3>3, BelowPullMeta, BelowPullGet, BelowApply, BelowPullStamp,
         BelowPullEnds
      DEF PullStep
    <3>4. CASE FailStep(m, g)
      BY <1>0, <3>4, BelowGivesUp, NotLate, BelowPullEnds, BelowNotStaged
      DEF FailStep, GivesUp
    <3> QED
      BY <3>1, <3>2, <3>3, <3>4
  <2> QED
    BY <1>0, <1>1, <2>1, <2>2, <2>3, <2>4, BelowOutside DEF Offer
<1> QED
  BY <1>1, <1>2 DEF vars

\* Rollbacks and restored settings leave no machine ahead of a remote it syncs
\* with, so the guard refuses no push for ever: for any number of machines,
\* backends and failed operations, with edits at any moment.
THEOREM NobodyAhead ==
    ASSUME Careful
    PROVE  Spec => []NeverFalselyAhead
<1>1. Init => RemoteInv /\ BelowInv
  BY RemoteInit, BelowInit
<1>2. RemoteInv /\ BelowInv /\ [Next]_vars => RemoteInv' /\ BelowInv'
  BY RemoteNext, BelowNext DEF Careful
<1>3. RemoteInv /\ BelowInv => NeverFalselyAhead
  <2> SUFFICES ASSUME RemoteInv, BelowInv, NEW m \in Machines, NEW t \in Transports,
                      ~Busy(m), Pushing(t) = {}
               PROVE  store[m].gens[t] <= remote[t].meta
    BY DEF NeverFalselyAhead
  <2>1. ~Committing(t)
    <3> SUFFICES ASSUME NEW n \in Machines, NEW h \in Triggers,
                        op[n][h].pc = "meta", op[n][h].tr = t
                 PROVE  <<n, h>> \in Pushing(t)
      BY DEF Committing
    <3> QED
      BY DEF Pushing, PushPCs
  <2>2. ~Counted(m, t)
    BY DEF Counted, Busy, PushPCs
  <2>3. TopGen(t) = remote[t].meta
    BY <2>1 DEF BelowInv, TopGen
  <2> QED
    BY <2>2, <2>3 DEF BelowInv
<1> QED
  BY <1>1, <1>2, <1>3, PTL DEF Spec
-----------------------------------------------------------------------------
(* Whose profile is the newest: a single backend, and no edit while an     *)
(* operation of the machine is under way.                                  *)

\* The edits that are safe on the backend.
Held == shipped \cup TopContent(Webdav)

\* A snapshot of the newest generation has the newest profile.
Fits(s) == /\ s.gens[Webdav] = TopGen(Webdav) => s.content = TopContent(Webdav)
           /\ s.content \subseteq Held

\* If m is at generation k, and that is the newest, it has all of the newest
\* profile, and if it is clean nothing else that the fingerprint sees.
AtGen(m, k) ==
    k = TopGen(Webdav) =>
      /\ TopContent(Webdav) \subseteq store[m].content
      /\ k # 0 /\ ~syncDirty(m) =>
           syncFingerprint(m) = ContentFingerprint(TopContent(Webdav))

\* What is on the backend has been made, and once it is committed, shipped.
RemHolds ==
    /\ Held \subseteq made
    /\ committed[Webdav] \subseteq shipped
    /\ remote[Webdav].meta = 0 => committed[Webdav] = {}
    /\ remote[Webdav].snap # None /\ ~Committing(Webdav) =>
         remote[Webdav].snap.content = committed[Webdav]

MachHolds(m) ==
    /\ store[m].content \subseteq made
    /\ stamp[m] # None => stamp[m] \subseteq Held
    /\ staged[m] # None => Fits(staged[m])
    /\ AtGen(m, store[m].gens[Webdav])

\* A push that fails leaves its machine where it was, and one that is not
\* forced has every edit it replaces; a pull brings a profile that fits the
\* generation it brings, and a quick one drops nothing it was offered about
\* that is not safe.
OpHolds(m, g) ==
    LET o == op[m][g]
        c == store[m].content
    IN /\ o.pc \in Deciding \cup {"fetch"} => AtGen(m, o.known)
       /\ o.pc \in Deciding \cup {"meta"} /\ ~o.force => committed[Webdav] \subseteq c
       /\ o.pc \in {"put", "move", "rename", "meta"} => o.blob.content = c
       /\ o.pc = "stamp" => /\ c \subseteq shipped
                            /\ store[m].gens[Webdav] = TopGen(Webdav) =>
                                 c = TopContent(Webdav)
       /\ o.pc \in {"pmeta", "pget", "papply"} /\ o.mode = "quick" =>
            o.answer \subseteq Held
       /\ o.pc = "papply" => /\ Fits(o.blob)
                             /\ o.blob.gens[Webdav] >= o.known
                             /\ o.blob.gens[Webdav] >= store[m].gens[Webdav]
                             /\ o.mode = "quick" =>
                                  o.answer \ o.blob.content \subseteq shipped
       /\ o.pc = "pstamp" => /\ c \subseteq Held
                             /\ o.known = TopGen(Webdav) => c = TopContent(Webdav)

ContentInv ==
    /\ DOMAIN stamp = Machines
    /\ DOMAIN committed = Transports /\ DOMAIN forced = Transports
    /\ RemHolds
    /\ \A m \in Machines : MachHolds(m)
    /\ \A m \in Machines, g \in Triggers : OpHolds(m, g)

\* What a step owes the layer; nothing that was safe gets lost.
ContentStep == ContentInv' /\ Held \subseteq Held'

\* An offer was made about a profile that is safe.
OfferInv ==
    /\ DOMAIN offered = Machines
    /\ \A m \in Machines : offered[m] # None => offered[m] \subseteq Held

LEMMA QuietIsCareful == Quiet => Careful
BY DEF Quiet, Careful, Orderly

LEMMA RestsHolds ==
    ASSUME NEW n \in Machines, NEW h \in Triggers, op'[n][h].pc \notin BusyPCs
    PROVE  OpHolds(n, h)'
BY DEF OpHolds, Deciding, BusyPCs, PushPCs, PullPCs

\* With one backend there is one push at a time.
LEMMA OnePush ==
    ASSUME Quiet, RemoteInv, NEW m \in Machines, NEW g \in Triggers,
           NEW n \in Machines, NEW h \in Triggers,
           op[m][g].pc \in PushPCs, op[n][h].pc \in PushPCs
    PROVE  n = m /\ h = g
<1>1. op[m][g].tr = Webdav /\ op[n][h].tr = Webdav
  BY DEF Quiet, RemoteInv, TypeInv, IsOp
<1>2. n = m
  BY <1>1 DEF RemoteInv, TurnInv
<1> QED
  BY <1>2 DEF RemoteInv, TurnInv, BusyPCs

\* Nothing is newer than before, or something is and it holds as much.
SameTop == TopGen(Webdav)' = TopGen(Webdav) /\ TopContent(Webdav)' = TopContent(Webdav)

Grows ==
    /\ Held \subseteq Held' /\ shipped \subseteq shipped' /\ made \subseteq made'
    /\ SameTop \/ TopGen(Webdav)' > TopGen(Webdav)

LEMMA FitsFrame ==
    ASSUME Quiet, RemoteInv, Grows, NEW s \in Store, Below(s), Fits(s)
    PROVE  Fits(s)'
<1>1. Webdav \in Transports /\ TopGen(Webdav) \in Nat
  BY GensTyped, SyncAssumption DEF RemoteInv
<1>2. s.gens[Webdav] \in Nat /\ s.gens[Webdav] <= TopGen(Webdav)
  BY <1>1 DEF Below, Store
<1>3. TopGen(Webdav)' > TopGen(Webdav) => s.gens[Webdav] # TopGen(Webdav)'
  <2> DEFINE T1 == TopGen(Webdav)'
  <2> HIDE DEF T1
  <2>1. T1 > TopGen(Webdav) => s.gens[Webdav] # T1
    BY <1>1, <1>2
  <2> QED
    BY <2>1 DEF T1
<1> QED
  BY <1>3 DEF Fits, Grows, SameTop

LEMMA AtGenFrame ==
    ASSUME Quiet, RemoteInv, Grows, NEW n \in Machines, NEW k \in Nat, AtGen(n, k),
           SameTop \/ k <= TopGen(Webdav),
           store'[n].content = store[n].content, stamp'[n] = stamp[n]
    PROVE  AtGen(n, k)'
<1>1. TopGen(Webdav) \in Nat
  BY GensTyped, SyncAssumption DEF RemoteInv
<1>2. CASE SameTop
  BY <1>2 DEF AtGen, SameTop, syncDirty, syncFingerprint
<1>3. CASE ~SameTop
  <2>1. TopGen(Webdav)' > TopGen(Webdav) /\ k <= TopGen(Webdav)
    BY <1>3 DEF Grows
  <2>2. k # TopGen(Webdav)'
    <3> DEFINE T1 == TopGen(Webdav)'
    <3> HIDE DEF T1
    <3>1. T1 > TopGen(Webdav) => k # T1
      BY <1>1, <2>1
    <3> QED
      BY <2>1, <3>1 DEF T1
  <2> QED
    BY <2>2 DEF AtGen
<1> QED
  BY <1>2, <1>3

LEMMA MachFrame ==
    ASSUME Quiet, RemoteInv, BelowInv, Grows, NEW n \in Machines, MachHolds(n),
           SameTop \/ ~Counted(n, Webdav),
           store'[n] = store[n], stamp'[n] = stamp[n], staged'[n] = staged[n]
    PROVE  MachHolds(n)'
<1>1. store[n].gens[Webdav] \in Nat /\ (staged[n] # None => staged[n] \in Store)
  BY GensTyped, SyncAssumption DEF RemoteInv
<1>2. staged'[n] # None => Fits(staged[n])'
  <2>1. ASSUME NEW s \in Store, s = staged[n], s # None
        PROVE  Fits(s)'
    BY <2>1, FitsFrame DEF BelowInv, MachHolds
  <2> QED
    BY <1>1, <2>1 DEF Fits
<1>3. AtGen(n, store[n].gens[Webdav])'
  <2>1. ASSUME NEW k \in Nat, k = store[n].gens[Webdav]
        PROVE  AtGen(n, k)'
    <3>1. SameTop \/ k <= TopGen(Webdav)
      BY <2>1, SyncAssumption DEF BelowInv
    <3> QED
      BY <2>1, <3>1, AtGenFrame DEF MachHolds
  <2> QED
    BY <1>1, <2>1 DEF AtGen
<1> QED
  BY <1>2, <1>3 DEF MachHolds, Grows

LEMMA OpFrame ==
    ASSUME Quiet, RemoteInv, BelowInv, Grows, NEW n \in Machines, NEW h \in Triggers,
           OpHolds(n, h), op'[n][h] = op[n][h],
           store'[n] = store[n], stamp'[n] = stamp[n],
           op[n][h].pc \in PushPCs =>
             SameTop /\ committed'[Webdav] = committed[Webdav]
    PROVE  OpHolds(n, h)'
<1> DEFINE o == op[n][h]
           c == store[n].content
<1>0. /\ TypeInv /\ OpBelow(n, h) /\ o.tr = Webdav /\ o.known \in Nat
      /\ o.pc \in {"put", "move", "rename", "meta", "papply"} => o.blob \in Store
      /\ TopGen(Webdav) \in Nat
  <2>1. TypeInv /\ OpBelow(n, h) /\ Webdav \in Transports
    BY SyncAssumption DEF RemoteInv, BelowInv
  <2>2. IsOp(o)
    BY <2>1 DEF TypeInv
  <2> QED
    BY <2>1, <2>2, GensTyped DEF Quiet, IsOp
<1>1. o.pc \in Deciding \cup {"fetch"} => AtGen(n, o.known)'
  <2>1. ASSUME o.pc \in PushPCs, NEW k \in Nat, AtGen(n, k)
        PROVE  AtGen(n, k)'
    BY <2>1, AtGenFrame
  <2>2. \A k \in Nat : o.pc \in PushPCs /\ AtGen(n, k) => AtGen(n, k)'
    BY <2>1
  <2>3. o.pc \in Deciding \cup {"fetch"} => o.pc \in PushPCs /\ AtGen(n, o.known)
    BY DEF OpHolds, Deciding, PushPCs
  <2>4. PICK k \in Nat : k = o.known
    BY <1>0
  <2> QED
    BY <2>2, <2>3, <2>4 DEF AtGen
<1>2. o.pc \in Deciding \cup {"meta"} /\ ~o.force => committed'[Webdav] \subseteq c
  BY DEF OpHolds, Deciding, PushPCs
<1>3. o.pc \in {"put", "move", "rename", "meta"} => o.blob.content = c
  BY DEF OpHolds
<1>4. o.pc = "stamp" => /\ c \subseteq shipped'
                        /\ store[n].gens[Webdav] = TopGen(Webdav)' =>
                             c = TopContent(Webdav)'
  BY DEF OpHolds, PushPCs, SameTop, Grows
<1>5. o.pc \in {"pmeta", "pget", "papply"} /\ o.mode = "quick" => o.answer \subseteq Held'
  BY DEF OpHolds, Grows
<1>6. o.pc = "papply" =>
        /\ Fits(o.blob)'
        /\ o.blob.gens[Webdav] >= o.known
        /\ o.blob.gens[Webdav] >= store[n].gens[Webdav]
        /\ o.mode = "quick" => o.answer \ o.blob.content \subseteq shipped'
  <2>1. ASSUME NEW s \in Store, Below(s), Fits(s)
        PROVE  Fits(s)'
    BY <2>1, FitsFrame
  <2>2. o.pc = "papply" => Fits(o.blob)'
    <3> SUFFICES ASSUME o.pc = "papply"
                 PROVE  Fits(op[n][h].blob)'
      OBVIOUS
    <3>1. PICK s \in Store : s = o.blob
      BY <1>0
    <3>2. Fits(s)'
      BY <1>0, <2>1, <3>1 DEF OpBelow, OpHolds
    <3> QED
      BY <3>1, <3>2 DEF Fits
  <2> QED
    BY <2>2 DEF OpHolds, Grows
<1>7. o.pc = "pstamp" => /\ c \subseteq Held'
                         /\ o.known = TopGen(Webdav)' => c = TopContent(Webdav)'
  <2> DEFINE T1 == TopGen(Webdav)'
  <2>1. o.pc = "pstamp" => o.known <= TopGen(Webdav)
    BY <1>0 DEF OpBelow, Deciding
  <2>2. CASE SameTop
    BY <2>2 DEF OpHolds, SameTop, Grows
  <2>3. CASE T1 > TopGen(Webdav)
    <3> HIDE DEF T1
    <3>1. o.pc = "pstamp" => o.known # T1
      BY <1>0, <2>1, <2>3
    <3> QED
      BY <3>1 DEF T1, OpHolds, Grows
  <2> QED
    BY <2>2, <2>3 DEF Grows
<1> QED
  BY <1>1, <1>2, <1>3, <1>4, <1>5, <1>6, <1>7 DEF OpHolds, AtGen, Fits

\* What a step on m owes ContentInv.
LEMMA ContentFrame ==
    ASSUME Quiet, RemoteInv, BelowInv, ContentInv, NEW m \in Machines,
           Grows, RemHolds', DOMAIN stamp' = Machines,
           DOMAIN committed' = Transports, DOMAIN forced' = Transports,
           \A n \in Machines : n # m =>
             /\ store'[n] = store[n] /\ stamp'[n] = stamp[n] /\ staged'[n] = staged[n]
             /\ \A h \in Triggers : op'[n][h] = op[n][h],
           \/ SameTop /\ committed'[Webdav] = committed[Webdav]
           \/ \E g \in Triggers : op[m][g].pc \in PushPCs,
           MachHolds(m)', \A h \in Triggers : OpHolds(m, h)'
    PROVE  ContentStep
<1>1. ASSUME NEW n \in Machines, n # m, NEW h \in Triggers, op[n][h].pc \in PushPCs
      PROVE  SameTop /\ committed'[Webdav] = committed[Webdav]
  BY <1>1, OnePush
<1>2. ASSUME NEW n \in Machines, n # m
      PROVE  MachHolds(n)'
  <2>1. SameTop \/ ~Counted(n, Webdav)
    BY <1>1, <1>2 DEF Counted, PushPCs
  <2> QED
    BY <1>2, <2>1, MachFrame DEF ContentInv
<1>3. ASSUME NEW n \in Machines, n # m, NEW h \in Triggers
      PROVE  OpHolds(n, h)'
  BY <1>1, <1>3, OpFrame DEF ContentInv
<1>4. \A n \in Machines : MachHolds(n)'
  BY <1>2
<1>5. \A n \in Machines, h \in Triggers : OpHolds(n, h)'
  BY <1>3
<1> QED
  BY <1>4, <1>5 DEF ContentInv, ContentStep, Grows

\* What a step of an operation owes it when it leaves snapshot and generation
\* of the backend alone.
LEMMA ContentKept ==
    ASSUME Quiet, RemoteInv, BelowInv, ContentInv,
           NEW m \in Machines, NEW g \in Triggers, OpStep(m, g),
           op[m][g].pc # "meta",
           remote'[Webdav].snap = remote[Webdav].snap,
           remote'[Webdav].meta = remote[Webdav].meta, UNCHANGED <<commits, made>>,
           DOMAIN stamp' = Machines,
           \A n \in Machines : n # m => stamp'[n] = stamp[n] /\ staged'[n] = staged[n],
           SameTop /\ Held' = Held => MachHolds(m)' /\ OpHolds(m, g)'
    PROVE  ContentStep
<1>0. TypeInv /\ TurnInv
  BY DEF RemoteInv
<1>1. SameTop /\ Held' = Held
  BY DEF SameTop, TopGen, TopContent, commits, Held
<1>2. Grows
  BY <1>1 DEF Grows, commits
<1>3. RemHolds'
  <2>1. Committing(Webdav) => Committing(Webdav)'
    <3> SUFFICES ASSUME NEW n \in Machines, NEW h \in Triggers, op[n][h].pc = "meta"
                 PROVE  op'[n][h] = op[n][h]
      BY DEF Committing
    <3> QED
      BY DEF OpStep, Turns
  <2> QED
    BY <1>1, <2>1 DEF ContentInv, RemHolds, commits
<1>4. \A h \in Triggers : OpHolds(m, h)'
  <2> SUFFICES ASSUME NEW h \in Triggers, h # g PROVE OpHolds(m, h)'
    BY <1>1
  <2>1. op'[m][h].pc \notin BusyPCs
    BY <1>0 DEF OpStep, Turns, TurnInv
  <2> QED
    BY <2>1, RestsHolds
<1>5. \A n \in Machines : n # m =>
        /\ store'[n] = store[n] /\ stamp'[n] = stamp[n] /\ staged'[n] = staged[n]
        /\ \A h \in Triggers : op'[n][h] = op[n][h]
  BY DEF OpStep, StoreOf, Turns
<1>6. DOMAIN committed' = Transports /\ DOMAIN forced' = Transports
      /\ committed'[Webdav] = committed[Webdav]
  BY DEF ContentInv, commits
<1> QED
  BY <1>1, <1>2, <1>3, <1>4, <1>5, <1>6, ContentFrame

\* What is known of the operation that takes a step.
LEMMA ContentBase ==
    ASSUME Quiet, RemoteInv, BelowInv, ContentInv,
           NEW m \in Machines, NEW g \in Triggers, op[m][g].pc \in BusyPCs
    PROVE  /\ Careful /\ Orderly /\ op[m][g].tr = Webdav /\ Webdav \in Transports
           /\ Carries(m, g) /\ OpBelow(m, g) /\ OpHolds(m, g) /\ MachHolds(m)
           /\ op[m][g].known \in Nat /\ op[m][g].gen \in Nat
           /\ TopGen(Webdav) \in Nat /\ store[m].gens[Webdav] \in Nat
           /\ \/ store[m].gens[Webdav] <= TopGen(Webdav)
              \/ op[m][g].pc \in {"seal", "put", "move", "rename"}
<1>1. Careful /\ Orderly /\ Webdav \in Transports
  BY QuietIsCareful, SyncAssumption DEF Careful
<1>2. op[m][g].tr = Webdav
  BY DEF Quiet, RemoteInv, TypeInv, IsOp
<1>3. /\ Carries(m, g) /\ OpBelow(m, g)
      /\ op[m][g].known \in Nat /\ op[m][g].gen \in Nat
      /\ TopGen(Webdav) \in Nat /\ store[m].gens[Webdav] \in Nat
      /\ \/ store[m].gens[Webdav] <= TopGen(Webdav)
         \/ op[m][g].pc \in {"seal", "put", "move", "rename"}
  BY <1>1, <1>2, BelowBase
<1> QED
  BY <1>1, <1>2, <1>3 DEF ContentInv

\* What was committed last is the newest profile, until a push of the backend
\* has its snapshot in place.
LEMMA CommittedIsTop ==
    ASSUME Quiet, RemoteInv, BelowInv, ContentInv, ~Committing(Webdav)
    PROVE  /\ TopContent(Webdav) = committed[Webdav]
           /\ TopGen(Webdav) = remote[Webdav].meta
           /\ Held = shipped
<1>1. TopContent(Webdav) = committed[Webdav]
  BY DEF ContentInv, RemHolds, TopContent
<1>2. TopGen(Webdav) = remote[Webdav].meta
  BY SyncAssumption DEF BelowInv, TopGen
<1> QED
  BY <1>1, <1>2 DEF Held, ContentInv, RemHolds

\* A step that changes neither the profile of m, nor its stamp and its staged
\* restore, nor the newest profile.
LEMMA MachKept ==
    ASSUME NEW m \in Machines, MachHolds(m), SameTop, Held' = Held, made' = made,
           store'[m].content = store[m].content, stamp'[m] = stamp[m],
           staged'[m] = staged[m], AtGen(m, store'[m].gens[Webdav])
    PROVE  MachHolds(m)'
BY DEF MachHolds, AtGen, Fits, SameTop, syncDirty, syncFingerprint

LEMMA ContentFetch ==
    ASSUME Quiet, RemoteInv, BelowInv, ContentInv,
           NEW m \in Machines, NEW g \in Triggers, PushFetch(m, g)
    PROVE  ContentStep
<1> DEFINE o == op[m][g]
           c == store[m].content
<1>0. Careful /\ Orderly /\ DOMAIN stamp = Machines
      /\ staged \in [Machines -> Snapshots]
  BY QuietIsCareful DEF Careful, ContentInv, RemoteInv, TypeInv
<1>1. /\ OpStep(m, g) /\ o.pc = "fetch" /\ op'[m][g].pc = "persist"
      /\ op'[m][g].known = o.known /\ op'[m][g].force = o.force
      /\ ~GuardRefuses(remote[o.tr].meta, o) /\ UNCHANGED <<store, remote>>
  BY <1>0, FetchStep DEF Continues, GoesOn, PushFetch
<1>2. /\ o.tr = Webdav /\ Webdav \in Transports
      /\ Carries(m, g) /\ OpBelow(m, g) /\ OpHolds(m, g) /\ MachHolds(m)
      /\ o.known \in Nat /\ o.gen \in Nat
      /\ TopGen(Webdav) \in Nat /\ store[m].gens[Webdav] \in Nat
      /\ \/ store[m].gens[Webdav] <= TopGen(Webdav)
         \/ o.pc \in {"seal", "put", "move", "rename"}
  BY <1>1, ContentBase DEF OpStep
<1>3. remote'[Webdav].snap = remote[Webdav].snap /\ remote'[Webdav].meta = remote[Webdav].meta
  BY <1>1, <1>2
<1>4. /\ UNCHANGED <<commits, made, stamp, staged>> /\ DOMAIN stamp' = Machines
      /\ \A n \in Machines : n # m => stamp'[n] = stamp[n] /\ staged'[n] = staged[n]
  BY <1>0 DEF PushFetch, bounds
<1>5. ASSUME SameTop, Held' = Held
      PROVE  MachHolds(m)' /\ OpHolds(m, g)'
  <2>1. MachHolds(m)'
    BY <1>1, <1>2, <1>4, <1>5, MachKept DEF MachHolds
  <2>2. OpHolds(m, g)'
    <3>1. ~o.force => committed[Webdav] \subseteq c
      <4>1. o.force \/ remote[Webdav].meta = 0 \/ remote[Webdav].meta = o.known
        BY <1>1, <1>2 DEF GuardRefuses
      <4>2. ~Committing(Webdav)
        BY <1>1, <1>2, SettledBefore DEF PushPCs
      <4>3. TopGen(Webdav) = remote[Webdav].meta /\ TopContent(Webdav) = committed[Webdav]
        BY <4>2, CommittedIsTop
      <4> QED
        BY <1>1, <1>2, <4>1, <4>3 DEF OpHolds, AtGen, ContentInv, RemHolds
    <3> QED
      BY <3>1, <1>1, <1>2, <1>4, <1>5 DEF OpHolds, Deciding, AtGen, SameTop, syncDirty, syncFingerprint, commits
  <2> QED
    BY <2>1, <2>2
<1> QED
  BY <1>1, <1>3, <1>4, <1>5, ContentKept

LEMMA ContentPersist ==
    ASSUME Quiet, RemoteInv, BelowInv, ContentInv,
           NEW m \in Machines, NEW g \in Triggers, PushPersist(m, g)
    PROVE  ContentStep
<1> DEFINE o == op[m][g]
           c == store[m].content
<1>0. Careful /\ Orderly /\ DOMAIN stamp = Machines
      /\ staged \in [Machines -> Snapshots]
  BY QuietIsCareful DEF Careful, ContentInv, RemoteInv, TypeInv
<1>1. /\ OpStep(m, g) /\ o.pc = "persist" /\ op'[m][g].pc = "seal"
      /\ op'[m][g].known = o.known /\ op'[m][g].force = o.force
      /\ Generation(m, o.tr, o.gen) /\ UNCHANGED remote
  BY <1>0, PersistStep DEF Continues, GoesOn
<1>2. /\ o.tr = Webdav /\ Webdav \in Transports
      /\ Carries(m, g) /\ OpBelow(m, g) /\ OpHolds(m, g) /\ MachHolds(m)
      /\ o.known \in Nat /\ o.gen \in Nat
      /\ TopGen(Webdav) \in Nat /\ store[m].gens[Webdav] \in Nat
      /\ \/ store[m].gens[Webdav] <= TopGen(Webdav)
         \/ o.pc \in {"seal", "put", "move", "rename"}
  BY <1>1, ContentBase DEF OpStep
<1>3. remote'[Webdav].snap = remote[Webdav].snap /\ remote'[Webdav].meta = remote[Webdav].meta
  BY <1>1, <1>2
<1>4. /\ UNCHANGED <<commits, made, stamp, staged>> /\ DOMAIN stamp' = Machines
      /\ \A n \in Machines : n # m => stamp'[n] = stamp[n] /\ staged'[n] = staged[n]
  BY <1>0 DEF PushPersist, bounds
<1>5. ASSUME SameTop, Held' = Held
      PROVE  MachHolds(m)' /\ OpHolds(m, g)'
  <2>1. MachHolds(m)'
    <3>1. o.gen > TopGen(Webdav)
      BY <1>1, <1>2, SettledBefore DEF Carries, Deciding, PushPCs
    <3>2. AtGen(m, store'[m].gens[Webdav])
      BY <1>1, <1>2, <3>1 DEF AtGen, Generation
    <3> QED
      BY <1>1, <1>2, <1>4, <1>5, <3>2, MachKept DEF Generation
  <2>2. OpHolds(m, g)'
    BY <1>1, <1>2, <1>4, <1>5 DEF OpHolds, Deciding, AtGen, SameTop, syncDirty, syncFingerprint, commits, Generation
  <2> QED
    BY <2>1, <2>2
<1> QED
  BY <1>1, <1>3, <1>4, <1>5, ContentKept

LEMMA ContentSeal ==
    ASSUME Quiet, RemoteInv, BelowInv, ContentInv,
           NEW m \in Machines, NEW g \in Triggers, PushSeal(m, g)
    PROVE  ContentStep
<1> DEFINE o == op[m][g]
           c == store[m].content
<1>0. Careful /\ Orderly /\ DOMAIN stamp = Machines
      /\ staged \in [Machines -> Snapshots]
  BY QuietIsCareful DEF Careful, ContentInv, RemoteInv, TypeInv
<1>1. /\ OpStep(m, g) /\ o.pc = "seal" /\ op'[m][g].pc = "put"
      /\ op'[m][g].known = o.known /\ op'[m][g].force = o.force
      /\ op'[m][g].blob = store[m] /\ UNCHANGED <<store, remote>>
  BY <1>0, SealStep DEF Continues, GoesOn
<1>2. /\ o.tr = Webdav /\ Webdav \in Transports
      /\ Carries(m, g) /\ OpBelow(m, g) /\ OpHolds(m, g) /\ MachHolds(m)
      /\ o.known \in Nat /\ o.gen \in Nat
      /\ TopGen(Webdav) \in Nat /\ store[m].gens[Webdav] \in Nat
      /\ \/ store[m].gens[Webdav] <= TopGen(Webdav)
         \/ o.pc \in {"seal", "put", "move", "rename"}
  BY <1>1, ContentBase DEF OpStep
<1>3. remote'[Webdav].snap = remote[Webdav].snap /\ remote'[Webdav].meta = remote[Webdav].meta
  BY <1>1, <1>2
<1>4. /\ UNCHANGED <<commits, made, stamp, staged>> /\ DOMAIN stamp' = Machines
      /\ \A n \in Machines : n # m => stamp'[n] = stamp[n] /\ staged'[n] = staged[n]
  BY <1>0 DEF PushSeal, bounds
<1>5. ASSUME SameTop, Held' = Held
      PROVE  MachHolds(m)' /\ OpHolds(m, g)'
  <2>1. MachHolds(m)'
    BY <1>1, <1>2, <1>4, <1>5, MachKept DEF MachHolds
  <2>2. OpHolds(m, g)'
    BY <1>1, <1>2, <1>4, <1>5 DEF OpHolds, Deciding, AtGen, SameTop, syncDirty, syncFingerprint, commits
  <2> QED
    BY <2>1, <2>2
<1> QED
  BY <1>1, <1>3, <1>4, <1>5, ContentKept

LEMMA ContentPut ==
    ASSUME Quiet, RemoteInv, BelowInv, ContentInv,
           NEW m \in Machines, NEW g \in Triggers, PushPut(m, g)
    PROVE  ContentStep
<1> DEFINE o == op[m][g]
           c == store[m].content
<1>0. Careful /\ Orderly /\ DOMAIN stamp = Machines
      /\ staged \in [Machines -> Snapshots]
  BY QuietIsCareful DEF Careful, ContentInv, RemoteInv, TypeInv
<1>1. /\ OpStep(m, g) /\ o.pc = "put" /\ op'[m][g].pc = "move"
      /\ op'[m][g].known = o.known /\ op'[m][g].force = o.force
      /\ op'[m][g].blob = o.blob /\ UNCHANGED store
      /\ remote'[o.tr].snap = remote[o.tr].snap /\ remote'[o.tr].meta = remote[o.tr].meta
  BY <1>0, PutStep DEF Continues, GoesOn, Keeps
<1>2. /\ o.tr = Webdav /\ Webdav \in Transports
      /\ Carries(m, g) /\ OpBelow(m, g) /\ OpHolds(m, g) /\ MachHolds(m)
      /\ o.known \in Nat /\ o.gen \in Nat
      /\ TopGen(Webdav) \in Nat /\ store[m].gens[Webdav] \in Nat
      /\ \/ store[m].gens[Webdav] <= TopGen(Webdav)
         \/ o.pc \in {"seal", "put", "move", "rename"}
  BY <1>1, ContentBase DEF OpStep
<1>3. remote'[Webdav].snap = remote[Webdav].snap /\ remote'[Webdav].meta = remote[Webdav].meta
  BY <1>1, <1>2
<1>4. /\ UNCHANGED <<commits, made, stamp, staged>> /\ DOMAIN stamp' = Machines
      /\ \A n \in Machines : n # m => stamp'[n] = stamp[n] /\ staged'[n] = staged[n]
  BY <1>0 DEF PushPut, bounds
<1>5. ASSUME SameTop, Held' = Held
      PROVE  MachHolds(m)' /\ OpHolds(m, g)'
  <2>1. MachHolds(m)'
    BY <1>1, <1>2, <1>4, <1>5, MachKept DEF MachHolds
  <2>2. OpHolds(m, g)'
    BY <1>1, <1>2, <1>4, <1>5 DEF OpHolds, Deciding, AtGen, SameTop, syncDirty, syncFingerprint, commits
  <2> QED
    BY <2>1, <2>2
<1> QED
  BY <1>1, <1>3, <1>4, <1>5, ContentKept

LEMMA ContentStamp ==
    ASSUME Quiet, RemoteInv, BelowInv, ContentInv,
           NEW m \in Machines, NEW g \in Triggers, PushStamp(m, g)
    PROVE  ContentStep
<1> DEFINE o == op[m][g]
           c == store[m].content
<1>0. Careful /\ Orderly /\ DOMAIN stamp = Machines
      /\ staged \in [Machines -> Snapshots]
  BY QuietIsCareful DEF Careful, ContentInv, RemoteInv, TypeInv
<1>1. /\ OpStep(m, g) /\ o.pc = "stamp" /\ op'[m][g].pc \notin BusyPCs
      /\ UNCHANGED <<store, remote>>
  BY <1>0, StampStep DEF Ends, Rests
<1>2. /\ o.tr = Webdav /\ Webdav \in Transports
      /\ Carries(m, g) /\ OpBelow(m, g) /\ OpHolds(m, g) /\ MachHolds(m)
      /\ o.known \in Nat /\ o.gen \in Nat
      /\ TopGen(Webdav) \in Nat /\ store[m].gens[Webdav] \in Nat
      /\ \/ store[m].gens[Webdav] <= TopGen(Webdav)
         \/ o.pc \in {"seal", "put", "move", "rename"}
  BY <1>1, ContentBase DEF OpStep
<1>3. remote'[Webdav].snap = remote[Webdav].snap /\ remote'[Webdav].meta = remote[Webdav].meta
  BY <1>1, <1>2
<1>4. /\ UNCHANGED <<commits, made, staged>> /\ DOMAIN stamp' = Machines /\ stamp'[m] = ContentFingerprint(c)
      /\ \A n \in Machines : n # m => stamp'[n] = stamp[n] /\ staged'[n] = staged[n]
  BY <1>0 DEF PushStamp, syncFingerprint, bounds
<1>5. ASSUME SameTop, Held' = Held
      PROVE  MachHolds(m)' /\ OpHolds(m, g)'
  <2>1. MachHolds(m)'
    BY <1>1, <1>2, <1>4, <1>5
    DEF MachHolds, OpHolds, AtGen, Fits, SameTop, syncDirty, syncFingerprint,
        ContentFingerprint, Held
  <2>2. OpHolds(m, g)'
    BY <1>1, RestsHolds
  <2> QED
    BY <2>1, <2>2
<1> QED
  BY <1>1, <1>3, <1>4, <1>5, ContentKept

LEMMA ContentGivesUp ==
    ASSUME Quiet, RemoteInv, BelowInv, ContentInv,
           NEW m \in Machines, NEW g \in Triggers, GivesUp(m, g)
    PROVE  ContentStep
<1> DEFINE o == op[m][g]
           c == store[m].content
<1>0. Careful /\ Orderly /\ DOMAIN stamp = Machines
      /\ staged \in [Machines -> Snapshots]
  BY QuietIsCareful DEF Careful, ContentInv, RemoteInv, TypeInv
<1>1. /\ OpStep(m, g) /\ o.pc \in {"fetch", "persist", "seal", "put", "move"}
      /\ op'[m][g].pc \notin BusyPCs /\ o.pc # "meta"
      /\ Generation(m, o.tr, o.known) /\ UNCHANGED remote
  <2>1. /\ o.pc \in {"fetch", "persist", "seal", "put", "move"} /\ o.pc \in PushPCs
        /\ setSyncGeneration(m, g, o.known) /\ FinishFailed(m, g) /\ UNCHANGED remote
    BY <1>0, GivingUp DEF PushPCs, Careful
  <2> QED
    BY <1>0, <2>1, GivesUpStep DEF Ends, Rests
<1>2. /\ o.tr = Webdav /\ Webdav \in Transports
      /\ Carries(m, g) /\ OpBelow(m, g) /\ OpHolds(m, g) /\ MachHolds(m)
      /\ o.known \in Nat /\ o.gen \in Nat
      /\ TopGen(Webdav) \in Nat /\ store[m].gens[Webdav] \in Nat
      /\ \/ store[m].gens[Webdav] <= TopGen(Webdav)
         \/ o.pc \in {"seal", "put", "move", "rename"}
  BY <1>1, ContentBase DEF OpStep
<1>3. remote'[Webdav].snap = remote[Webdav].snap /\ remote'[Webdav].meta = remote[Webdav].meta
  BY <1>1, <1>2
<1>4. /\ UNCHANGED <<commits, made, stamp, staged>> /\ DOMAIN stamp' = Machines
      /\ \A n \in Machines : n # m => stamp'[n] = stamp[n] /\ staged'[n] = staged[n]
  BY <1>0, GivingUp DEF GivesUp, PushRefused, PushFail, PushFailLate, bounds
<1>5. ASSUME SameTop, Held' = Held
      PROVE  MachHolds(m)' /\ OpHolds(m, g)'
  <2>1. MachHolds(m)'
    <3>1. AtGen(m, store'[m].gens[Webdav])
      BY <1>1, <1>2 DEF OpHolds, Deciding, Generation
    <3> QED
      BY <1>1, <1>2, <1>4, <1>5, <3>1, MachKept DEF Generation
  <2>2. OpHolds(m, g)'
    BY <1>1, RestsHolds
  <2> QED
    BY <2>1, <2>2
<1> QED
  BY <1>1, <1>3, <1>4, <1>5, ContentKept

LEMMA ContentPullMeta ==
    ASSUME Quiet, RemoteInv, BelowInv, ContentInv,
           NEW m \in Machines, NEW g \in Triggers, PullMeta(m, g)
    PROVE  ContentStep
<1> DEFINE o == op[m][g]
           c == store[m].content
<1>0. Careful /\ Orderly /\ DOMAIN stamp = Machines
      /\ staged \in [Machines -> Snapshots]
  BY QuietIsCareful DEF Careful, ContentInv, RemoteInv, TypeInv
<1>1. /\ OpStep(m, g) /\ o.pc = "pmeta" /\ UNCHANGED <<store, remote>>
      /\ \/ op'[m][g].pc \notin BusyPCs
         \/ op'[m][g].pc = "pget" /\ op'[m][g].mode = o.mode /\ op'[m][g].answer = o.answer
  BY <1>0, PullMetaStep DEF Rests
<1>2. /\ o.tr = Webdav /\ Webdav \in Transports
      /\ Carries(m, g) /\ OpBelow(m, g) /\ OpHolds(m, g) /\ MachHolds(m)
      /\ o.known \in Nat /\ o.gen \in Nat
      /\ TopGen(Webdav) \in Nat /\ store[m].gens[Webdav] \in Nat
      /\ \/ store[m].gens[Webdav] <= TopGen(Webdav)
         \/ o.pc \in {"seal", "put", "move", "rename"}
  BY <1>1, ContentBase DEF OpStep
<1>3. remote'[Webdav].snap = remote[Webdav].snap /\ remote'[Webdav].meta = remote[Webdav].meta
  BY <1>1, <1>2
<1>4. /\ UNCHANGED <<commits, made, stamp, staged>> /\ DOMAIN stamp' = Machines
      /\ \A n \in Machines : n # m => stamp'[n] = stamp[n] /\ staged'[n] = staged[n]
  BY <1>0 DEF PullMeta, bounds
<1>5. ASSUME SameTop, Held' = Held
      PROVE  MachHolds(m)' /\ OpHolds(m, g)'
  <2>1. MachHolds(m)'
    BY <1>1, <1>2, <1>4, <1>5, MachKept DEF MachHolds
  <2>2. OpHolds(m, g)'
    <3>1. CASE op'[m][g].pc \notin BusyPCs
      BY <3>1, RestsHolds
    <3>2. CASE op'[m][g].pc = "pget" /\ op'[m][g].mode = o.mode /\ op'[m][g].answer = o.answer
      BY <1>1, <1>2, <1>4, <1>5, <3>2 DEF OpHolds, Deciding
    <3> QED
      BY <1>1, <3>1, <3>2
  <2> QED
    BY <2>1, <2>2
<1> QED
  BY <1>1, <1>3, <1>4, <1>5, ContentKept

LEMMA ContentPullGet ==
    ASSUME Quiet, RemoteInv, BelowInv, ContentInv,
           NEW m \in Machines, NEW g \in Triggers, PullGet(m, g)
    PROVE  ContentStep
<1> DEFINE o == op[m][g]
           c == store[m].content
<1>0. Careful /\ Orderly /\ DOMAIN stamp = Machines
      /\ staged \in [Machines -> Snapshots]
  BY QuietIsCareful DEF Careful, ContentInv, RemoteInv, TypeInv
<1>1. /\ OpStep(m, g) /\ o.pc = "pget" /\ UNCHANGED <<store, remote>>
      /\ \/ op'[m][g].pc \notin BusyPCs
         \/ /\ op'[m][g].pc = "papply" /\ op'[m][g].mode = o.mode
            /\ op'[m][g].known = o.known /\ op'[m][g].answer = o.answer
            /\ op'[m][g].blob = remote[o.tr].snap /\ remote[o.tr].snap # None
  BY <1>0, PullGetStep DEF Rests, Continues, GoesOn
<1>2. /\ o.tr = Webdav /\ Webdav \in Transports
      /\ Carries(m, g) /\ OpBelow(m, g) /\ OpHolds(m, g) /\ MachHolds(m)
      /\ o.known \in Nat /\ o.gen \in Nat
      /\ TopGen(Webdav) \in Nat /\ store[m].gens[Webdav] \in Nat
      /\ \/ store[m].gens[Webdav] <= TopGen(Webdav)
         \/ o.pc \in {"seal", "put", "move", "rename"}
  BY <1>1, ContentBase DEF OpStep
<1>3. remote'[Webdav].snap = remote[Webdav].snap /\ remote'[Webdav].meta = remote[Webdav].meta
  BY <1>1, <1>2
<1>4. /\ UNCHANGED <<commits, made, stamp, staged>> /\ DOMAIN stamp' = Machines
      /\ \A n \in Machines : n # m => stamp'[n] = stamp[n] /\ staged'[n] = staged[n]
  BY <1>0 DEF PullGet, bounds
<1>5. ASSUME SameTop, Held' = Held
      PROVE  MachHolds(m)' /\ OpHolds(m, g)'
  <2>1. MachHolds(m)'
    BY <1>1, <1>2, <1>4, <1>5, MachKept DEF MachHolds
  <2>2. OpHolds(m, g)'
    <3>1. CASE op'[m][g].pc \notin BusyPCs
      BY <3>1, RestsHolds
    <3>2. CASE op'[m][g].pc = "papply"
      <4> DEFINE s == remote[Webdav].snap
      <4>1. /\ op'[m][g].mode = o.mode /\ op'[m][g].known = o.known /\ op'[m][g].answer = o.answer
            /\ op'[m][g].blob = s /\ s # None
        BY <1>1, <1>2, <3>2 DEF BusyPCs, PullPCs
      <4>2. s.gens[Webdav] = TopGen(Webdav) /\ s.content = TopContent(Webdav)
        BY <4>1 DEF TopGen, TopContent
      <4>3. s.content \subseteq Held
        BY <4>2 DEF Held
      <4>4. TopGen(Webdav) >= o.known /\ TopGen(Webdav) >= store[m].gens[Webdav]
        BY <1>1, <1>2 DEF OpBelow, Deciding
      <4>5. o.mode = "quick" => o.answer \ s.content \subseteq shipped
        BY <1>1, <1>2, <4>2 DEF OpHolds, Held
      <4>6. Fits(op[m][g].blob)'
        BY <1>5, <4>1, <4>2, <4>3 DEF Fits, SameTop
      <4> QED
        BY <1>1, <1>2, <1>4, <1>5, <3>2, <4>1, <4>2, <4>4, <4>5, <4>6
        DEF OpHolds, Deciding, commits
    <3> QED
      BY <1>1, <3>1, <3>2
  <2> QED
    BY <2>1, <2>2
<1> QED
  BY <1>1, <1>3, <1>4, <1>5, ContentKept

LEMMA ContentApply ==
    ASSUME Quiet, RemoteInv, BelowInv, ContentInv,
           NEW m \in Machines, NEW g \in Triggers, PullApplyLive(m, g)
    PROVE  ContentStep
<1> DEFINE o == op[m][g]
           c == store[m].content
<1>0. Careful /\ Orderly /\ DOMAIN stamp = Machines
      /\ staged \in [Machines -> Snapshots]
  BY QuietIsCareful DEF Careful, ContentInv, RemoteInv, TypeInv
<1>1. /\ OpStep(m, g) /\ o.pc = "papply" /\ op'[m][g].pc = "pstamp"
      /\ op'[m][g].known = o.known /\ UNCHANGED remote /\ o.blob \in Store
      /\ store'[m].gens = store[m].gens /\ store'[m].content = o.blob.content
  BY <1>0, ApplyStep DEF Continues, GoesOn
<1>2. /\ o.tr = Webdav /\ Webdav \in Transports
      /\ Carries(m, g) /\ OpBelow(m, g) /\ OpHolds(m, g) /\ MachHolds(m)
      /\ o.known \in Nat /\ o.gen \in Nat
      /\ TopGen(Webdav) \in Nat /\ store[m].gens[Webdav] \in Nat
      /\ \/ store[m].gens[Webdav] <= TopGen(Webdav)
         \/ o.pc \in {"seal", "put", "move", "rename"}
  BY <1>1, ContentBase DEF OpStep
<1>3. remote'[Webdav].snap = remote[Webdav].snap /\ remote'[Webdav].meta = remote[Webdav].meta
  BY <1>1, <1>2
<1>4. /\ UNCHANGED <<commits, made, stamp>> /\ DOMAIN stamp' = Machines
      /\ staged'[m] \in {staged[m], o.blob}
      /\ \A n \in Machines : n # m => stamp'[n] = stamp[n] /\ staged'[n] = staged[n]
  BY <1>0, ApplyStep DEF PullApplyLive, bounds
<1>6. o.blob.content \subseteq Held /\ (o.blob.gens[Webdav] = TopGen(Webdav) => o.blob.content = TopContent(Webdav))
      /\ o.blob \in Store /\ Fits(o.blob)
      /\ (store[m].gens[Webdav] = TopGen(Webdav) => o.blob.content = TopContent(Webdav))
      /\ (o.known = TopGen(Webdav) => o.blob.content = TopContent(Webdav))
  <2>1. Fits(o.blob) /\ o.blob.gens[Webdav] >= o.known
        /\ o.blob.gens[Webdav] >= store[m].gens[Webdav]
    BY <1>1, <1>2 DEF OpHolds
  <2>2. o.blob.gens[Webdav] <= TopGen(Webdav) /\ o.blob.gens[Webdav] \in Nat
    BY <1>1, <1>2, GensTyped DEF OpBelow, Below, RemoteInv
  <2> QED
    BY <1>1, <1>2, <2>1, <2>2 DEF Fits
<1>5. ASSUME SameTop, Held' = Held
      PROVE  MachHolds(m)' /\ OpHolds(m, g)'
  <2>1. MachHolds(m)'
    <3>1. o.blob.content \subseteq made
      BY <1>6 DEF ContentInv, RemHolds
    <3>2. staged'[m] # None => Fits(staged[m])'
      BY <1>2, <1>4, <1>5, <1>6 DEF MachHolds, Fits, SameTop
    <3>3. AtGen(m, store[m].gens[Webdav])'
      BY <1>1, <1>2, <1>5, <1>6 DEF AtGen, SameTop, syncFingerprint
    <3> QED
      BY <1>1, <1>2, <1>4, <1>5, <3>1, <3>2, <3>3 DEF MachHolds
  <2>2. OpHolds(m, g)'
    BY <1>1, <1>5, <1>6 DEF OpHolds, Deciding, SameTop
  <2> QED
    BY <2>1, <2>2
<1> QED
  BY <1>1, <1>3, <1>4, <1>5, ContentKept

LEMMA ContentNotStaged ==
    ASSUME Quiet, RemoteInv, BelowInv, ContentInv,
           NEW m \in Machines, NEW g \in Triggers, PullNotStaged(m, g)
    PROVE  ContentStep
<1> DEFINE o == op[m][g]
           c == store[m].content
<1>0. Careful /\ Orderly /\ DOMAIN stamp = Machines
      /\ staged \in [Machines -> Snapshots]
  BY QuietIsCareful DEF Careful, ContentInv, RemoteInv, TypeInv
<1>1. /\ OpStep(m, g) /\ o.pc = "papply" /\ op'[m][g].pc \notin BusyPCs
      /\ UNCHANGED remote /\ o.blob \in Store
      /\ store'[m].gens = store[m].gens /\ store'[m].content = o.blob.content
  BY <1>0, NotStagedStep DEF Ends, Rests
<1>2. /\ o.tr = Webdav /\ Webdav \in Transports
      /\ Carries(m, g) /\ OpBelow(m, g) /\ OpHolds(m, g) /\ MachHolds(m)
      /\ o.known \in Nat /\ o.gen \in Nat
      /\ TopGen(Webdav) \in Nat /\ store[m].gens[Webdav] \in Nat
      /\ \/ store[m].gens[Webdav] <= TopGen(Webdav)
         \/ o.pc \in {"seal", "put", "move", "rename"}
  BY <1>1, ContentBase DEF OpStep
<1>3. remote'[Webdav].snap = remote[Webdav].snap /\ remote'[Webdav].meta = remote[Webdav].meta
  BY <1>1, <1>2
<1>4. /\ UNCHANGED <<commits, made, stamp, staged>> /\ DOMAIN stamp' = Machines
      /\ \A n \in Machines : n # m => stamp'[n] = stamp[n] /\ staged'[n] = staged[n]
  BY <1>0 DEF PullNotStaged
<1>6. o.blob.content \subseteq Held /\ (o.blob.gens[Webdav] = TopGen(Webdav) => o.blob.content = TopContent(Webdav))
      /\ o.blob \in Store /\ Fits(o.blob)
      /\ (store[m].gens[Webdav] = TopGen(Webdav) => o.blob.content = TopContent(Webdav))
      /\ (o.known = TopGen(Webdav) => o.blob.content = TopContent(Webdav))
  <2>1. Fits(o.blob) /\ o.blob.gens[Webdav] >= o.known
        /\ o.blob.gens[Webdav] >= store[m].gens[Webdav]
    BY <1>1, <1>2 DEF OpHolds
  <2>2. o.blob.gens[Webdav] <= TopGen(Webdav) /\ o.blob.gens[Webdav] \in Nat
    BY <1>1, <1>2, GensTyped DEF OpBelow, Below, RemoteInv
  <2> QED
    BY <1>1, <1>2, <2>1, <2>2 DEF Fits
<1>5. ASSUME SameTop, Held' = Held
      PROVE  MachHolds(m)' /\ OpHolds(m, g)'
  <2>1. MachHolds(m)'
    <3>1. o.blob.content \subseteq made
      BY <1>6 DEF ContentInv, RemHolds
    <3>2. staged'[m] # None => Fits(staged[m])'
      BY <1>2, <1>4, <1>5, <1>6 DEF MachHolds, Fits, SameTop
    <3>3. AtGen(m, store[m].gens[Webdav])'
      BY <1>1, <1>2, <1>5, <1>6 DEF AtGen, SameTop, syncFingerprint
    <3> QED
      BY <1>1, <1>2, <1>4, <1>5, <3>1, <3>2, <3>3 DEF MachHolds
  <2>2. OpHolds(m, g)'
    BY <1>1, RestsHolds
  <2> QED
    BY <2>1, <2>2
<1> QED
  BY <1>1, <1>3, <1>4, <1>5, ContentKept

LEMMA ContentPullStamp ==
    ASSUME Quiet, RemoteInv, BelowInv, ContentInv,
           NEW m \in Machines, NEW g \in Triggers, PullStamp(m, g)
    PROVE  ContentStep
<1> DEFINE o == op[m][g]
           c == store[m].content
<1>0. Careful /\ Orderly /\ DOMAIN stamp = Machines
      /\ staged \in [Machines -> Snapshots]
  BY QuietIsCareful DEF Careful, ContentInv, RemoteInv, TypeInv
<1>1. /\ OpStep(m, g) /\ o.pc = "pstamp" /\ op'[m][g].pc \notin BusyPCs /\ UNCHANGED remote
      /\ Generation(m, o.tr, o.known)
  BY <1>0, PullStampStep DEF Ends, Rests
<1>2. /\ o.tr = Webdav /\ Webdav \in Transports
      /\ Carries(m, g) /\ OpBelow(m, g) /\ OpHolds(m, g) /\ MachHolds(m)
      /\ o.known \in Nat /\ o.gen \in Nat
      /\ TopGen(Webdav) \in Nat /\ store[m].gens[Webdav] \in Nat
      /\ \/ store[m].gens[Webdav] <= TopGen(Webdav)
         \/ o.pc \in {"seal", "put", "move", "rename"}
  BY <1>1, ContentBase DEF OpStep
<1>3. remote'[Webdav].snap = remote[Webdav].snap /\ remote'[Webdav].meta = remote[Webdav].meta
  BY <1>1, <1>2
<1>4. /\ UNCHANGED <<commits, made, staged>> /\ DOMAIN stamp' = Machines /\ stamp'[m] = ContentFingerprint(c)
      /\ \A n \in Machines : n # m => stamp'[n] = stamp[n] /\ staged'[n] = staged[n]
  BY <1>0 DEF PullStamp, syncFingerprint, bounds
<1>5. ASSUME SameTop, Held' = Held
      PROVE  MachHolds(m)' /\ OpHolds(m, g)'
  <2>1. MachHolds(m)'
    <3>1. c \subseteq Held /\ (o.known = TopGen(Webdav) => c = TopContent(Webdav))
      BY <1>1, <1>2 DEF OpHolds
    <3>2. store'[m].content = c /\ store'[m].gens[Webdav] = o.known
      BY <1>1, <1>2 DEF Generation
    <3>3. AtGen(m, store[m].gens[Webdav])'
      BY <1>4, <1>5, <3>1, <3>2 DEF AtGen, SameTop, syncFingerprint
    <3> QED
      BY <1>2, <1>4, <1>5, <3>1, <3>2, <3>3
      DEF MachHolds, Fits, SameTop, ContentFingerprint
  <2>2. OpHolds(m, g)'
    BY <1>1, RestsHolds
  <2> QED
    BY <2>1, <2>2
<1> QED
  BY <1>1, <1>3, <1>4, <1>5, ContentKept

LEMMA ContentPullEnds ==
    ASSUME Quiet, RemoteInv, BelowInv, ContentInv,
           NEW m \in Machines, NEW g \in Triggers, PullStage(m, g) \/ PullFail(m, g)
    PROVE  ContentStep
<1> DEFINE o == op[m][g]
           c == store[m].content
<1>0. Careful /\ Orderly /\ DOMAIN stamp = Machines
      /\ staged \in [Machines -> Snapshots]
  BY QuietIsCareful DEF Careful, ContentInv, RemoteInv, TypeInv
<1>1. /\ OpStep(m, g) /\ o.pc \in PullPCs /\ op'[m][g].pc \notin BusyPCs
      /\ UNCHANGED <<store, stamp, remote>> /\ o.pc # "meta"
      /\ \A n \in Machines :
           \/ staged'[n] = staged[n]
           \/ n = m /\ staged'[n] = o.blob /\ o.pc = "papply"
  BY <1>0, PullEnds DEF Ends, Rests, PullPCs
<1>2. /\ o.tr = Webdav /\ Webdav \in Transports
      /\ Carries(m, g) /\ OpBelow(m, g) /\ OpHolds(m, g) /\ MachHolds(m)
      /\ o.known \in Nat /\ o.gen \in Nat
      /\ TopGen(Webdav) \in Nat /\ store[m].gens[Webdav] \in Nat
      /\ \/ store[m].gens[Webdav] <= TopGen(Webdav)
         \/ o.pc \in {"seal", "put", "move", "rename"}
  BY <1>1, ContentBase DEF OpStep
<1>3. remote'[Webdav].snap = remote[Webdav].snap /\ remote'[Webdav].meta = remote[Webdav].meta
  BY <1>1, <1>2
<1>4. /\ UNCHANGED <<commits, made, stamp>> /\ DOMAIN stamp' = Machines
      /\ \A n \in Machines : n # m => stamp'[n] = stamp[n] /\ staged'[n] = staged[n]
  BY <1>0, <1>1 DEF PullStage, PullFail, bounds
<1>5. ASSUME SameTop, Held' = Held
      PROVE  MachHolds(m)' /\ OpHolds(m, g)'
  <2>1. MachHolds(m)'
    <3>1. staged'[m] # None => Fits(staged[m])'
      BY <1>1, <1>2, <1>5 DEF MachHolds, OpHolds, Fits, SameTop
    <3>2. AtGen(m, store[m].gens[Webdav])'
      BY <1>1, <1>2, <1>5 DEF MachHolds, AtGen, SameTop, syncDirty, syncFingerprint
    <3> QED
      BY <1>1, <1>2, <1>4, <1>5, <3>1, <3>2 DEF MachHolds
  <2>2. OpHolds(m, g)'
    BY <1>1, RestsHolds
  <2> QED
    BY <2>1, <2>2
<1> QED
  BY <1>1, <1>3, <1>4, <1>5, ContentKept

LEMMA ContentClear ==
    ASSUME Quiet, RemoteInv, BelowInv, ContentInv,
           NEW m \in Machines, NEW g \in Triggers, PushMoveClear(m, g)
    PROVE  ContentStep
<1> DEFINE o == op[m][g]
           c == store[m].content
<1>0. Careful /\ Orderly /\ TypeInv /\ TurnInv
      /\ DOMAIN stamp = Machines /\ DOMAIN committed = Transports
      /\ DOMAIN forced = Transports
  BY QuietIsCareful DEF Careful, ContentInv, RemoteInv
<1>1. /\ OpStep(m, g) /\ o.pc = "move" /\ op'[m][g].pc = "rename"
      /\ op'[m][g].known = o.known /\ op'[m][g].force = o.force
      /\ op'[m][g].blob = o.blob /\ UNCHANGED store
      /\ remote'[o.tr].snap = None /\ remote'[o.tr].meta = remote[o.tr].meta
  BY <1>0, ClearStep DEF Continues, GoesOn, Keeps
<1>2. /\ o.tr = Webdav /\ Webdav \in Transports
      /\ Carries(m, g) /\ OpBelow(m, g) /\ OpHolds(m, g) /\ MachHolds(m)
      /\ o.known \in Nat /\ o.gen \in Nat
      /\ TopGen(Webdav) \in Nat /\ store[m].gens[Webdav] \in Nat
      /\ \/ store[m].gens[Webdav] <= TopGen(Webdav)
         \/ o.pc \in {"seal", "put", "move", "rename"}
  BY <1>1, ContentBase DEF OpStep
<1>3. /\ UNCHANGED <<commits, made, stamp, staged>> /\ DOMAIN stamp' = Machines
      /\ DOMAIN committed' = Transports /\ DOMAIN forced' = Transports
  BY <1>0 DEF PushMoveClear, bounds, commits
<1>4. /\ o.pc \in PushPCs
      /\ \A n \in Machines : n # m =>
           /\ store'[n] = store[n] /\ stamp'[n] = stamp[n] /\ staged'[n] = staged[n]
           /\ \A h \in Triggers : op'[n][h] = op[n][h]
  BY <1>1, <1>3 DEF OpStep, StoreOf, Turns, PushPCs
<1>5. ASSUME OpHolds(m, g)'
      PROVE  \A h \in Triggers : OpHolds(m, h)'
  <2> SUFFICES ASSUME NEW h \in Triggers, h # g PROVE OpHolds(m, h)'
    BY <1>5
  <2>1. op'[m][h].pc \notin BusyPCs
    BY <1>0, <1>1 DEF OpStep, Turns, TurnInv
  <2> QED
    BY <2>1, RestsHolds
<1>6. ~Committing(Webdav)
  BY <1>1, <1>2, SettledBefore DEF PushPCs
<1>7. SameTop /\ Held' = Held
  <2>1. TopContent(Webdav) = committed[Webdav] /\ TopGen(Webdav) = remote[Webdav].meta
    BY <1>6, CommittedIsTop
  <2> QED
    BY <1>1, <1>2, <1>3, <2>1 DEF SameTop, TopGen, TopContent, Held, commits
<1>8. Grows
  BY <1>3, <1>7 DEF Grows, commits
<1>9. RemHolds'
  BY <1>1, <1>2, <1>3, <1>7 DEF ContentInv, RemHolds, commits
<1>10. MachHolds(m)'
  BY <1>1, <1>2, <1>3, <1>7, MachKept DEF MachHolds
<1>11. OpHolds(m, g)'
  BY <1>1, <1>2, <1>3, <1>7
  DEF OpHolds, Deciding, AtGen, SameTop, syncDirty, syncFingerprint, commits
<1> QED
  BY <1>3, <1>4, <1>5, <1>8, <1>9, <1>10, <1>11, ContentFrame

LEMMA ContentLand ==
    ASSUME Quiet, RemoteInv, BelowInv, ContentInv,
           NEW m \in Machines, NEW g \in Triggers, Lands(m, g)
    PROVE  ContentStep
<1> DEFINE o == op[m][g]
           c == store[m].content
<1>0. Careful /\ Orderly /\ TypeInv /\ TurnInv
      /\ DOMAIN stamp = Machines /\ DOMAIN committed = Transports
      /\ DOMAIN forced = Transports
  BY QuietIsCareful DEF Careful, ContentInv, RemoteInv
<1>1. /\ OpStep(m, g) /\ o.pc \in {"move", "rename"} /\ op'[m][g].pc = "meta"
      /\ op'[m][g].force = o.force /\ op'[m][g].tr = o.tr
      /\ op'[m][g].gen = o.gen /\ op'[m][g].blob = o.blob /\ UNCHANGED store
      /\ remote'[o.tr].snap = o.blob /\ remote'[o.tr].meta = remote[o.tr].meta
  BY <1>0, LandStep DEF Continues, GoesOn, Keeps
<1>2. /\ o.tr = Webdav /\ Webdav \in Transports
      /\ Carries(m, g) /\ OpBelow(m, g) /\ OpHolds(m, g) /\ MachHolds(m)
      /\ o.known \in Nat /\ o.gen \in Nat
      /\ TopGen(Webdav) \in Nat /\ store[m].gens[Webdav] \in Nat
      /\ \/ store[m].gens[Webdav] <= TopGen(Webdav)
         \/ o.pc \in {"seal", "put", "move", "rename"}
  BY <1>1, ContentBase DEF OpStep
<1>3. /\ UNCHANGED <<commits, made, stamp, staged>> /\ DOMAIN stamp' = Machines
      /\ DOMAIN committed' = Transports /\ DOMAIN forced' = Transports
  BY <1>0 DEF Lands, PushMove, PushRename, PushMoveFallback, bounds, commits
<1>4. /\ o.pc \in PushPCs
      /\ \A n \in Machines : n # m =>
           /\ store'[n] = store[n] /\ stamp'[n] = stamp[n] /\ staged'[n] = staged[n]
           /\ \A h \in Triggers : op'[n][h] = op[n][h]
  BY <1>1, <1>3 DEF OpStep, StoreOf, Turns, PushPCs
<1>5. ASSUME OpHolds(m, g)'
      PROVE  \A h \in Triggers : OpHolds(m, h)'
  <2> SUFFICES ASSUME NEW h \in Triggers, h # g PROVE OpHolds(m, h)'
    BY <1>5
  <2>1. op'[m][h].pc \notin BusyPCs
    BY <1>0, <1>1 DEF OpStep, Turns, TurnInv
  <2> QED
    BY <2>1, RestsHolds
<1>6. /\ TopContent(Webdav) = committed[Webdav] /\ TopGen(Webdav) = remote[Webdav].meta
      /\ Held = shipped
  <2>1. ~Committing(Webdav)
    BY <1>1, <1>2, SettledBefore DEF PushPCs
  <2> QED
    BY <2>1, CommittedIsTop
<1>7. /\ o.blob \in Store /\ o.blob # None /\ o.blob.content = c
      /\ o.blob.gens[Webdav] = o.gen /\ o.gen > TopGen(Webdav)
  BY <1>0, <1>1, <1>2, <1>6, NoneAssumption
  DEF TypeInv, IsOp, Carries, Deciding, OpHolds
<1>8. TopGen(Webdav)' = o.gen /\ TopContent(Webdav)' = c
  BY <1>1, <1>2, <1>7 DEF TopGen, TopContent
<1>9. Held' = shipped \cup c
  BY <1>3, <1>8 DEF Held, commits
<1>10. Grows
  BY <1>3, <1>6, <1>7, <1>8, <1>9 DEF Grows, commits
<1>11. RemHolds'
  <2>1. Committing(Webdav)'
    BY <1>1, <1>2 DEF Committing
  <2> QED
    BY <1>1, <1>2, <1>3, <1>6, <1>9, <2>1 DEF ContentInv, RemHolds, MachHolds, commits
<1>12. MachHolds(m)'
  <2>1. staged'[m] # None => Fits(staged[m])'
    <3>1. ASSUME NEW s \in Store, s = staged[m], s # None
          PROVE  Fits(s)'
      BY <1>2, <1>10, <3>1, FitsFrame DEF BelowInv, MachHolds
    <3> QED
      BY <1>0, <1>3, <3>1, GensTyped, SyncAssumption DEF Fits
  <2>2. AtGen(m, store[m].gens[Webdav])'
    BY <1>1, <1>8 DEF AtGen, syncFingerprint
  <2> QED
    BY <1>1, <1>2, <1>3, <1>10, <2>1, <2>2 DEF MachHolds, Grows
<1>13. OpHolds(m, g)'
  BY <1>1, <1>2, <1>3, <1>7 DEF OpHolds, Deciding, commits
<1> QED
  BY <1>3, <1>4, <1>5, <1>10, <1>11, <1>12, <1>13, ContentFrame

LEMMA ContentMeta ==
    ASSUME Quiet, RemoteInv, BelowInv, ContentInv,
           NEW m \in Machines, NEW g \in Triggers, PushMeta(m, g)
    PROVE  ContentStep
<1> DEFINE o == op[m][g]
           c == store[m].content
<1>0. Careful /\ Orderly /\ TypeInv /\ TurnInv
      /\ DOMAIN stamp = Machines /\ DOMAIN committed = Transports
      /\ DOMAIN forced = Transports
  BY QuietIsCareful DEF Careful, ContentInv, RemoteInv
<1>1. /\ OpStep(m, g) /\ o.pc = "meta" /\ op'[m][g].pc = "stamp" /\ UNCHANGED store
      /\ remote'[o.tr].snap = remote[o.tr].snap /\ remote'[o.tr].meta = o.gen
  BY <1>0, MetaStep DEF Continues
<1>2. /\ o.tr = Webdav /\ Webdav \in Transports
      /\ Carries(m, g) /\ OpBelow(m, g) /\ OpHolds(m, g) /\ MachHolds(m)
      /\ o.known \in Nat /\ o.gen \in Nat
      /\ TopGen(Webdav) \in Nat /\ store[m].gens[Webdav] \in Nat
      /\ \/ store[m].gens[Webdav] <= TopGen(Webdav)
         \/ o.pc \in {"seal", "put", "move", "rename"}
  BY <1>1, ContentBase DEF OpStep
<1>3. /\ UNCHANGED <<made, stamp, staged>> /\ DOMAIN stamp' = Machines
      /\ DOMAIN committed' = Transports /\ DOMAIN forced' = Transports
      /\ committed' = [committed EXCEPT ![o.tr] = o.blob.content]
      /\ shipped' = shipped \cup o.blob.content
  BY <1>0 DEF PushMeta, CommitMeta, bounds
<1>4. /\ o.pc \in PushPCs
      /\ \A n \in Machines : n # m =>
           /\ store'[n] = store[n] /\ stamp'[n] = stamp[n] /\ staged'[n] = staged[n]
           /\ \A h \in Triggers : op'[n][h] = op[n][h]
  BY <1>1, <1>3 DEF OpStep, StoreOf, Turns, PushPCs
<1>5. ASSUME OpHolds(m, g)'
      PROVE  \A h \in Triggers : OpHolds(m, h)'
  <2> SUFFICES ASSUME NEW h \in Triggers, h # g PROVE OpHolds(m, h)'
    BY <1>5
  <2>1. op'[m][h].pc \notin BusyPCs
    BY <1>0, <1>1 DEF OpStep, Turns, TurnInv
  <2> QED
    BY <2>1, RestsHolds
<1>6. /\ remote[Webdav].snap = o.blob /\ o.blob # None /\ o.blob.content = c
      /\ o.gen # 0
  BY <1>0, <1>1, <1>2, NoneAssumption, GensTyped DEF TypeInv, IsOp, Carries, OpHolds
<1>7. SameTop /\ TopContent(Webdav) = c /\ committed'[Webdav] = c
      /\ shipped' = shipped \cup c
  BY <1>0, <1>1, <1>2, <1>3, <1>6 DEF SameTop, TopGen, TopContent
<1>8. Held' = shipped \cup c /\ Held = shipped \cup c
  BY <1>7 DEF Held, SameTop
<1>9. Grows
  BY <1>3, <1>7, <1>8 DEF Grows
<1>10. RemHolds'
  BY <1>1, <1>2, <1>3, <1>6, <1>7, <1>8 DEF ContentInv, RemHolds, MachHolds
<1>11. MachHolds(m)'
  BY <1>1, <1>2, <1>3, <1>7, <1>8, MachKept DEF MachHolds
<1>12. OpHolds(m, g)'
  BY <1>1, <1>7 DEF OpHolds, Deciding, SameTop
<1> QED
  BY <1>3, <1>4, <1>5, <1>9, <1>10, <1>11, <1>12, ContentFrame

\* Nothing changes on the backend, and nothing is under way on m.
LEMMA ContentStill ==
    ASSUME Quiet, RemoteInv, BelowInv, ContentInv, NEW m \in Machines,
           UNCHANGED <<remote, commits>>, made \subseteq made',
           DOMAIN stamp' = Machines,
           \A n \in Machines : n # m =>
             /\ store'[n] = store[n] /\ stamp'[n] = stamp[n] /\ staged'[n] = staged[n]
             /\ \A h \in Triggers : op'[n][h] = op[n][h],
           \A h \in Triggers : op[m][h].pc \notin BusyPCs,
           SameTop /\ Held' = Held => /\ MachHolds(m)'
                                      /\ \A h \in Triggers : OpHolds(m, h)'
    PROVE  ContentStep
<1>1. SameTop /\ Held' = Held
  BY DEF SameTop, TopGen, TopContent, commits, Held
<1>2. Grows
  BY <1>1 DEF Grows, commits
<1>3. RemHolds'
  <2>1. Committing(Webdav) => Committing(Webdav)'
    <3> SUFFICES ASSUME NEW n \in Machines, NEW h \in Triggers, op[n][h].pc = "meta"
                 PROVE  op'[n][h] = op[n][h]
      BY DEF Committing
    <3> QED
      BY DEF BusyPCs, PushPCs
  <2> QED
    BY <1>1, <2>1 DEF ContentInv, RemHolds, commits
<1>4. DOMAIN committed' = Transports /\ DOMAIN forced' = Transports
      /\ committed'[Webdav] = committed[Webdav]
  BY DEF ContentInv, commits
<1> QED
  BY <1>1, <1>2, <1>3, <1>4, ContentFrame

LEMMA ContentEdit ==
    ASSUME Quiet, RemoteInv, BelowInv, ContentInv,
           NEW m \in Machines, NEW e \in Edits, Edit(m, e)
    PROVE  ContentStep
<1> DEFINE c == store[m].content
<1>0. TypeInv /\ DOMAIN stamp = Machines /\ MachHolds(m) /\ RemHolds
  BY DEF RemoteInv, ContentInv
<1>1. /\ StoreOf(m) /\ store'[m].gens = store[m].gens
      /\ store'[m].content = c \cup {e}
  BY <1>0, EditStep
<1>2. /\ UNCHANGED <<remote, commits, op, stamp, staged>>
      /\ made' = made \cup {e} /\ e \notin made
      /\ \A h \in Triggers : op[m][h].pc \notin BusyPCs
  BY DEF Edit, Quiet, Busy, BusyPCs
<1>3. \/ ContentFingerprint(c \cup {e}) # stamp[m]
      \/ ContentFingerprint(c \cup {e}) = ContentFingerprint(c)
  <2>1. CASE e \in Unsigned
    BY <2>1 DEF ContentFingerprint
  <2>2. CASE e \notin Unsigned
    <3>1. ContentFingerprint(c \cup {e}) \in SUBSET Edits
      BY <1>0 DEF TypeInv, Store, ContentFingerprint
    <3>2. ContentFingerprint(c \cup {e}) # None
      BY <3>1, NoneAssumption
    <3>3. stamp[m] # None => e \notin stamp[m]
      BY <1>0, <1>2 DEF MachHolds, RemHolds
    <3> QED
      BY <2>2, <3>2, <3>3 DEF ContentFingerprint
  <2> QED
    BY <2>1, <2>2
<1>4. ASSUME SameTop, Held' = Held
      PROVE  MachHolds(m)' /\ \A h \in Triggers : OpHolds(m, h)'
  <2>1. AtGen(m, store[m].gens[Webdav])'
    BY <1>0, <1>1, <1>2, <1>3, <1>4 DEF MachHolds, AtGen, SameTop, syncDirty, syncFingerprint
  <2>2. MachHolds(m)'
    BY <1>0, <1>1, <1>2, <1>4, <2>1 DEF MachHolds, Fits, SameTop
  <2> QED
    BY <1>2, <2>2, RestsHolds
<1> QED
  BY <1>0, <1>1, <1>2, <1>4, ContentStill DEF StoreOf

LEMMA ContentBegin ==
    ASSUME Quiet, RemoteInv, BelowInv, ContentInv, OfferInv,
           NEW m \in Machines, NEW g \in Triggers,
           Begins(m, g)
    PROVE  ContentStep
<1> DEFINE c == store[m].content
<1>0. TypeInv /\ Orderly /\ DOMAIN stamp = Machines /\ MachHolds(m)
  BY QuietIsCareful DEF RemoteInv, ContentInv, Careful
<1>1. /\ \A h \in Triggers : op[m][h].pc \notin BusyPCs
      /\ Turns(m, g, op'[m][g]) /\ op'[m][g].pc \in {"fetch", "pmeta"}
      /\ op'[m][g].tr = store[m].transport
      /\ op'[m][g].pc = "fetch" => op'[m][g].known = store[m].gens[op'[m][g].tr]
      /\ UNCHANGED <<store, stamp, staged, remote>>
  BY <1>0, BeginStep DEF Starts
<1>2. UNCHANGED <<commits, made>>
  <2>1. ASSUME NEW f \in BOOLEAN, BeginPush(m, g, f)
        PROVE  UNCHANGED <<commits, made>>
    BY <2>1 DEF BeginPush, bounds
  <2>2. ASSUME NEW mode, NEW answer, StartPull(m, g, mode, answer)
        PROVE  UNCHANGED <<commits, made>>
    BY <2>2 DEF StartPull, bounds
  <2> QED
    BY <2>1, <2>2 DEF Begins, BeginsPull, BeginQuickPull, BeginPull
<1>3. op'[m][g].pc = "pmeta" /\ op'[m][g].mode = "quick" => op'[m][g].answer \subseteq Held
  <2>1. ASSUME NEW f \in BOOLEAN, BeginPush(m, g, f)
        PROVE  op'[m][g].pc = "fetch"
    BY <1>0, <2>1, OpBegins DEF Turns
  <2>2. ASSUME BeginsPull(m, g), op'[m][g].mode = "quick"
        PROVE  op'[m][g].answer \subseteq Held
    <3>1. PICK mode, answer : /\ StartPull(m, g, mode, answer)
                              /\ mode = "quick" => /\ answer = offered[m]
                                                   /\ offered[m] # None
      BY <2>2, PullBegins
    <3>2. op'[m][g].mode = mode /\ op'[m][g].answer = answer
      BY <1>0, <3>1, OpPulls DEF Turns
    <3> QED
      BY <2>2, <3>1, <3>2 DEF OfferInv
  <2> QED
    BY <2>1, <2>2 DEF Begins
<1>4. store[m].transport = Webdav
  BY <1>0 DEF Quiet, TypeInv, Store
<1>5. ASSUME SameTop, Held' = Held
      PROVE  MachHolds(m)' /\ \A h \in Triggers : OpHolds(m, h)'
  <2>1. MachHolds(m)'
    BY <1>0, <1>1, <1>2, <1>5, MachKept DEF MachHolds
  <2>2. OpHolds(m, g)'
    BY <1>0, <1>1, <1>3, <1>4, <1>5
    DEF OpHolds, MachHolds, Deciding, AtGen, SameTop, syncDirty, syncFingerprint
  <2>3. \A h \in Triggers : h # g => op'[m][h].pc \notin BusyPCs
    BY <1>1 DEF Turns
  <2> QED
    BY <2>1, <2>2, <2>3, RestsHolds
<1>6. \A n \in Machines : n # m => \A h \in Triggers : op'[n][h] = op[n][h]
  BY <1>1 DEF Turns
<1> QED
  BY <1>0, <1>1, <1>2, <1>5, <1>6, ContentStill

LEMMA ContentOutside ==
    ASSUME Quiet, RemoteInv, BelowInv, ContentInv, NEW m \in Machines,
           \/ \E e \in Edits : Edit(m, e)
           \/ \E t \in Transports : SetTransport(m, t)
           \/ Loop(m) \/ RemoteCheckFails(m)
           \/ Restart(m)
    PROVE  ContentStep
<1>0. TypeInv /\ Orderly /\ DOMAIN stamp = Machines /\ MachHolds(m) /\ "crash" \notin Faults
  BY QuietIsCareful DEF RemoteInv, ContentInv, Careful
<1>1. CASE \E e \in Edits : Edit(m, e)
  BY <1>1, ContentEdit
<1>2. CASE \E t \in Transports : SetTransport(m, t)
  <2>1. store[m].transport = Webdav
    BY <1>0 DEF Quiet, TypeInv, Store
  <2> QED
    BY <1>2, <2>1 DEF Quiet, SetTransport
<1>3. CASE Loop(m) \/ RemoteCheckFails(m)
  <2>1. /\ "auto" \in Triggers /\ op[m]["auto"].pc \notin BusyPCs
        /\ Turns(m, "auto", op'[m]["auto"]) /\ Rests(op'[m]["auto"])
        /\ UNCHANGED <<store, stamp, staged, remote>>
    BY <1>0, <1>3, TickStep
  <2>2. UNCHANGED <<commits, made>>
    BY <1>3 DEF Loop, TickClean, TickDirty, RemoteCheck, RemoteCheckFails, bounds
  <2>3. \A n \in Machines, h \in Triggers :
          n # m \/ h # "auto" => op'[n][h] = op[n][h]
    BY <2>1 DEF Turns
  <2>4. CASE \E h \in Triggers : op[m][h].pc \in BusyPCs
    <3>1. PICK h \in Triggers : op[m][h].pc \in BusyPCs
      BY <2>4
    <3>2. op'[m][h] = op[m][h] /\ h # "auto"
      BY <2>1, <2>3, <3>1
    <3>3. \A n \in Machines, k \in Triggers :
            op'[n][k] = op[n][k] \/ op'[n][k].pc \notin BusyPCs
      BY <2>1, <2>3 DEF Rests
    <3>4. SameTop /\ Grows
      BY <2>1, <2>2 DEF SameTop, Grows, TopGen, TopContent, Held, commits, Fits
    <3>5. RemHolds'
      <4>1. Committing(Webdav) => Committing(Webdav)'
        <5> SUFFICES ASSUME NEW n \in Machines, NEW k \in Triggers, op[n][k].pc = "meta"
                     PROVE  op'[n][k] = op[n][k]
          BY DEF Committing
        <5> QED
          BY <2>1, <2>3 DEF BusyPCs, PushPCs
      <4> QED
        BY <2>1, <2>2, <3>4, <4>1 DEF ContentInv, RemHolds, commits, Held, SameTop
    <3>6. MachHolds(m)'
      BY <1>0, <2>1, <2>2, <3>4, MachFrame
    <3>7. ASSUME NEW k \in Triggers
          PROVE  OpHolds(m, k)'
      <4>1. CASE op'[m][k].pc \notin BusyPCs
        BY <4>1, RestsHolds
      <4>2. CASE op'[m][k] = op[m][k]
        BY <2>1, <2>2, <3>4, <4>2, OpFrame DEF ContentInv, commits
      <4> QED
        BY <3>3, <4>1, <4>2
    <3> QED
      BY <1>0, <2>1, <2>2, <2>3, <3>4, <3>5, <3>6, <3>7, ContentFrame
      DEF ContentInv, commits
  <2>5. CASE \A h \in Triggers : op[m][h].pc \notin BusyPCs
    <3>1. \A h \in Triggers : op'[m][h].pc \notin BusyPCs
      BY <2>1, <2>3, <2>5 DEF Rests
    <3>2. ASSUME SameTop, Held' = Held
          PROVE  MachHolds(m)' /\ \A h \in Triggers : OpHolds(m, h)'
      BY <1>0, <2>1, <2>2, <3>1, <3>2, MachKept, RestsHolds DEF MachHolds
    <3> QED
      BY <1>0, <2>1, <2>2, <2>3, <2>5, <3>2, ContentStill
  <2> QED
    BY <2>4, <2>5
<1>4. CASE Restart(m)
  <2>1. \A h \in Triggers : op[m][h].pc \notin BusyPCs
    BY <1>0, <1>4 DEF Restart, Busy, BusyPCs
  <2>2. /\ \A g \in Triggers : op'[m][g].pc \notin BusyPCs
        /\ \A n \in Machines : n # m =>
             op'[n] = op[n] /\ store'[n] = store[n] /\ staged'[n] = staged[n]
        /\ staged'[m] = None /\ UNCHANGED remote
        /\ \/ staged[m] = None /\ UNCHANGED <<store, stamp>>
           \/ /\ staged[m] \in Store /\ store'[m] = staged[m]
              /\ stamp' = [stamp EXCEPT ![m] = ContentFingerprint(staged[m].content)]
    BY <1>0, <1>4, RestartStep DEF Rests
  <2>3. UNCHANGED <<commits, made>>
    BY <1>4 DEF Restart
  <2>4. ASSUME SameTop, Held' = Held
        PROVE  MachHolds(m)'
    <3>1. CASE staged[m] = None /\ UNCHANGED <<store, stamp>>
      BY <1>0, <2>2, <2>3, <2>4, <3>1, MachKept DEF MachHolds
    <3>2. CASE /\ staged[m] \in Store /\ store'[m] = staged[m]
               /\ stamp' = [stamp EXCEPT ![m] = ContentFingerprint(staged[m].content)]
      <4>1. Fits(staged[m])
        BY <1>0, <3>2, NoneAssumption DEF MachHolds
      <4>2. stamp'[m] = ContentFingerprint(staged[m].content)
        BY <1>0, <3>2
      <4>3. AtGen(m, store[m].gens[Webdav])'
        BY <2>4, <3>2, <4>1 DEF AtGen, Fits, SameTop, syncFingerprint
      <4>4. staged[m].content \subseteq made
        BY <4>1 DEF Fits, ContentInv, RemHolds
      <4> QED
        BY <2>2, <2>3, <2>4, <3>2, <4>1, <4>2, <4>3, <4>4
        DEF MachHolds, Fits, ContentFingerprint
    <3> QED
      BY <2>2, <3>1, <3>2
  <2>5. DOMAIN stamp' = Machines /\ \A n \in Machines : n # m => stamp'[n] = stamp[n]
    BY <1>0, <2>2
  <2> QED
    BY <2>1, <2>2, <2>3, <2>4, <2>5, ContentStill, RestsHolds
<1> QED
  BY <1>1, <1>2, <1>3, <1>4

LEMMA ContentInit == Quiet /\ Init => ContentInv
<1> SUFFICES ASSUME Quiet, Init PROVE ContentInv
  OBVIOUS
<1>1. Webdav \in Transports
  BY SyncAssumption
<1>2. TopGen(Webdav) = 0 /\ TopContent(Webdav) = {} /\ Held = {}
  BY <1>1 DEF Init, TopGen, TopContent, Held
<1>3. RemHolds
  BY <1>1, <1>2 DEF Init, RemHolds
<1>4. \A m \in Machines : MachHolds(m)
  BY <1>1, <1>2 DEF Init, MachHolds, AtGen
<1>5. \A m \in Machines, g \in Triggers : op[m][g].pc \in {"idle", "check"}
  BY DEF Init, Started, Idle
<1>6. \A m \in Machines, g \in Triggers : OpHolds(m, g)
  BY <1>5 DEF OpHolds, Deciding
<1> QED
  BY <1>3, <1>4, <1>6 DEF Init, ContentInv

LEMMA ContentNext ==
    ASSUME Quiet, RemoteInv, BelowInv, ContentInv, OfferInv, [Next]_vars
    PROVE  ContentStep
<1>1. ASSUME UNCHANGED <<store, stamp, staged, remote, op, commits, made>>
      PROVE  ContentStep
  <2>1. UNCHANGED <<store, stamp, staged, remote, op, committed, forced, shipped, made>>
    BY <1>1 DEF commits
  <2>2. RemHolds' /\ (\A m \in Machines : MachHolds(m)')
    BY <2>1 DEF ContentInv, RemHolds, MachHolds, AtGen, Fits, Held, TopGen, TopContent,
                syncDirty, syncFingerprint, Committing
  <2>3. \A m \in Machines, g \in Triggers : OpHolds(m, g)'
    BY <2>1 DEF ContentInv, OpHolds, AtGen, Fits, Held, TopGen, TopContent,
                syncDirty, syncFingerprint
  <2> QED
    BY <2>1, <2>2, <2>3 DEF ContentInv, ContentStep, Held, TopContent
<1>2. CASE Next
  <2>1. PICK m \in Machines :
          \/ \E e \in Edits : Edit(m, e)
          \/ \E t \in Transports : SetTransport(m, t)
          \/ \E g \in Triggers, f \in BOOLEAN : BeginPush(m, g, f)
          \/ \E g \in Triggers : PushStep(m, g) \/ PullStep(m, g) \/ FailStep(m, g)
          \/ Offer(m) \/ \E g \in Triggers : BeginsPull(m, g)
          \/ Loop(m) \/ RemoteCheckFails(m)
          \/ Restart(m)
    BY <1>2 DEF Next, BeginsPull
  <2>2. CASE \E g \in Triggers, f \in BOOLEAN : BeginPush(m, g, f)
    BY <2>2, ContentBegin DEF Begins
  <2>3. CASE \E g \in Triggers : BeginsPull(m, g)
    BY <2>3, ContentBegin DEF Begins
  <2>4. CASE \E g \in Triggers : PushStep(m, g) \/ PullStep(m, g) \/ FailStep(m, g)
    <3>1. PICK g \in Triggers : PushStep(m, g) \/ PullStep(m, g) \/ FailStep(m, g)
      BY <2>4
    <3>2. CASE PushStep(m, g)
      BY <3>2, ContentFetch, ContentGivesUp, ContentPersist, ContentSeal, ContentPut,
         ContentClear, ContentLand, ContentMeta, ContentStamp
      DEF PushStep, GivesUp, Lands
    <3>3. CASE PullStep(m, g)
      BY <3>3, ContentPullMeta, ContentPullGet, ContentApply, ContentPullStamp,
         ContentPullEnds
      DEF PullStep
    <3>4. CASE FailStep(m, g)
      BY <3>4, ContentGivesUp, QuietIsCareful, NotLate, ContentPullEnds, ContentNotStaged
      DEF FailStep, GivesUp
    <3> QED
      BY <3>1, <3>2, <3>3, <3>4
  <2>5. CASE Offer(m)
    BY <1>1, <2>5 DEF Offer, bounds
  <2> QED
    BY <2>1, <2>2, <2>3, <2>4, <2>5, ContentOutside
<1> QED
  BY <1>1, <1>2 DEF vars, bounds

LEMMA OfferNext ==
    ASSUME Quiet, RemoteInv, ContentInv, OfferInv, Held \subseteq Held', [Next]_vars
    PROVE  OfferInv'
<1>1. ASSUME UNCHANGED offered
      PROVE  OfferInv'
  BY <1>1 DEF OfferInv
<1>2. ASSUME NEW m \in Machines, offered' = [offered EXCEPT ![m] = None]
      PROVE  OfferInv'
  BY <1>2 DEF OfferInv
<1>3. ASSUME NEW m \in Machines, Offer(m)
      PROVE  OfferInv'
  <2>1. offered' = [offered EXCEPT ![m] = stamp[m]] /\ stamp[m] = syncFingerprint(m)
    BY <1>3 DEF Offer, syncDirty
  <2>2. syncFingerprint(m) \in SUBSET Edits
    BY DEF RemoteInv, TypeInv, Store, syncFingerprint, ContentFingerprint
  <2>3. stamp[m] \subseteq Held
    BY <2>1, <2>2, NoneAssumption DEF ContentInv, MachHolds
  <2> QED
    BY <2>1, <2>3 DEF OfferInv
<1>4. ASSUME NEW m \in Machines, NEW g \in Triggers,
             PushStep(m, g) \/ PullStep(m, g) \/ FailStep(m, g)
      PROVE  UNCHANGED offered
  <2>1. CASE PushStep(m, g)
    <3>1. CASE PushFetch(m, g) \/ PushRefused(m, g) \/ PushPersist(m, g) \/ PushSeal(m, g)
      BY <3>1 DEF PushFetch, PushRefused, PushPersist, PushSeal, front
    <3>2. CASE PushPut(m, g) \/ PushMove(m, g) \/ PushMoveClear(m, g)
      BY <3>2 DEF PushPut, PushMove, PushMoveClear, front
    <3>3. CASE PushRename(m, g) \/ PushMoveFallback(m, g) \/ PushMeta(m, g) \/ PushStamp(m, g)
      BY <3>3 DEF PushRename, PushMoveFallback, PushMeta, PushStamp, front
    <3> QED
      BY <2>1, <3>1, <3>2, <3>3 DEF PushStep
  <2>2. CASE PullStep(m, g)
    BY <2>2 DEF PullStep, PullMeta, PullGet, PullApplyLive, PullStamp, PullStage, front
  <2>3. CASE FailStep(m, g)
    BY <2>3 DEF FailStep, PushFail, PushFailLate, PushMetaLost, PullFail, PullNotStaged,
       front
  <2> QED
    BY <1>4, <2>1, <2>2, <2>3
<1>5. ASSUME NEW m \in Machines, NEW g \in Triggers, BeginsPull(m, g)
      PROVE  OfferInv'
  BY <1>1, <1>2, <1>5 DEF BeginsPull, BeginPull, BeginQuickPull
<1>6. ASSUME NEW m \in Machines, NEW g \in Triggers, NEW f \in BOOLEAN,
             BeginPush(m, g, f)
      PROVE  UNCHANGED offered
  BY <1>6 DEF BeginPush, front
<1>7. ASSUME NEW m \in Machines,
             \/ \E e \in Edits : Edit(m, e)
             \/ \E t \in Transports : SetTransport(m, t)
             \/ Loop(m) \/ RemoteCheckFails(m)
      PROVE  UNCHANGED offered
  BY <1>7 DEF Edit, SetTransport, Loop, TickClean, TickDirty, RemoteCheck,
     RemoteCheckFails, front
<1>8. ASSUME NEW m \in Machines, Restart(m)
      PROVE  OfferInv'
  BY <1>2, <1>8 DEF Restart
<1>9. CASE Next
  <2>1. PICK m \in Machines :
          \/ \E e \in Edits : Edit(m, e)
          \/ \E t \in Transports : SetTransport(m, t)
          \/ \E g \in Triggers, f \in BOOLEAN : BeginPush(m, g, f)
          \/ \E g \in Triggers : PushStep(m, g) \/ PullStep(m, g) \/ FailStep(m, g)
          \/ Offer(m) \/ \E g \in Triggers : BeginsPull(m, g)
          \/ Loop(m) \/ RemoteCheckFails(m)
          \/ Restart(m)
    BY <1>9 DEF Next, BeginsPull
  <2> QED
    BY <1>1, <1>3, <1>4, <1>5, <1>6, <1>7, <1>8, <2>1
<1> QED
  BY <1>1, <1>9 DEF vars, front

\* The three layers together.
SyncInv == RemoteInv /\ BelowInv /\ ContentInv /\ OfferInv

LEMMA SyncInvariant ==
    ASSUME Quiet
    PROVE  Spec => []SyncInv
<1>1. Careful /\ Orderly
  BY QuietIsCareful DEF Careful
<1>2. Init => SyncInv
  BY RemoteInit, BelowInit, ContentInit DEF SyncInv, OfferInv, Init
<1>3. SyncInv /\ [Next]_vars => SyncInv'
  BY <1>1, RemoteNext, BelowNext, ContentNext, OfferNext DEF SyncInv, ContentStep
<1> QED
  BY <1>2, <1>3, PTL DEF Spec

\* Nothing is between its snapshot and its generation when nobody pushes.
LEMMA NotCommitting ==
    ASSUME NEW t, Pushing(t) = {}
    PROVE  ~Committing(t)
<1> SUFFICES ASSUME NEW n \in Machines, NEW h \in Triggers,
                    op[n][h].pc = "meta", op[n][h].tr = t
             PROVE  <<n, h>> \in Pushing(t)
  BY DEF Committing
<1> QED
  BY DEF Pushing, PushPCs

\* "in_sync" of a clean machine tells the truth, as far as the fingerprint
\* sees: equal generations mean that the machine has the profile committed last,
\* and at most unsigned edits on top of it.
THEOREM InSyncTellsTheTruth ==
    ASSUME Quiet
    PROVE  Spec => []InSyncIsIdentical
<1>1. SyncInv => InSyncIsIdentical
  <2> SUFFICES ASSUME SyncInv, NEW m \in Machines, NEW t \in Transports,
                      t = store[m].transport, Pushing(t) = {}, ~syncDirty(m),
                      remote[t].meta # 0, syncGeneration(m) = remote[t].meta
               PROVE  /\ committed[t] \subseteq store[m].content
                      /\ store[m].content \ committed[t] \subseteq Unsigned
    BY DEF InSyncIsIdentical, SyncInv, RemoteInv, TypeInv, Store
  <2>1. t = Webdav
    BY DEF Quiet
  <2>2. TopContent(Webdav) = committed[Webdav] /\ TopGen(Webdav) = remote[Webdav].meta
    BY <2>1, NotCommitting, CommittedIsTop DEF SyncInv
  <2>3. AtGen(m, store[m].gens[Webdav])
    BY DEF SyncInv, ContentInv, MachHolds
  <2>4. /\ TopContent(Webdav) \subseteq store[m].content
        /\ ContentFingerprint(store[m].content) = ContentFingerprint(TopContent(Webdav))
    BY <2>1, <2>2, <2>3 DEF AtGen, syncGeneration, syncFingerprint
  <2> QED
    BY <2>1, <2>2, <2>4 DEF ContentFingerprint
<1> QED
  BY <1>1, SyncInvariant, PTL

\* What the fingerprint sees of a profile that does not show as dirty has been
\* pushed, whoever stamped it: a push, a pull or a start with a staged restore.
THEOREM CleanMeansPushed ==
    ASSUME Quiet
    PROVE  Spec => []CleanIsPushed
<1>1. SyncInv => CleanIsPushed
  <2> SUFFICES ASSUME SyncInv, NEW m \in Machines, NEW t \in Transports,
                      t = store[m].transport, Pushing(t) = {}, ~syncDirty(m)
               PROVE  store[m].content \ shipped \subseteq Unsigned
    BY DEF CleanIsPushed, SyncInv, RemoteInv, TypeInv, Store
  <2>1. t = Webdav
    BY DEF Quiet
  <2>2. Held = shipped
    BY <2>1, NotCommitting, CommittedIsTop DEF SyncInv
  <2>3. stamp[m] = syncFingerprint(m) /\ stamp[m] # None
    <3>1. syncFingerprint(m) \in SUBSET Edits
      BY DEF SyncInv, RemoteInv, TypeInv, Store, syncFingerprint, ContentFingerprint
    <3> QED
      BY <3>1, NoneAssumption DEF syncDirty
  <2>4. syncFingerprint(m) \subseteq shipped
    BY <2>2, <2>3 DEF SyncInv, ContentInv, MachHolds
  <2> QED
    BY <2>4 DEF syncFingerprint, ContentFingerprint
<1> QED
  BY <1>1, SyncInvariant, PTL

\* The guard on the generation does what syncer.Push promises: a commit that
\* was not forced holds every edit of the commit it replaces.
THEOREM NothingOverwritten ==
    ASSUME Quiet
    PROVE  Spec => NoLostUpdate
<1> DEFINE Holds ==
             \A t \in Transports :
               remote[t].meta' # remote[t].meta /\ ~forced'[t]
                 => committed[t] \subseteq committed'[t]
<1>1. SyncInv /\ [Next]_vars => Holds \/ UNCHANGED vars
  <2> SUFFICES ASSUME SyncInv, Next
               PROVE  Holds
    OBVIOUS
  <2>1. Careful /\ Orderly /\ RemoteInv /\ BelowInv /\ ContentInv /\ TypeInv
    BY QuietIsCareful DEF Careful, SyncInv, RemoteInv
  <2>2. ASSUME NEW m \in Machines, NEW g \in Triggers, PushMeta(m, g)
        PROVE  Holds
    <3>1. /\ OpStep(m, g) /\ op[m][g].pc = "meta"
      BY <2>1, <2>2, MetaStep
    <3>2. /\ op[m][g].tr = Webdav /\ OpHolds(m, g)
      BY <2>1, <3>1, ContentBase DEF OpStep
    <3>3. /\ committed' = [committed EXCEPT ![Webdav] = op[m][g].blob.content]
          /\ forced' = [forced EXCEPT ![Webdav] = op[m][g].force]
      BY <2>2, <3>2 DEF PushMeta, CommitMeta
    <3>4. DOMAIN committed = Transports /\ DOMAIN forced = Transports
      BY <2>1 DEF ContentInv
    <3>5. ~op[m][g].force => committed[Webdav] \subseteq op[m][g].blob.content
      BY <3>1, <3>2 DEF OpHolds
    <3> QED
      BY <3>3, <3>4, <3>5 DEF Quiet
  <2>3. ASSUME NEW m \in Machines, NEW g \in Triggers,
               PushPut(m, g) \/ PushMoveClear(m, g) \/ Lands(m, g)
        PROVE  Holds
    <3>1. op[m][g].tr \in Transports
      BY <2>1 DEF TypeInv, IsOp
    <3>2. OpStep(m, g) /\ remote'[op[m][g].tr].meta = remote[op[m][g].tr].meta
      BY <2>1, <2>3, PutStep, ClearStep, LandStep DEF Continues
    <3>3. \A t \in Transports : remote'[t].meta = remote[t].meta
      BY <3>2 DEF OpStep, RemoteOf
    <3> QED
      BY <3>3
  <2>4. CASE UNCHANGED remote
    BY <2>4
  <2>5. \/ UNCHANGED remote
        \/ \E m \in Machines, g \in Triggers :
             \/ PushMeta(m, g) \/ PushMetaLost(m, g)
             \/ PushPut(m, g) \/ PushMoveClear(m, g) \/ Lands(m, g)
    <3>1. PICK m \in Machines :
            \/ \E e \in Edits : Edit(m, e)
            \/ \E t \in Transports : SetTransport(m, t)
            \/ \E g \in Triggers, f \in BOOLEAN : BeginPush(m, g, f)
            \/ \E g \in Triggers : PushStep(m, g) \/ PullStep(m, g) \/ FailStep(m, g)
            \/ Offer(m) \/ \E g \in Triggers : BeginsPull(m, g)
            \/ Loop(m) \/ RemoteCheckFails(m)
            \/ Restart(m)
      BY DEF Next, BeginsPull
    <3>2. CASE \E g \in Triggers : PushStep(m, g)
      BY <3>2 DEF PushStep, PushFetch, PushRefused, PushPersist, PushSeal, PushStamp, Lands
    <3>3. CASE \E g \in Triggers : PullStep(m, g)
      BY <3>3 DEF PullStep, PullMeta, PullGet, PullApplyLive, PullStamp, PullStage
    <3>4. CASE \E g \in Triggers : FailStep(m, g)
      BY <3>4 DEF FailStep, PushFail, PushFailLate, PullFail, PullNotStaged
    <3>5. CASE \/ \E e \in Edits : Edit(m, e)
               \/ \E t \in Transports : SetTransport(m, t)
               \/ Offer(m) \/ \E g \in Triggers : BeginsPull(m, g)
      BY <3>5 DEF Edit, SetTransport, Offer, BeginsPull, BeginQuickPull, BeginPull,
         StartPull
    <3>7. CASE \E g \in Triggers, f \in BOOLEAN : BeginPush(m, g, f)
      BY <3>7 DEF BeginPush
    <3>6. CASE Loop(m) \/ RemoteCheckFails(m) \/ Restart(m)
      BY <3>6 DEF Loop, TickClean, TickDirty, RemoteCheck, RemoteCheckFails, Restart
    <3> QED
      BY <3>1, <3>2, <3>3, <3>4, <3>5, <3>6, <3>7
  <2> QED
    BY <2>1, <2>2, <2>3, <2>4, <2>5, NotLate
<1> HIDE DEF Holds
<1>2. Spec => [][Holds]_vars
  BY <1>1, SyncInvariant, PTL DEF Spec
<1> QED
  BY <1>2 DEF Holds, NoLostUpdate

\* A quick pull, however long after its offer it starts and whatever changed
\* meanwhile, replaces no edit the offer was made about, unless it is pushed.
THEOREM QuickPullIsLossless ==
    ASSUME Quiet
    PROVE  Spec => QuickPullLossless
<1> DEFINE Lossless ==
             \A m \in Machines :
               \A g \in Triggers :
                 op[m][g].mode = "quick" /\ PullApplyLive(m, g)
                   => (store[m].content \ store'[m].content) \cap op[m][g].answer
                        \subseteq shipped
<1>1. SyncInv => Lossless
  <2> SUFFICES ASSUME SyncInv, NEW m \in Machines, NEW g \in Triggers,
                      op[m][g].mode = "quick", PullApplyLive(m, g)
               PROVE  (store[m].content \ store'[m].content) \cap op[m][g].answer
                        \subseteq shipped
    OBVIOUS
  <2>1. op[m][g].pc = "papply" /\ store'[m].content = op[m][g].blob.content
    BY QuietIsCareful, ApplyStep DEF Careful, SyncInv
  <2>2. op[m][g].answer \ op[m][g].blob.content \subseteq shipped
    BY <2>1 DEF SyncInv, ContentInv, OpHolds
  <2> QED
    BY <2>1, <2>2
<1> HIDE DEF Lossless
<1>2. Spec => [][Lossless]_vars
  BY <1>1, SyncInvariant, PTL
<1> QED
  BY <1>2 DEF Lossless, QuickPullLossless
=============================================================================
