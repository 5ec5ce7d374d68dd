------------------------- MODULE VersionCacheProofs -------------------------
(***************************************************************************)
(* Proofs about the caches, for any number of workers, threads and writes. *)
(* Whether a cache is fresh depends on the deployment: the theorems name   *)
(* the deployments they are about.                                         *)
(***************************************************************************)
EXTENDS VersionCache, TLAPS

-----------------------------------------------------------------------------
(* Types *)

Places == {"idle", "wrote", "bump", "open", "load", "store", "use",
           "compare", "build", "built", "stamp", "serve"}
Transaction == [writes: SUBSET Writes, counter: Nat]
Cached == [ver: Version \cup {NoVersion}, vals: SUBSET Writes]

TypeOK ==
  /\ deployment \in Deployments
  /\ version \in Nat
  /\ data \subseteq Writes
  /\ made \in 0..deployment.writes
  /\ lock \in Sessions \cup {NoSession}
  /\ local \in [Workers -> Nat]
  /\ cache \in [Workers -> Cached]
  /\ snaps \in [Workers -> Cached]
  /\ pc \in [Sessions -> Places]
  /\ goal \in [Sessions -> {"get", "snapshot", "stamp"}]
  /\ tx \in [Sessions -> Transaction]
  /\ seen \in [Sessions -> Nat]
  /\ ver \in [Sessions -> Version]
  /\ rows \in [Sessions -> SUBSET Writes]
  /\ must \in [Sessions -> SUBSET Writes]

(* A statement of the session s. *)
Statement(s) ==
  \/ Write(s) \/ BumpRead(s) \/ BumpWrite(s) \/ Commit(s) \/ Rollback(s)
  \/ StartRead(s) \/ LoadSettings(s) \/ StoreSettings(s) \/ UseSetting(s)
  \/ ServeCached(s) \/ Rebuild(s) \/ Build(s) \/ ReadVersionAgain(s) \/ Stamp(s) \/ Serve(s)

(* Where _sync() returns to, by what it was called for. *)
LEMMA SyncedPlaces ==
  ASSUME NEW what \in {"get", "snapshot", "stamp"}
  PROVE  Synced(what) \in {"use", "compare", "stamp"} /\ (Synced(what) = "stamp" => what = "stamp")
BY DEF Synced

(* Types hold at first, and every statement and restart keeps them. *)
LEMMA InitTypes == Init => TypeOK
<1> SUFFICES ASSUME Init PROVE TypeOK
  OBVIOUS
<1>1. deployment.writes \in Nat BY CacheAssumption DEF Init
<1>2. Empty \in Cached BY DEF Empty, Cached
<1>3. \A s \in Sessions : WorkerOf[s] \in Workers BY CacheAssumption
<1> QED BY <1>1, <1>2 DEF Init, TypeOK, Places, Transaction, Version

(* A statement keeps the types. *)
LEMMA StatementTypes ==
  ASSUME TypeOK, NEW s \in deployment.sessions, Statement(s), UNCHANGED deployment
  PROVE  TypeOK'
<1> DEFINE w == WorkerOf[s]
<1>0. /\ s \in Sessions /\ w \in Workers /\ deployment.writes \in 0..MaxWrites
      /\ MaxWrites \in Nat
  BY CacheAssumption DEF TypeOK
<1>1. /\ VisibleVersion(s) \in Nat /\ VisibleData(s) \subseteq Writes /\ Current(s) \in Version
  BY <1>0 DEF TypeOK, VisibleVersion, VisibleData, Current, Transaction, Version
<1>2. tx[s] \in Transaction /\ local[w] \in Nat /\ cache[w] \in Cached /\ snaps[w] \in Cached
  BY <1>0 DEF TypeOK
<1>3. CASE Write(s)
  <2>1. made' \in 0..deployment.writes /\ made' \in Writes BY <1>0, <1>3 DEF Write, TypeOK, Writes
  <2>2. [tx[s] EXCEPT !.writes = @ \cup {made'}] \in Transaction BY <1>2, <2>1 DEF Transaction
  <2>3. tx' \in [Sessions -> Transaction] BY <1>0, <1>3, <2>2 DEF Write, TypeOK
  <2> QED BY <1>0, <1>3, <2>1, <2>3 DEF Write, Go, TypeOK, Places
<1>4. CASE BumpRead(s)
  BY <1>0, <1>1, <1>2, <1>4 DEF BumpRead, Go, TypeOK, Places
<1>5. CASE BumpWrite(s)
  <2>1. [tx[s] EXCEPT !.counter = seen[s] + 1] \in Transaction BY <1>0, <1>2 DEF Transaction, TypeOK
  <2>2. tx' \in [Sessions -> Transaction] BY <1>0, <1>5, <2>1 DEF BumpWrite, TypeOK
  <2>3. [cache[w] EXCEPT !.ver = NoVersion] \in Cached BY <1>2 DEF Cached
  <2>4. cache' \in [Workers -> Cached] BY <1>0, <1>5, <2>3 DEF BumpWrite, TypeOK
  <2> QED BY <1>0, <1>5, <2>2, <2>4 DEF BumpWrite, Go, TypeOK, Places
<1>6. CASE Commit(s) \/ Rollback(s)
  <2>1. [writes |-> {}, counter |-> 0] \in Transaction BY DEF Transaction
  <2>2. tx' \in [Sessions -> Transaction] BY <1>0, <1>6, <2>1 DEF Commit, Rollback, EndTx, TypeOK
  <2>3. data' \subseteq Writes /\ version' \in Nat
    BY <1>0, <1>2, <1>6 DEF Commit, Rollback, TypeOK, Transaction
  <2> QED BY <1>0, <1>6, <2>2, <2>3 DEF Commit, Rollback, EndTx, Go, TypeOK, Places
<1>7. CASE StartRead(s) \/ ReadVersionAgain(s)
  <2>1. PICK what \in {"get", "snapshot", "stamp"} :
          Compare(s, what) /\ UNCHANGED <<version, data, made, lock, local, cache, snaps, tx, seen, rows>>
    BY <1>7 DEF StartRead, ReadVersionAgain
  <2>2. Synced(what) \in Places BY SyncedPlaces DEF Places
  <2> QED BY <1>0, <1>1, <2>1, <2>2 DEF Compare, Go, TypeOK, Places
<1>8. CASE LoadSettings(s) \/ UseSetting(s) \/ ServeCached(s) \/ Rebuild(s) \/ Serve(s)
  BY <1>0, <1>1, <1>8 DEF LoadSettings, UseSetting, ServeCached, Rebuild, Serve, Back, Go, TypeOK, Places
<1>9. CASE StoreSettings(s)
  <2>1. Synced(goal[s]) \in Places BY <1>0, SyncedPlaces DEF TypeOK, Places
  <2>2. [ver |-> ver[s], vals |-> rows[s]] \in Cached BY <1>0 DEF TypeOK, Cached
  <2> QED BY <1>0, <1>9, <2>1, <2>2 DEF StoreSettings, Go, TypeOK
<1>10. CASE Build(s) \/ Stamp(s)
  <2>1. /\ [snaps[w] EXCEPT !.vals = VisibleData(s)] \in Cached
        /\ [snaps[w] EXCEPT !.ver = cache[w].ver] \in Cached
    BY <1>1, <1>2 DEF Cached
  <2>2. snaps' \in [Workers -> Cached] BY <1>0, <1>10, <2>1 DEF Build, Stamp, TypeOK
  <2> QED BY <1>0, <1>10, <2>2 DEF Build, Stamp, Go, TypeOK, Places
<1> QED BY <1>3, <1>4, <1>5, <1>6, <1>7, <1>8, <1>9, <1>10 DEF Statement

(* A restart keeps the types. *)
LEMMA RestartTypes ==
  ASSUME TypeOK, NEW w \in Workers, Restart(w), UNCHANGED deployment
  PROVE  TypeOK'
<1>1. Empty \in Cached /\ [writes |-> {}, counter |-> 0] \in Transaction
  BY DEF Empty, Cached, Transaction
<1>2. cache' \in [Workers -> Cached] /\ snaps' \in [Workers -> Cached] /\ local' \in [Workers -> Nat]
  BY <1>1 DEF Restart, TypeOK
<1>3. tx' \in [Sessions -> Transaction] /\ pc' \in [Sessions -> Places]
  BY <1>1 DEF Restart, TypeOK, Places
<1> QED BY <1>2, <1>3 DEF Restart, TypeOK

(* Every step keeps the types. *)
LEMMA StepTypes == TypeOK /\ [Next]_vars => TypeOK'
<1> SUFFICES ASSUME TypeOK, [Next]_vars PROVE TypeOK'
  OBVIOUS
<1>1. CASE Next
  BY <1>1, StatementTypes, RestartTypes DEF Next, Statement
<1>2. CASE UNCHANGED vars
  BY <1>2 DEF vars, TypeOK
<1> QED BY <1>1, <1>2

(* Every variable of the caches keeps its type. *)
THEOREM TypeCorrect == Spec => []TypeOK
<1> QED BY InitTypes, StepTypes, PTL DEF Spec

-----------------------------------------------------------------------------
(* Writers take turns *)

NoTx == [writes |-> {}, counter |-> 0]
Unbumped == {"wrote", "bump"}

(* A session that serves no requests does nothing. *)
Quiet == \A s \in Sessions : s \notin deployment.sessions => pc[s] = "idle" /\ tx[s] = NoTx

Holder ==
  deployment.databaseLock => \A s \in Sessions : tx[s].writes # {} => lock = s

(* Where a session stands in its transaction: every write is followed by a  *)
(* bump of the counter, whose value stays above the committed one.          *)
Bumped ==
  \A s \in Sessions :
    /\ pc[s] \in {"wrote", "bump", "open"} => tx[s].writes # {}
    /\ pc[s] = "idle" => tx[s].writes = {}
    /\ tx[s].writes = {} => tx[s].counter = 0
    /\ tx[s].writes # {} /\ pc[s] \notin Unbumped => tx[s].counter # 0

Ahead ==
  Serial(deployment) =>
    \A s \in Sessions : /\ tx[s].counter # 0 => tx[s].counter > version
                        /\ pc[s] = "bump" => seen[s] = VisibleVersion(s)

WriteInv == TypeOK /\ Quiet /\ Holder /\ Bumped /\ Ahead

(* A statement of one session leaves those of the others, and the memory of *)
(* other processes.                                                         *)
LEMMA OthersKeep ==
  ASSUME TypeOK, NEW s \in Sessions, Statement(s)
  PROVE  /\ \A t \in Sessions : t # s =>
              /\ pc'[t] = pc[t] /\ goal'[t] = goal[t] /\ tx'[t] = tx[t] /\ seen'[t] = seen[t]
              /\ ver'[t] = ver[t] /\ rows'[t] = rows[t] /\ must'[t] = must[t]
         /\ \A w \in Workers : w # WorkerOf[s] =>
              local'[w] = local[w] /\ cache'[w] = cache[w] /\ snaps'[w] = snaps[w]
<1> USE DEF Go
<1>1. CASE Write(s) \/ BumpRead(s) \/ BumpWrite(s) \/ Commit(s) \/ Rollback(s)
  BY <1>1 DEF TypeOK, Write, BumpRead, BumpWrite, Commit, Rollback, EndTx
<1>2. CASE StartRead(s) \/ ReadVersionAgain(s)
  BY <1>2 DEF TypeOK, StartRead, ReadVersionAgain, Compare
<1>3. CASE LoadSettings(s) \/ StoreSettings(s) \/ UseSetting(s) \/ ServeCached(s)
           \/ Rebuild(s) \/ Build(s) \/ Stamp(s) \/ Serve(s)
  BY <1>3 DEF TypeOK, LoadSettings, StoreSettings, UseSetting, ServeCached, Rebuild, Build, Stamp, Serve
<1> QED BY <1>1, <1>2, <1>3 DEF Statement

(* Where writers take turns, nobody else has something to commit.           *)
LEMMA OneWriter ==
  ASSUME WriteInv, Serial(deployment), NEW s \in deployment.sessions, tx[s].writes # {},
         NEW t \in Sessions, t # s
  PROVE  tx[t].writes = {} /\ tx[t].counter = 0 /\ pc[t] # "bump"
<1>0. s \in Sessions BY CacheAssumption DEF WriteInv, TypeOK
<1>1. CASE Alone(deployment)
  BY <1>1 DEF Alone, WriteInv, Quiet, NoTx
<1>2. CASE deployment.databaseLock
  BY <1>0, <1>2, CacheAssumption DEF WriteInv, Holder, Bumped
<1> QED BY <1>1, <1>2 DEF Serial

Reading == {"load", "store", "use", "compare", "build", "built", "stamp", "serve"}

(* A statement that only reads, or the end of a read.                       *)
Reads(s) ==
  \/ StartRead(s) \/ LoadSettings(s) \/ StoreSettings(s) \/ UseSetting(s)
  \/ ServeCached(s) \/ Rebuild(s) \/ Build(s) \/ ReadVersionAgain(s) \/ Stamp(s) \/ Serve(s)

(* Reading changes neither data nor versions nor transactions. *)
LEMMA ReadsOnly ==
  ASSUME TypeOK, NEW s \in Sessions, Reads(s)
  PROVE  /\ UNCHANGED <<version, data, made, lock, local, tx, seen>>
         /\ pc[s] \in Reading \cup {"idle", "open"}
         /\ pc'[s] \in Reading \/ pc'[s] = Back(s)
<1> USE DEF Go, Reading
<1>1. CASE StartRead(s) \/ ReadVersionAgain(s)
  <2>1. PICK what \in {"get", "snapshot", "stamp"} :
          Compare(s, what) /\ UNCHANGED <<version, data, made, lock, local, cache, snaps, tx, seen, rows>>
    BY <1>1 DEF StartRead, ReadVersionAgain
  <2>2. Synced(what) \in Reading BY SyncedPlaces
  <2> QED BY <1>1, <2>1, <2>2 DEF Compare, StartRead, ReadVersionAgain, TypeOK
<1>2. CASE StoreSettings(s)
  <2>1. Synced(goal[s]) \in Reading BY SyncedPlaces DEF TypeOK
  <2> QED BY <1>2, <2>1 DEF StoreSettings, TypeOK
<1>3. CASE LoadSettings(s) \/ UseSetting(s) \/ ServeCached(s) \/ Rebuild(s) \/ Build(s) \/ Stamp(s) \/ Serve(s)
  BY <1>3 DEF LoadSettings, UseSetting, ServeCached, Rebuild, Build, Stamp, Serve, TypeOK
<1> QED BY <1>1, <1>2, <1>3 DEF Reads

(* A statement keeps the order of writers. *)
LEMMA StatementTurns ==
  ASSUME WriteInv, NEW s \in deployment.sessions, Statement(s), UNCHANGED deployment
  PROVE  WriteInv'
<1> USE DEF Go
<1>0. /\ TypeOK /\ s \in Sessions /\ tx[s] \in Transaction /\ version \in Nat /\ seen[s] \in Nat
      /\ pc[s] \in Places /\ tx \in [Sessions -> Transaction] /\ pc \in [Sessions -> Places]
  BY CacheAssumption DEF WriteInv, TypeOK
<1>1. TypeOK' BY <1>0, StatementTypes
<1>2. \A t \in Sessions : t # s => pc'[t] = pc[t] /\ tx'[t] = tx[t] /\ seen'[t] = seen[t]
  BY <1>0, OthersKeep
<1>3. Quiet'
  BY <1>2 DEF WriteInv, Quiet
<1>4. CASE Reads(s)
  <2>1. /\ UNCHANGED <<version, data, made, lock, local, tx, seen>>
        /\ pc[s] \in Reading \cup {"idle", "open"}
        /\ pc'[s] \in Reading \/ pc'[s] = Back(s)
    BY <1>0, <1>4, ReadsOnly
  <2>2. Holder' BY <2>1 DEF WriteInv, Holder
  <2>3. Bumped'
    <3>1. /\ pc'[s] \in {"wrote", "bump", "open"} => tx[s].writes # {}
          /\ pc'[s] = "idle" => tx[s].writes = {}
          /\ tx[s].writes = {} => tx[s].counter = 0
          /\ tx[s].writes # {} /\ pc'[s] \notin Unbumped => tx[s].counter # 0
      BY <1>0, <2>1 DEF WriteInv, Bumped, Reading, Back, Unbumped
    <3> QED BY <1>2, <2>1, <3>1 DEF WriteInv, Bumped
  <2>4. Ahead'
    <3>1. pc'[s] # "bump" BY <2>1 DEF Reading, Back
    <3> QED BY <1>2, <2>1, <3>1 DEF WriteInv, Ahead, VisibleVersion
  <2> QED BY <1>1, <1>3, <2>2, <2>3, <2>4 DEF WriteInv
<1>5. CASE Write(s)
  <2>1. /\ tx'[s].writes # {} /\ tx'[s].counter = tx[s].counter /\ pc'[s] = "wrote"
        /\ UNCHANGED <<version, seen>>
    BY <1>0, <1>5 DEF Write, Transaction
  <2>2. deployment.databaseLock => lock' = s /\ lock \in {NoSession, s}
    BY <1>5 DEF Write, Free
  <2>3. Holder' BY <1>2, <2>2, CacheAssumption DEF WriteInv, Holder
  <2>4. Bumped' BY <1>2, <2>1 DEF WriteInv, Bumped, Unbumped
  <2>5. Ahead' BY <1>2, <2>1 DEF WriteInv, Ahead, VisibleVersion
  <2> QED BY <1>1, <1>3, <2>3, <2>4, <2>5 DEF WriteInv
<1>6. CASE BumpRead(s)
  <2>1. /\ UNCHANGED <<version, tx, lock>> /\ pc[s] = "wrote" /\ pc'[s] = "bump"
        /\ seen'[s] = VisibleVersion(s)
    BY <1>0, <1>6 DEF BumpRead, TypeOK
  <2>2. Holder' BY <2>1 DEF WriteInv, Holder
  <2>3. Bumped' BY <1>2, <2>1 DEF WriteInv, Bumped, Unbumped
  <2>4. Ahead' BY <1>2, <2>1 DEF WriteInv, Ahead, VisibleVersion
  <2> QED BY <1>1, <1>3, <2>2, <2>3, <2>4 DEF WriteInv
<1>7. CASE BumpWrite(s)
  <2>1. /\ tx'[s].writes = tx[s].writes /\ tx'[s].counter = seen[s] + 1
        /\ pc[s] = "bump" /\ pc'[s] = "open" /\ lock' = s /\ lock \in {NoSession, s}
        /\ UNCHANGED <<version, seen>>
    BY <1>0, <1>7 DEF BumpWrite, Free, Transaction
  <2>2. Holder' BY <1>2, <2>1, CacheAssumption DEF WriteInv, Holder
  <2>3. Bumped' BY <1>0, <1>2, <2>1 DEF WriteInv, Bumped, Unbumped
  <2>4. Ahead'
    <3>1. Serial(deployment) => seen[s] >= version
      BY <1>0, <2>1 DEF WriteInv, Ahead, VisibleVersion, Transaction
    <3>2. Serial(deployment) => tx'[s].counter > version
      BY <1>0, <2>1, <3>1
    <3> QED BY <1>2, <2>1, <3>2 DEF WriteInv, Ahead, VisibleVersion
  <2> QED BY <1>1, <1>3, <2>2, <2>3, <2>4 DEF WriteInv
<1>8. CASE Commit(s) \/ Rollback(s)
  <2>1. tx'[s] = NoTx /\ pc'[s] = "idle" /\ tx[s].writes # {} /\ UNCHANGED seen
    BY <1>0, <1>8 DEF Commit, Rollback, EndTx, WriteInv, Bumped, NoTx
  <2>2. lock' = IF lock = s THEN NoSession ELSE lock BY <1>8 DEF Commit, Rollback, EndTx
  <2>3. Holder' BY <1>2, <2>1, <2>2 DEF WriteInv, Holder, NoTx
  <2>4. Bumped' BY <1>2, <2>1 DEF WriteInv, Bumped, Unbumped, NoTx
  <2>5. Ahead'
    <3> SUFFICES ASSUME Serial(deployment), NEW t \in Sessions
                 PROVE  tx'[t].counter = 0 /\ pc'[t] # "bump"
      BY DEF Ahead
    <3>1. t = s => tx'[t].counter = 0 /\ pc'[t] # "bump" BY <2>1 DEF NoTx
    <3>2. t # s => tx'[t].counter = 0 /\ pc'[t] # "bump" BY <1>2, <2>1, OneWriter
    <3> QED BY <3>1, <3>2
  <2> QED BY <1>1, <1>3, <2>3, <2>4, <2>5 DEF WriteInv
<1> QED BY <1>4, <1>5, <1>6, <1>7, <1>8 DEF Statement, Reads

(* A restart ends the transactions of its process. *)
LEMMA RestartTurns ==
  ASSUME WriteInv, NEW w \in Workers, Restart(w), UNCHANGED deployment
  PROVE  WriteInv'
<1>1. TypeOK' BY RestartTypes DEF WriteInv
<1>2. \A t \in Sessions : IF WorkerOf[t] = w THEN pc'[t] = "idle" /\ tx'[t] = NoTx
                                            ELSE pc'[t] = pc[t] /\ tx'[t] = tx[t]
  BY DEF Restart, NoTx
<1>3. UNCHANGED <<version, seen>> BY DEF Restart
<1>4. Quiet' BY <1>2 DEF WriteInv, Quiet
<1>5. Holder'
  BY <1>2, CacheAssumption DEF WriteInv, Holder, Restart, NoTx
<1>6. Bumped' BY <1>2 DEF WriteInv, Bumped, NoTx, Unbumped
<1>7. Ahead' BY <1>2, <1>3 DEF WriteInv, Ahead, NoTx, VisibleVersion
<1> QED BY <1>1, <1>4, <1>5, <1>6, <1>7 DEF WriteInv

(* Nothing is written at first. *)
LEMMA InitTurns == Init => WriteInv
<1> SUFFICES ASSUME Init PROVE WriteInv
  OBVIOUS
<1>1. \A s \in Sessions : pc[s] = "idle" /\ tx[s] = NoTx BY DEF Init, NoTx
<1> QED BY <1>1, InitTypes DEF WriteInv, Quiet, Holder, Bumped, Ahead, NoTx, Unbumped

(* Every step keeps the order of writers. *)
LEMMA StepTurns == WriteInv /\ [Next]_vars => WriteInv'
<1> SUFFICES ASSUME WriteInv, [Next]_vars PROVE WriteInv'
  OBVIOUS
<1>1. CASE Next
  BY <1>1, StatementTurns, RestartTurns DEF Next, Statement
<1>2. CASE UNCHANGED vars
  BY <1>2 DEF vars, WriteInv, TypeOK, Quiet, Holder, Bumped, Ahead, VisibleVersion
<1> QED BY <1>1, <1>2

(* Writers take turns: in every deployment, every write of a transaction    *)
(* gets a version above the committed one where only one session at a time  *)
(* has something to commit.                                                 *)
THEOREM Turns == Spec => []WriteInv
<1> QED BY InitTurns, StepTurns, PTL DEF Spec

(* However many workers write, fail and restart: where writers queue for    *)
(* the database, new data always comes with a version higher than any       *)
(* before it.                                                               *)
THEOREM VersionsNameData ==
  ASSUME \A d \in Deployments : Serial(d)
  PROVE  Spec => VersionNamesData
<1>1. WriteInv /\ [Next]_vars => [data' # data => version' > version]_vars
  <2> SUFFICES ASSUME WriteInv, [Next]_vars, data' # data PROVE version' > version
    OBVIOUS
  <2>1. PICK s \in deployment.sessions : Statement(s)
    BY DEF Next, vars, Restart, Statement
  <2>2. s \in Sessions /\ Serial(deployment) /\ TypeOK BY CacheAssumption DEF WriteInv, TypeOK
  <2>3. Commit(s)
    BY <2>1, <2>2, ReadsOnly DEF Statement, Reads, Write, BumpRead, BumpWrite, Rollback
  <2>4. tx[s].counter # 0 /\ version' = tx[s].counter
    BY <2>2, <2>3 DEF Commit, WriteInv, Bumped, Unbumped
  <2> QED BY <2>2, <2>4 DEF WriteInv, Ahead
<1> QED BY <1>1, Turns, PTL DEF Spec, VersionNamesData

-----------------------------------------------------------------------------
(* What a version stands for *)

(* What decides, for session s, which data a version stands for.            *)
View(s) ==
  [version |-> version, data |-> data, here |-> local[WorkerOf[s]],
   writes |-> tx[s].writes, counter |-> tx[s].counter, at |-> pc[s],
   failing |-> deployment.canRollback, alone |-> Alone(deployment)]

(* vals is what the version v stands for in a view: v is the present        *)
(* version only if nothing was bumped since vals was read, and then vals    *)
(* has the data of the view (and nothing else, where a session is alone).   *)
Covers(view, v, vals) ==
  v # NoVersion =>
    /\ v[2] <= view.here
    /\ view.at = "bump" => v[2] < view.here
    /\ v[2] = view.here /\ view.counter # 0 => v[1] = view.counter
    /\ view.failing \/ v[1] <= view.version \/ v[1] <= view.counter
    /\ v[1] = view.version /\ v[2] = view.here /\ view.counter = 0 =>
         view.data \subseteq vals /\ (view.alone => vals \subseteq view.data)
    /\ v[1] = view.counter /\ v[2] = view.here /\ view.counter # 0 /\ view.at \notin Unbumped =>
         /\ view.data \cup view.writes \subseteq vals
         /\ view.alone => vals \subseteq view.data \cup view.writes

(* The settings cache of a worker, and the read of it that is under way.    *)
Fresh(s) ==
  LET w == WorkerOf[s]
  IN  /\ Covers(View(s), cache[w].ver, cache[w].vals)
      /\ pc[s] \in Reading => must[s] \subseteq VisibleData(s)
      /\ pc[s] = "load" => Covers(View(s), ver[s], VisibleData(s))
      /\ pc[s] = "store" => Covers(View(s), ver[s], rows[s]) /\ must[s] \subseteq rows[s]
      /\ pc[s] = "use" => must[s] \subseteq cache[w].vals

FreshInv == Sheltered(deployment) => \A s \in deployment.sessions : Fresh(s)

(* What is read now is covered by the present version, and what the present *)
(* version covers is all there is.                                          *)
LEMMA CoversNow ==
  ASSUME WriteInv, Serial(deployment), NEW s \in Sessions, pc[s] \notin Unbumped
  PROVE  /\ Covers(View(s), Current(s), VisibleData(s))
         /\ \A vals : Covers(View(s), Current(s), vals) =>
              VisibleData(s) \subseteq vals /\ (Alone(deployment) => vals \subseteq VisibleData(s))
<1>0. /\ version \in Nat /\ tx[s] \in Transaction /\ local[WorkerOf[s]] \in Nat /\ VisibleVersion(s) \in Nat
      /\ tx[s].counter \in Nat /\ pc[s] # "bump"
  BY CacheAssumption DEF WriteInv, TypeOK, VisibleVersion, Transaction, Unbumped
<1>1. Current(s) \in Version /\ Current(s) # NoVersion
  BY <1>0, NoVersionAssumption DEF Current, Version
<1>2. tx[s].counter = 0 => tx[s].writes = {} BY DEF WriteInv, Bumped
<1>3. Current(s)[1] = VisibleVersion(s) /\ Current(s)[2] = local[WorkerOf[s]]
  BY DEF Current
<1>4. tx[s].counter # 0 => VisibleVersion(s) = tx[s].counter
  BY DEF VisibleVersion
<1>5. tx[s].counter = 0 => VisibleVersion(s) = version /\ VisibleData(s) = data
  BY <1>2 DEF VisibleVersion, VisibleData
<1>6. VisibleData(s) = data \cup tx[s].writes BY DEF VisibleData
<1> HIDE DEF VisibleVersion
<1> QED BY <1>0, <1>1, <1>3, <1>4, <1>5, <1>6 DEF Covers, View

(* The view of a session stays when nothing it sees changes, except that a  *)
(* read begins, goes on or ends.                                            *)
LEMMA CoversStill ==
  ASSUME NEW s \in Sessions, UNCHANGED <<deployment, version, data, local, tx>>,
         pc[s] \notin Unbumped, pc'[s] \notin Unbumped
  PROVE  /\ VisibleData(s)' = VisibleData(s)
         /\ \A v, vals : Covers(View(s), v, vals) => Covers(View(s)', v, vals)
BY DEF Covers, View, VisibleData, Unbumped

(* Reading: rows are loaded after the version they are stored with. *)
LEMMA ReadFresh ==
  ASSUME WriteInv, Sheltered(deployment), NEW s \in deployment.sessions, Fresh(s), Reads(s),
         UNCHANGED deployment
  PROVE  Fresh(s)'
<1> DEFINE w == WorkerOf[s]
<1> USE DEF Go
<1>0. /\ TypeOK /\ s \in Sessions /\ w \in Workers
      /\ Serial(deployment)
  BY CacheAssumption DEF WriteInv, TypeOK, Sheltered, Serial
<1>1. /\ UNCHANGED <<version, data, made, lock, local, tx, seen>>
      /\ pc[s] \in Reading \cup {"idle", "open"}
      /\ pc'[s] \in Reading \/ pc'[s] = Back(s)
  BY <1>0, ReadsOnly
<1>2. pc[s] \notin Unbumped /\ pc'[s] \notin Unbumped BY <1>1 DEF Unbumped, Reading, Back
<1>3. /\ VisibleData(s)' = VisibleData(s)
      /\ \A v, vals : Covers(View(s), v, vals) => Covers(View(s)', v, vals)
  BY <1>0, <1>1, <1>2, CoversStill
<1>4. /\ Covers(View(s), Current(s), VisibleData(s))
      /\ \A vals : Covers(View(s), Current(s), vals) => VisibleData(s) \subseteq vals
  BY <1>0, <1>2, CoversNow
<1>5. CASE StartRead(s) \/ ReadVersionAgain(s)
  <2>1. PICK what \in {"get", "snapshot", "stamp"} :
          /\ Compare(s, what) /\ UNCHANGED <<version, data, made, lock, local, cache, snaps, tx, seen, rows>>
          /\ what = "stamp" => pc[s] = "built"
    BY <1>5 DEF StartRead, ReadVersionAgain
  <2>2. Synced(what) \in {"use", "compare", "stamp"} BY SyncedPlaces
  <2>3. /\ ver'[s] = Current(s) /\ UNCHANGED <<cache, rows>>
        /\ must'[s] = IF what = "stamp" THEN must[s] ELSE VisibleData(s)
        /\ pc'[s] = IF cache[w].ver = Current(s) THEN Synced(what) ELSE "load"
    BY <1>0, <2>1 DEF Compare, TypeOK
  <2>4. must'[s] \subseteq VisibleData(s) BY <2>1, <2>3 DEF Fresh, Reading
  <2>5. pc'[s] = "use" => must'[s] \subseteq cache[w].vals
    BY <1>4, <2>2, <2>3, <2>4 DEF Fresh
  <2> QED BY <1>3, <1>4, <2>2, <2>3, <2>4, <2>5 DEF Fresh
<1>6. CASE LoadSettings(s)
  <2>1. /\ pc[s] = "load" /\ pc'[s] = "store" /\ rows'[s] = VisibleData(s)
        /\ UNCHANGED <<cache, ver, must>>
    BY <1>0, <1>6 DEF LoadSettings, TypeOK
  <2> QED BY <1>3, <2>1 DEF Fresh, Reading
<1>7. CASE StoreSettings(s)
  <2>1. Synced(goal[s]) \in {"use", "compare", "stamp"} BY <1>0, SyncedPlaces DEF TypeOK
  <2>2. /\ pc[s] = "store" /\ pc'[s] = Synced(goal[s])
        /\ cache'[w].ver = ver[s] /\ cache'[w].vals = rows[s]
        /\ UNCHANGED must
    BY <1>0, <1>7 DEF StoreSettings, TypeOK
  <2> QED BY <1>3, <2>1, <2>2 DEF Fresh, Reading
<1>8. CASE UseSetting(s) \/ ServeCached(s) \/ Rebuild(s) \/ Build(s) \/ Stamp(s) \/ Serve(s)
  <2>1. /\ pc[s] \in Reading /\ pc'[s] \notin {"load", "store", "use"}
        /\ UNCHANGED <<cache, must>>
    BY <1>0, <1>8 DEF UseSetting, ServeCached, Rebuild, Build, Stamp, Serve, Back, Reading, TypeOK
  <2> QED BY <1>3, <2>1 DEF Fresh
<1> QED BY <1>5, <1>6, <1>7, <1>8 DEF Reads

(* Statements that write: what stood for a version still does; the bump     *)
(* moves the present version past everything the process has.               *)
LEMMA WriteCovers ==
  ASSUME WriteInv, Sheltered(deployment), NEW s \in deployment.sessions, UNCHANGED deployment,
         Write(s) \/ BumpRead(s) \/ BumpWrite(s) \/ Commit(s) \/ Rollback(s),
         NEW v \in Version \cup {NoVersion}, NEW vals, Covers(View(s), v, vals)
  PROVE  Covers(View(s)', v, vals)
<1> DEFINE w == WorkerOf[s]
<1> USE DEF Go
<1>0. /\ TypeOK /\ s \in Sessions /\ w \in Workers /\ Serial(deployment)
      /\ tx[s] \in Transaction /\ tx[s].counter \in Nat /\ version \in Nat /\ local[w] \in Nat
      /\ tx \in [Sessions -> Transaction] /\ pc \in [Sessions -> Places]
  BY CacheAssumption DEF WriteInv, TypeOK, Sheltered, Serial, Transaction
<1>1. v # NoVersion => v[1] \in Nat /\ v[2] \in Nat BY NoVersionAssumption DEF Version
<1>2. tx[s].counter # 0 => tx[s].counter > version BY <1>0 DEF WriteInv, Ahead
<1>3. CASE Write(s)
  <2>1. /\ tx'[s].counter = tx[s].counter /\ pc'[s] = "wrote" /\ pc[s] # "bump"
        /\ UNCHANGED <<version, data, local>>
    BY <1>0, <1>3 DEF Write, Transaction
  <2> QED BY <2>1 DEF Covers, View, Unbumped
<1>4. CASE BumpRead(s)
  <2>1. /\ local'[w] = local[w] + 1 /\ pc'[s] = "bump"
        /\ UNCHANGED <<version, data, tx>>
    BY <1>0, <1>4 DEF BumpRead, TypeOK
  <2> QED BY <1>0, <1>1, <2>1 DEF Covers, View
<1>5. CASE BumpWrite(s)
  <2>1. /\ pc[s] = "bump" /\ pc'[s] = "open" /\ tx'[s].counter = seen[s] + 1
        /\ UNCHANGED <<version, data, local>>
    BY <1>0, <1>5 DEF BumpWrite, Transaction
  <2>2. seen[s] >= version /\ seen[s] >= tx[s].counter /\ seen[s] \in Nat
    BY <1>0, <1>2, <2>1 DEF WriteInv, Ahead, VisibleVersion, TypeOK
  <2> QED BY <1>0, <1>1, <2>1, <2>2 DEF Covers, View
<1>6. CASE Commit(s)
  <2>1. /\ pc[s] = "open" /\ pc'[s] = "idle" /\ version' = tx[s].counter
        /\ tx'[s].counter = 0 /\ data' = data \cup tx[s].writes
        /\ UNCHANGED local
    BY <1>0, <1>6 DEF Commit, EndTx
  <2>2. tx[s].counter # 0 BY <1>0, <2>1 DEF WriteInv, Bumped, Unbumped
  <2> QED BY <1>0, <1>1, <1>2, <2>1, <2>2 DEF Covers, View, Unbumped
<1>7. CASE Rollback(s)
  <2>1. /\ pc[s] # "bump" /\ pc'[s] = "idle" /\ tx'[s].counter = 0 /\ deployment.canRollback
        /\ UNCHANGED <<version, data, local>>
    BY <1>0, <1>7 DEF Rollback, EndTx
  <2> QED BY <1>0, <1>1, <1>2, <2>1 DEF Covers, View
<1> QED BY <1>3, <1>4, <1>5, <1>6, <1>7

(* Writing keeps the settings cache of the writer fresh. *)
LEMMA WriteFresh ==
  ASSUME WriteInv, Sheltered(deployment), NEW s \in deployment.sessions, Fresh(s), UNCHANGED deployment,
         Write(s) \/ BumpRead(s) \/ BumpWrite(s) \/ Commit(s) \/ Rollback(s)
  PROVE  Fresh(s)'
<1> DEFINE w == WorkerOf[s]
<1>0. /\ TypeOK /\ s \in Sessions /\ w \in Workers
      /\ cache[w].ver \in Version \cup {NoVersion}
  BY CacheAssumption DEF WriteInv, TypeOK, Cached
<1>1. Covers(View(s)', cache[w].ver, cache[w].vals) BY <1>0, WriteCovers DEF Fresh
<1>2. pc'[s] \notin Reading
  BY <1>0 DEF Write, BumpRead, BumpWrite, Commit, Rollback, EndTx, Go, Reading, TypeOK
<1>3. UNCHANGED cache \/ cache'[w].ver = NoVersion
  BY <1>0 DEF Write, BumpRead, BumpWrite, Commit, Rollback, EndTx, TypeOK, Cached
<1>4. Covers(View(s)', cache'[w].ver, cache'[w].vals) BY <1>1, <1>3 DEF Covers
<1> QED BY <1>2, <1>4 DEF Fresh, Reading

(* A statement of another session, which is of another process: the present *)
(* version moves, if at all, past everything this process has.              *)
LEMMA OtherFresh ==
  ASSUME WriteInv, Sheltered(deployment), NEW s \in deployment.sessions, Fresh(s), UNCHANGED deployment,
         NEW t \in deployment.sessions, t # s, Statement(t)
  PROVE  Fresh(s)'
<1> DEFINE w == WorkerOf[s]
           c == cache[w]
<1>0. /\ TypeOK /\ s \in Sessions /\ t \in Sessions /\ w \in Workers
      /\ ~Alone(deployment) /\ ~deployment.canRollback /\ OwnWorkers(deployment) /\ Serial(deployment)
      /\ tx[s] \in Transaction /\ tx[s].counter \in Nat /\ version \in Nat /\ local[w] \in Nat
      /\ NoVersion \notin Version
  BY CacheAssumption, NoVersionAssumption DEF WriteInv, TypeOK, Sheltered, Alone, Serial, Transaction
<1>1. /\ pc'[s] = pc[s] /\ tx'[s] = tx[s] /\ ver'[s] = ver[s] /\ rows'[s] = rows[s] /\ must'[s] = must[s]
      /\ local'[w] = local[w] /\ cache'[w] = c
  BY <1>0, OthersKeep DEF OwnWorkers
<1>2. \/ UNCHANGED <<version, data>>
      \/ /\ version' \in Nat /\ version' > version /\ data \subseteq data'
         /\ tx[s].counter = 0 /\ tx[s].writes = {}
  <2>1. CASE Commit(t)
    <3>1. tx[t].writes # {} /\ tx[t].counter > version
      BY <1>0, <2>1 DEF Commit, WriteInv, Bumped, Unbumped, Ahead
    <3>2. tx[s].counter = 0 /\ tx[s].writes = {} BY <1>0, <3>1, OneWriter
    <3>3. tx[t].counter \in Nat BY <1>0 DEF TypeOK, Transaction
    <3> QED BY <2>1, <3>1, <3>2, <3>3 DEF Commit
  <2>2. CASE Rollback(t) BY <2>2 DEF Rollback
  <2>3. CASE Write(t) \/ BumpRead(t) \/ BumpWrite(t) BY <2>3 DEF Write, BumpRead, BumpWrite
  <2>4. CASE Reads(t) BY <1>0, <2>4, ReadsOnly
  <2> QED BY <2>1, <2>2, <2>3, <2>4 DEF Statement, Reads
<1>3. ASSUME NEW v \in Version \cup {NoVersion}, NEW vals, NEW more, vals \subseteq more, Covers(View(s), v, vals)
      PROVE  Covers(View(s)', v, more)
  <2>1. v # NoVersion => v[1] \in Nat /\ v[2] \in Nat BY <1>3 DEF Version
  <2>2. ~View(s).alone /\ ~View(s)'.alone /\ ~View(s).failing BY <1>0 DEF View
  <2>3. /\ View(s)'.here = View(s).here /\ View(s)'.writes = View(s).writes
        /\ View(s)'.counter = View(s).counter /\ View(s)'.at = View(s).at
        /\ View(s).counter = tx[s].counter /\ View(s).version = version /\ View(s)'.version = version'
        /\ View(s).data = data /\ View(s)'.data = data'
    BY <1>1 DEF View
  <2>4. CASE UNCHANGED <<version, data>>
    BY <1>3, <2>2, <2>3, <2>4 DEF Covers
  <2>5. CASE version' \in Nat /\ version' > version /\ tx[s].counter = 0
    BY <1>0, <1>3, <2>1, <2>2, <2>3, <2>5 DEF Covers
  <2> QED BY <1>2, <2>4, <2>5
<1>4. VisibleData(s) \subseteq VisibleData(s)' BY <1>1, <1>2 DEF VisibleData
<1>5. c.ver \in Version \cup {NoVersion} /\ ver[s] \in Version BY <1>0 DEF TypeOK, Cached
<1>6. Covers(View(s)', c.ver, c.vals) BY <1>3, <1>5 DEF Fresh
<1>7. pc[s] = "load" => Covers(View(s)', ver[s], VisibleData(s)') BY <1>3, <1>4, <1>5 DEF Fresh
<1>8. pc[s] = "store" => Covers(View(s)', ver[s], rows[s]) BY <1>3, <1>5 DEF Fresh
<1> QED BY <1>1, <1>4, <1>6, <1>7, <1>8 DEF Fresh

(* A restarted process begins with nothing cached. *)
LEMMA RestartFresh ==
  ASSUME WriteInv, Sheltered(deployment), NEW s \in deployment.sessions, Fresh(s), UNCHANGED deployment,
         NEW w \in Workers, Restart(w)
  PROVE  Fresh(s)'
<1>0. TypeOK /\ s \in Sessions BY CacheAssumption DEF WriteInv, TypeOK
<1>1. CASE WorkerOf[s] = w
  <2>1. cache'[w].ver = NoVersion /\ pc'[s] = "idle" BY <1>0, <1>1 DEF Restart, Empty, TypeOK
  <2> QED BY <1>1, <2>1 DEF Fresh, Covers, Reading
<1>2. CASE WorkerOf[s] # w
  <2>1. /\ pc'[s] = pc[s] /\ tx'[s] = tx[s] /\ cache'[WorkerOf[s]] = cache[WorkerOf[s]]
        /\ local'[WorkerOf[s]] = local[WorkerOf[s]]
        /\ UNCHANGED <<version, data, ver, rows, must>>
    BY <1>0, <1>2, CacheAssumption DEF Restart, TypeOK
  <2>2. View(s)' = View(s) /\ VisibleData(s)' = VisibleData(s) BY <2>1 DEF View, VisibleData
  <2> QED BY <2>1, <2>2 DEF Fresh
<1> QED BY <1>1, <1>2

(* Every step keeps the settings caches fresh. *)
LEMMA FreshStep == WriteInv /\ FreshInv /\ [Next]_vars => FreshInv'
<1> SUFFICES ASSUME WriteInv, FreshInv, [Next]_vars, Sheltered(deployment'), NEW s \in deployment'.sessions
             PROVE  Fresh(s)'
  BY DEF FreshInv
<1>1. UNCHANGED deployment BY DEF Next, vars
<1>2. s \in deployment.sessions /\ Sheltered(deployment) /\ Fresh(s) BY <1>1 DEF FreshInv
<1>3. ASSUME NEW t \in deployment.sessions, Statement(t) PROVE Fresh(s)'
  <2>1. CASE t = s BY <1>1, <1>2, <1>3, <2>1, ReadFresh, WriteFresh DEF Statement, Reads
  <2>2. CASE t # s BY <1>1, <1>2, <1>3, <2>2, OtherFresh
  <2> QED BY <2>1, <2>2
<1>4. ASSUME NEW w \in Workers, Restart(w) PROVE Fresh(s)'
  BY <1>1, <1>2, <1>4, RestartFresh
<1>5. CASE UNCHANGED vars
  BY <1>2, <1>5 DEF vars, Fresh, View, VisibleData
<1> QED BY <1>3, <1>4, <1>5 DEF Next, Statement

(* Nothing is cached at first. *)
LEMMA FreshInit == Init => FreshInv
<1> SUFFICES ASSUME Init, NEW s \in deployment.sessions PROVE Fresh(s)
  BY DEF FreshInv
<1>1. s \in Sessions /\ WorkerOf[s] \in Workers BY CacheAssumption DEF Init
<1>2. pc[s] = "idle" /\ cache[WorkerOf[s]].ver = NoVersion BY <1>1 DEF Init, Empty
<1> QED BY <1>2 DEF Fresh, Covers, Reading

(* The settings caches of sheltered deployments, in every state. *)
LEMMA Freshness == Spec => []FreshInv
<1> QED BY FreshInit, FreshStep, Turns, PTL DEF Spec

-----------------------------------------------------------------------------
(* One thread *)

(* Where the session s is alone, nothing moves while it reads: versions it  *)
(* compared are still the present ones, and a snapshot stands for the       *)
(* version it is stamped with.                                              *)
Served(s) ==
  LET w == WorkerOf[s]
  IN  /\ pc[s] \in {"load", "store"} => ver[s] = Current(s)
      /\ pc[s] = "store" => rows[s] = VisibleData(s)
      /\ pc[s] \in {"use", "compare", "stamp"} => cache[w].ver = Current(s)
      /\ Covers(View(s), snaps[w].ver, snaps[w].vals)
      /\ pc[s] \in {"built", "stamp", "serve"} \/ (pc[s] \in {"load", "store"} /\ goal[s] = "stamp") =>
           snaps[w].vals = VisibleData(s)

AloneInv == \A s \in Sessions : deployment.sessions = {s} => Served(s)

(* Reading alone: what is compared, built and stamped stays current. *)
LEMMA ReadServed ==
  ASSUME WriteInv, NEW s \in Sessions, deployment.sessions = {s}, Served(s), Reads(s), UNCHANGED deployment
  PROVE  Served(s)'
<1> DEFINE w == WorkerOf[s]
<1> USE DEF Go
<1>0. /\ TypeOK /\ w \in Workers /\ Serial(deployment) /\ Alone(deployment)
  BY CacheAssumption DEF WriteInv, TypeOK, Alone, Serial
<1>1. /\ UNCHANGED <<version, data, made, lock, local, tx, seen>>
      /\ pc[s] \in Reading \cup {"idle", "open"}
      /\ pc'[s] \in Reading \/ pc'[s] = Back(s)
  BY <1>0, ReadsOnly
<1>2. pc[s] \notin Unbumped /\ pc'[s] \notin Unbumped BY <1>1 DEF Unbumped, Reading, Back
<1>3. /\ VisibleData(s)' = VisibleData(s) /\ Current(s)' = Current(s)
      /\ \A v, vals : Covers(View(s), v, vals) => Covers(View(s)', v, vals)
  <2>1. Current(s)' = Current(s) BY <1>1 DEF Current, VisibleVersion
  <2> QED BY <1>1, <1>2, <2>1, CoversStill
<1>4. /\ Covers(View(s), Current(s), VisibleData(s))
      /\ \A vals : Covers(View(s), Current(s), vals) => VisibleData(s) = vals
  BY <1>0, <1>2, CoversNow
<1>5. CASE StartRead(s) \/ ReadVersionAgain(s)
  <2>1. PICK what \in {"get", "snapshot", "stamp"} :
          /\ Compare(s, what) /\ UNCHANGED <<version, data, made, lock, local, cache, snaps, tx, seen, rows>>
          /\ what = "stamp" => pc[s] = "built"
    BY <1>5 DEF StartRead, ReadVersionAgain
  <2>2. Synced(what) \in {"use", "compare", "stamp"} /\ (Synced(what) = "stamp" => what = "stamp")
    BY SyncedPlaces
  <2>3. /\ ver'[s] = Current(s) /\ goal'[s] = what /\ UNCHANGED <<cache, snaps, rows>>
        /\ pc'[s] = IF cache[w].ver = Current(s) THEN Synced(what) ELSE "load"
    BY <1>0, <2>1 DEF Compare, TypeOK
  <2> QED BY <1>3, <2>1, <2>2, <2>3 DEF Served
<1>6. CASE LoadSettings(s)
  <2>1. /\ pc[s] = "load" /\ pc'[s] = "store" /\ rows'[s] = VisibleData(s)
        /\ UNCHANGED <<cache, snaps, ver, goal>>
    BY <1>0, <1>6 DEF LoadSettings, TypeOK
  <2> QED BY <1>3, <2>1 DEF Served
<1>7. CASE StoreSettings(s)
  <2>1. Synced(goal[s]) \in {"use", "compare", "stamp"} /\ (Synced(goal[s]) = "stamp" => goal[s] = "stamp")
    BY <1>0, SyncedPlaces DEF TypeOK
  <2>2. /\ pc[s] = "store" /\ pc'[s] = Synced(goal[s])
        /\ cache'[w].ver = ver[s] /\ UNCHANGED <<snaps, goal>>
    BY <1>0, <1>7 DEF StoreSettings, TypeOK
  <2> QED BY <1>3, <2>1, <2>2 DEF Served
<1>8. CASE ServeCached(s)
  <2>1. /\ pc[s] = "compare" /\ pc'[s] = "serve" /\ snaps[w].ver = cache[w].ver
        /\ UNCHANGED <<cache, snaps>>
    BY <1>0, <1>8 DEF ServeCached, TypeOK
  <2>2. snaps[w].vals = VisibleData(s) BY <1>4, <2>1 DEF Served
  <2> QED BY <1>3, <2>1, <2>2 DEF Served
<1>9. CASE Build(s)
  <2>1. /\ pc[s] = "build" /\ pc'[s] = "built" /\ UNCHANGED cache
        /\ snaps'[w].ver = snaps[w].ver /\ snaps'[w].vals = VisibleData(s)
    BY <1>0, <1>9 DEF Build, TypeOK, Cached
  <2>2. Covers(View(s), snaps[w].ver, VisibleData(s))
    <3>1. Covers(View(s), snaps[w].ver, snaps[w].vals) BY DEF Served
    <3>2. VisibleData(s) = data \cup tx[s].writes /\ (tx[s].counter = 0 => tx[s].writes = {})
      BY <1>2 DEF VisibleData, WriteInv, Bumped
    <3> QED BY <3>1, <3>2 DEF Covers, View
  <2> QED BY <1>3, <2>1, <2>2 DEF Served
<1>10. CASE Stamp(s)
  <2>1. /\ pc[s] = "stamp" /\ pc'[s] = "serve" /\ UNCHANGED cache
        /\ snaps'[w].ver = cache[w].ver /\ snaps'[w].vals = snaps[w].vals
    BY <1>0, <1>10 DEF Stamp, TypeOK, Cached
  <2> QED BY <1>3, <1>4, <2>1 DEF Served
<1>11. CASE UseSetting(s) \/ Rebuild(s) \/ Serve(s)
  <2>1. /\ pc'[s] \in {"idle", "open", "build"} /\ UNCHANGED snaps
    BY <1>0, <1>11 DEF UseSetting, Rebuild, Serve, Back, TypeOK
  <2> QED BY <1>3, <2>1 DEF Served
<1> QED BY <1>5, <1>6, <1>7, <1>8, <1>9, <1>10, <1>11 DEF Reads

(* Writing keeps the snapshot and its version in step. *)
LEMMA WriteServed ==
  ASSUME WriteInv, NEW s \in Sessions, deployment.sessions = {s}, Served(s), UNCHANGED deployment,
         Write(s) \/ BumpRead(s) \/ BumpWrite(s) \/ Commit(s) \/ Rollback(s)
  PROVE  Served(s)'
<1> DEFINE w == WorkerOf[s]
<1>0. /\ TypeOK /\ w \in Workers /\ snaps[w].ver \in Version \cup {NoVersion} /\ Sheltered(deployment)
  BY CacheAssumption DEF WriteInv, TypeOK, Cached, Sheltered, Alone
<1>1. Covers(View(s)', snaps[w].ver, snaps[w].vals) BY <1>0, WriteCovers DEF Served
<1>2. pc'[s] \notin Reading /\ UNCHANGED snaps
  BY <1>0 DEF Write, BumpRead, BumpWrite, Commit, Rollback, EndTx, Go, Reading, TypeOK
<1> QED BY <1>1, <1>2 DEF Served, Reading

(* A restarted process begins without a snapshot. *)
LEMMA RestartServed ==
  ASSUME WriteInv, NEW s \in Sessions, Served(s), UNCHANGED deployment,
         NEW w \in Workers, Restart(w)
  PROVE  Served(s)'
<1>0. TypeOK BY DEF WriteInv
<1>1. CASE WorkerOf[s] = w
  <2>1. snaps'[w].ver = NoVersion /\ pc'[s] = "idle" BY <1>0, <1>1 DEF Restart, Empty, TypeOK
  <2> QED BY <1>1, <2>1 DEF Served, Covers
<1>2. CASE WorkerOf[s] # w
  <2>1. /\ pc'[s] = pc[s] /\ tx'[s] = tx[s] /\ cache'[WorkerOf[s]] = cache[WorkerOf[s]]
        /\ local'[WorkerOf[s]] = local[WorkerOf[s]] /\ snaps'[WorkerOf[s]] = snaps[WorkerOf[s]]
        /\ UNCHANGED <<version, data, ver, rows, goal>>
    BY <1>0, <1>2, CacheAssumption DEF Restart, TypeOK
  <2>2. View(s)' = View(s) /\ VisibleData(s)' = VisibleData(s) /\ Current(s)' = Current(s)
    BY <2>1 DEF View, VisibleData, Current, VisibleVersion
  <2> QED BY <2>1, <2>2 DEF Served
<1> QED BY <1>1, <1>2

(* Every step keeps the snapshot of a lone thread in step. *)
LEMMA AloneStep == WriteInv /\ AloneInv /\ [Next]_vars => AloneInv'
<1> SUFFICES ASSUME WriteInv, AloneInv, [Next]_vars, NEW s \in Sessions, deployment'.sessions = {s}
             PROVE  Served(s)'
  BY DEF AloneInv
<1>1. UNCHANGED deployment BY DEF Next, vars
<1>2. deployment.sessions = {s} /\ Served(s) BY <1>1 DEF AloneInv
<1>3. ASSUME NEW t \in deployment.sessions, Statement(t) PROVE Served(s)'
  <2>1. t = s BY <1>2
  <2> QED BY <1>1, <1>2, <1>3, <2>1, ReadServed, WriteServed DEF Statement, Reads
<1>4. ASSUME NEW w \in Workers, Restart(w) PROVE Served(s)'
  BY <1>1, <1>2, <1>4, RestartServed
<1>5. CASE UNCHANGED vars
  BY <1>2, <1>5 DEF vars, Served, View, VisibleData, Current, VisibleVersion
<1> QED BY <1>3, <1>4, <1>5 DEF Next, Statement

(* No snapshot at first. *)
LEMMA AloneInit == Init => AloneInv
<1> SUFFICES ASSUME Init, NEW s \in Sessions PROVE Served(s)
  BY DEF AloneInv
<1>1. WorkerOf[s] \in Workers BY CacheAssumption
<1>2. pc[s] = "idle" /\ snaps[WorkerOf[s]].ver = NoVersion BY <1>1 DEF Init, Empty
<1> QED BY <1>2 DEF Served, Covers

(* The snapshot of a lone thread, in every state: what is compared, built  *)
(* and stamped belongs to the present version.                              *)
THEOREM Serving == Spec => []AloneInv
<1> QED BY AloneInit, AloneStep, Turns, PTL DEF Spec

(* What the invariants say of a lone thread that reads. *)
LEMMA FreshAlone == WriteInv /\ FreshInv /\ AloneInv => NothingUndoneIsRead
<1> SUFFICES ASSUME WriteInv, FreshInv, AloneInv, OneThread, NEW s \in Sessions
             PROVE  /\ pc[s] = "serve" => snaps[WorkerOf[s]].vals \subseteq VisibleData(s)
                    /\ pc[s] = "use" => cache[WorkerOf[s]].vals \subseteq VisibleData(s)
  BY DEF NothingUndoneIsRead
<1>1. CASE s \notin deployment.sessions BY <1>1 DEF WriteInv, Quiet
<1>2. CASE s \in deployment.sessions
  <2>1. deployment.sessions = {s} /\ Alone(deployment) /\ Sheltered(deployment) /\ Serial(deployment)
    BY <1>2 DEF OneThread, Alone, Sheltered, Serial
  <2>2. Served(s) /\ Fresh(s) BY <2>1 DEF AloneInv, FreshInv
  <2>3. CASE pc[s] = "use"
    BY <2>1, <2>2, <2>3, CoversNow DEF Served, Fresh, Unbumped
  <2>4. CASE pc[s] = "serve"
    BY <2>2, <2>4 DEF Served, Fresh, Reading
  <2> QED BY <2>3, <2>4
<1> QED BY <1>1, <1>2

(* Where one thread serves all requests, whatever fails, is previewed or    *)
(* restarts: nothing a failed or previewed request wrote is ever read by a  *)
(* later one, from either cache.                                            *)
THEOREM UndoneIsNotRead == Spec => []NothingUndoneIsRead
<1> QED BY FreshAlone, Turns, Freshness, Serving, PTL
=============================================================================
