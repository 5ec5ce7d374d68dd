---------------------------- MODULE VersionCache ----------------------------
(***************************************************************************)
(* How a write reaches the caches of every worker process: the counter     *)
(* system.data_version in the database, the counter _local_version of each *)
(* process, the settings cache of app/services/settings_service.py and the *)
(* snapshot cache of app/services/snapshot.py.  One action is one SQL      *)
(* statement with the Python around it, so requests of different workers,  *)
(* and of different threads of a worker, interleave between statements.    *)
(*                                                                         *)
(* The database shows committed rows to every statement (READ COMMITTED,   *)
(* or a SQLite connection outside a transaction) and a session its own     *)
(* uncommitted ones.  Data is a set of writes; a reader that has a set has *)
(* the effect of each write in it.                                         *)
(***************************************************************************)
EXTENDS Integers

CONSTANTS
  Workers,       \* gunicorn worker processes
  Sessions,      \* request threads, each with its database session
  WorkerOf,      \* the process a thread belongs to
  NoSession,     \* nobody holds the lock
  NoVersion,     \* a cache whose version is None
  Deployments,   \* records of the sessions that serve requests, whether the first
                 \* write locks the database (SQLite) or rows (PostgreSQL), whether
                 \* requests may fail after they wrote, and a bound on the writes
  MaxWrites      \* the largest of these bounds

ASSUME CacheAssumption ==
  /\ WorkerOf \in [Sessions -> Workers]
  /\ NoSession \notin Sessions
  /\ MaxWrites \in Nat
  /\ Deployments \subseteq [sessions: SUBSET Sessions, databaseLock: BOOLEAN,
                            canRollback: BOOLEAN, writes: 0..MaxWrites]

Writes == 1..MaxWrites
Version == Nat \X Nat        \* (system.data_version, _local_version)
ASSUME NoVersionAssumption == NoVersion \notin Version

VARIABLES
  deployment, \* how the application runs, chosen once
  version,   \* system.data_version, committed
  data,      \* the writes committed
  made,      \* writes made so far, committed or not
  lock,      \* the session that holds the row of the counter, or the database
  local,     \* _local_version of each process
  cache,     \* settings_service._cache of each process
  snaps,     \* snapshot._CACHE of each process
  pc,        \* what each session does next
  goal,      \* what its call of _sync() is for
  tx,        \* its transaction: writes, and the counter it wrote (0: none)
  seen,      \* the counter bump_version() read
  ver,       \* the version _sync() compared
  rows,      \* the rows a query returned
  must       \* the data the session saw when its read began

vars == <<deployment, version, data, made, lock, local, cache, snaps, pc, goal, tx, seen, ver, rows, must>>

Empty == [ver |-> NoVersion, vals |-> {}]

Init ==
  /\ deployment \in Deployments
  /\ version = 1 /\ data = {} /\ made = 0
  /\ lock = NoSession
  /\ local = [w \in Workers |-> 0]
  /\ cache = [w \in Workers |-> Empty]
  /\ snaps = [w \in Workers |-> Empty]
  /\ pc = [s \in Sessions |-> "idle"]
  /\ goal = [s \in Sessions |-> "get"]
  /\ tx = [s \in Sessions |-> [writes |-> {}, counter |-> 0]]
  /\ seen = [s \in Sessions |-> 0]
  /\ ver = [s \in Sessions |-> <<0, 0>>]
  /\ rows = [s \in Sessions |-> {}]
  /\ must = [s \in Sessions |-> {}]

-----------------------------------------------------------------------------
VisibleVersion(s) == IF tx[s].counter # 0 THEN tx[s].counter ELSE version
VisibleData(s) == data \cup tx[s].writes
Current(s) == <<VisibleVersion(s), local[WorkerOf[s]]>>

Go(s, where) == pc' = [pc EXCEPT ![s] = where]

Free(s) == lock \in {NoSession, s}

(* Back to the transaction the read was part of, if any.                    *)
Back(s) == IF tx[s].writes # {} THEN "open" ELSE "idle"

-----------------------------------------------------------------------------
(* Writing: a setting or any other row, then bump_version(), then commit.   *)

Write(s) ==
  /\ pc[s] \in {"idle", "open"}
  /\ made < deployment.writes
  /\ deployment.databaseLock => Free(s)
  /\ made' = made + 1
  /\ tx' = [tx EXCEPT ![s].writes = @ \cup {made'}]
  /\ lock' = IF deployment.databaseLock THEN s ELSE lock
  /\ Go(s, "wrote")
  /\ UNCHANGED <<version, data, local, cache, snaps, goal, seen, ver, rows, must>>

\* mutant: only the counter in the database counts
BumpReadShared(s) ==
  /\ pc[s] = "wrote"
  /\ seen' = [seen EXCEPT ![s] = VisibleVersion(s)]
  /\ Go(s, "bump")
  /\ UNCHANGED <<version, data, made, lock, local, cache, snaps, goal, tx, ver, rows, must>>
\* mutant: the counter of the process is taken for the one in the database
BumpReadLocal(s) ==
  /\ pc[s] = "wrote"
  /\ local' = [local EXCEPT ![WorkerOf[s]] = @ + 1]
  /\ seen' = [seen EXCEPT ![s] = local[WorkerOf[s]]]
  /\ Go(s, "bump")
  /\ UNCHANGED <<version, data, made, lock, cache, snaps, goal, tx, ver, rows, must>>

BumpRead(s) ==
  /\ pc[s] = "wrote"
  /\ local' = [local EXCEPT ![WorkerOf[s]] = @ + 1]
  /\ seen' = [seen EXCEPT ![s] = VisibleVersion(s)]
  /\ Go(s, "bump")
  /\ UNCHANGED <<version, data, made, lock, cache, snaps, goal, tx, ver, rows, must>>

(* The UPDATE waits for the row; it writes the number computed before.      *)
BumpWrite(s) ==
  /\ pc[s] = "bump"
  /\ Free(s)
  /\ lock' = s
  /\ tx' = [tx EXCEPT ![s].counter = seen[s] + 1]
  /\ cache' = [cache EXCEPT ![WorkerOf[s]].ver = NoVersion]
  /\ Go(s, "open")
  /\ UNCHANGED <<version, data, made, local, snaps, goal, seen, ver, rows, must>>

EndTx(s) ==
  /\ tx' = [tx EXCEPT ![s] = [writes |-> {}, counter |-> 0]]
  /\ lock' = IF lock = s THEN NoSession ELSE lock
  /\ Go(s, "idle")
  /\ UNCHANGED <<made, local, cache, snaps, goal, seen, ver, rows, must>>

Commit(s) ==
  /\ pc[s] = "open"
  /\ data' = data \cup tx[s].writes
  /\ version' = tx[s].counter
  /\ EndTx(s)

(* The request raises, or only previews. *)
Rollback(s) ==
  /\ deployment.canRollback
  /\ pc[s] \in {"wrote", "open"}
  /\ UNCHANGED <<version, data>>
  /\ EndTx(s)

-----------------------------------------------------------------------------
(* _sync(): compare the versions, and load all settings when they differ.   *)

Synced(what) == CASE what = "get" -> "use"
                  [] what = "snapshot" -> "compare"
                  [] what = "stamp" -> "stamp"

Compare(s, what) ==
  /\ goal' = [goal EXCEPT ![s] = what]
  /\ ver' = [ver EXCEPT ![s] = Current(s)]
  /\ must' = IF what = "stamp" THEN must ELSE [must EXCEPT ![s] = VisibleData(s)]
  /\ Go(s, IF cache[WorkerOf[s]].ver = Current(s) THEN Synced(what) ELSE "load")

(* S.get() and get_snapshot(), in a request that only reads or in one that  *)
(* already wrote.                                                           *)
StartRead(s) ==
  /\ pc[s] \in {"idle", "open"}
  /\ \E what \in {"get", "snapshot"} : Compare(s, what)
  /\ UNCHANGED <<version, data, made, lock, local, cache, snaps, tx, seen, rows>>

LoadSettings(s) ==
  /\ pc[s] = "load"
  /\ rows' = [rows EXCEPT ![s] = VisibleData(s)]
  /\ Go(s, "store")
  /\ UNCHANGED <<version, data, made, lock, local, cache, snaps, goal, tx, seen, ver, must>>

\* mutant: the version is read again after the rows
StoreRestamped(s) ==
  /\ pc[s] = "store"
  /\ cache' = [cache EXCEPT ![WorkerOf[s]] = [ver |-> Current(s), vals |-> rows[s]]]
  /\ Go(s, Synced(goal[s]))
  /\ UNCHANGED <<version, data, made, lock, local, snaps, goal, tx, seen, ver, rows, must>>

StoreSettings(s) ==
  /\ pc[s] = "store"
  /\ cache' = [cache EXCEPT ![WorkerOf[s]] = [ver |-> ver[s], vals |-> rows[s]]]
  /\ Go(s, Synced(goal[s]))
  /\ UNCHANGED <<version, data, made, lock, local, snaps, goal, tx, seen, ver, rows, must>>

(* The value is taken from the cache all threads of the process share.      *)
UseSetting(s) ==
  /\ pc[s] = "use"
  /\ Go(s, Back(s))
  /\ UNCHANGED <<version, data, made, lock, local, cache, snaps, goal, tx, seen, ver, rows, must>>

-----------------------------------------------------------------------------
(* get_snapshot(): a snapshot is served when its version is the current     *)
(* one; otherwise, or when forced or on a new day, one is built, and the    *)
(* version is read once more after that.                                    *)

ServeCached(s) ==
  /\ pc[s] = "compare"
  /\ snaps[WorkerOf[s]].ver = cache[WorkerOf[s]].ver
  /\ Go(s, "serve")
  /\ UNCHANGED <<version, data, made, lock, local, cache, snaps, goal, tx, seen, ver, rows, must>>

Rebuild(s) ==
  /\ pc[s] = "compare"
  /\ Go(s, "build")
  /\ UNCHANGED <<version, data, made, lock, local, cache, snaps, goal, tx, seen, ver, rows, must>>

\* mutant: the snapshot that is there is kept
BuildNothing(s) ==
  /\ pc[s] = "build"
  /\ Go(s, "built")
  /\ UNCHANGED <<version, data, made, lock, local, cache, snaps, goal, tx, seen, ver, rows, must>>

Build(s) ==
  /\ pc[s] = "build"
  /\ snaps' = [snaps EXCEPT ![WorkerOf[s]].vals = VisibleData(s)]
  /\ Go(s, "built")
  /\ UNCHANGED <<version, data, made, lock, local, cache, goal, tx, seen, ver, rows, must>>

ReadVersionAgain(s) ==
  /\ pc[s] = "built"
  /\ Compare(s, "stamp")
  /\ UNCHANGED <<version, data, made, lock, local, cache, snaps, tx, seen, rows>>

Stamp(s) ==
  /\ pc[s] = "stamp"
  /\ snaps' = [snaps EXCEPT ![WorkerOf[s]].ver = cache[WorkerOf[s]].ver]
  /\ Go(s, "serve")
  /\ UNCHANGED <<version, data, made, lock, local, cache, goal, tx, seen, ver, rows, must>>

Serve(s) ==
  /\ pc[s] = "serve"
  /\ Go(s, Back(s))
  /\ UNCHANGED <<version, data, made, lock, local, cache, snaps, goal, tx, seen, ver, rows, must>>

(* A worker is killed and started again: its transactions are rolled back   *)
(* and its memory starts afresh.                                            *)
Restart(w) ==
  LET mine == {s \in Sessions : WorkerOf[s] = w}
  IN  /\ local' = [local EXCEPT ![w] = 0]
      /\ cache' = [cache EXCEPT ![w] = Empty]
      /\ snaps' = [snaps EXCEPT ![w] = Empty]
      /\ pc' = [s \in Sessions |-> IF s \in mine THEN "idle" ELSE pc[s]]
      /\ tx' = [s \in Sessions |-> IF s \in mine THEN [writes |-> {}, counter |-> 0] ELSE tx[s]]
      /\ lock' = IF lock \in mine THEN NoSession ELSE lock
      /\ UNCHANGED <<version, data, made, goal, seen, ver, rows, must>>

Next ==
  /\ UNCHANGED deployment
  /\ \/ \E s \in deployment.sessions :
          \/ Write(s) \/ BumpRead(s) \/ BumpWrite(s) \/ Commit(s) \/ Rollback(s)
          \/ StartRead(s) \/ LoadSettings(s) \/ StoreSettings(s) \/ UseSetting(s)
          \/ ServeCached(s) \/ Rebuild(s) \/ Build(s) \/ ReadVersionAgain(s) \/ Stamp(s) \/ Serve(s)
     \/ \E w \in Workers : Restart(w)

Spec == Init /\ [][Next]_vars

-----------------------------------------------------------------------------
(* Deployments *)

(* One thread serves all requests. *)
Alone(d) == \E s \in Sessions : d.sessions = {s}

(* Every process has one thread. *)
OwnWorkers(d) == \A s, t \in d.sessions : WorkerOf[s] = WorkerOf[t] => s = t

(* Writers take turns: they queue for the database, or there is one.        *)
Serial(d) == d.databaseLock \/ Alone(d)

(* Deployments whose settings caches follow the data: one thread, whatever  *)
(* fails; or a thread to a process, writers that queue, and no request that *)
(* fails after it wrote.  Procfile deploys neither.                         *)
Sheltered(d) == Alone(d) \/ (d.databaseLock /\ ~d.canRollback /\ OwnWorkers(d))

OneThread == Alone(deployment)

-----------------------------------------------------------------------------
(* Properties *)

(* settings_service.py:133, "Invalidate the in-process cache when any       *)
(* worker bumped the data version": a setting is read from a cache that has *)
(* everything that was committed, in any worker, before the read began.     *)
SettingsFresh ==
  \A s \in Sessions : pc[s] = "use" => must[s] \subseteq cache[WorkerOf[s]].vals

(* "All dashboards, APIs, alerts, scenarios and reports read the same       *)
(* cached snapshot ..., keyed by a data-version counter stored in the DB":  *)
(* a snapshot that is served has everything that was committed, in any      *)
(* worker, before the request asked for it (get_snapshot()).                *)
SnapshotsCurrent ==
  \A s \in Sessions : pc[s] = "serve" => must[s] \subseteq snaps[WorkerOf[s]].vals

(* What a failed or previewed request wrote is never read by a later one of *)
(* the same thread: everything it uses is committed or its own.             *)
NothingUndoneIsRead ==
  OneThread => \A s \in Sessions :
    /\ pc[s] = "use" => cache[WorkerOf[s]].vals \subseteq VisibleData(s)
    /\ pc[s] = "serve" => snaps[WorkerOf[s]].vals \subseteq VisibleData(s)

(* Where writers queue for the database, new data comes with a higher       *)
(* version than any before it, so that a version names one state of the     *)
(* data.                                                                    *)
VersionNamesData == [][data' # data => version' > version]_vars
=============================================================================
