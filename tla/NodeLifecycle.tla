---------------------------- MODULE NodeLifecycle ----------------------------
(* `zallet start` from the data-directory lock to the end of its last task:  *)
(* a startup future that can fail at every step and be cancelled at every    *)
(* await, the tasks it spawns and who owns their cancellation, the wallet    *)
(* database it verifies before it migrates, the cookie file, and the check   *)
(* that the node's consensus rules are this build's.  Cancelling a task is a *)
(* request: it ends later, when the future that owned it and the lock it held*)
(* may be long gone and another process has started.                         *)
EXTENDS Integers, FiniteSets

CONSTANTS Procs,        \* invocations of `zallet start`
          Builds,       \* what they run with: [net, ver, rpc, auth]
          MinVersion,   \* the oldest version whose database is accepted
          Upgrades,     \* the consensus branches either side may know
          OurRules,     \* the branches this build schedules: branch -> height
          Recognized,   \* the branches this build can interpret
          MaxNodeTip     \* heights are 0..MaxNodeTip

None == -1   \* no height

\* "none" names no process, and a build schedules only branches it can interpret.
ASSUME LifeAssumption ==
  /\ "none" \notin Procs
  /\ MaxNodeTip \in Nat
  /\ DOMAIN OurRules \subseteq Recognized \cap Upgrades
  /\ \A b \in DOMAIN OurRules : OurRules[b] \in 0..MaxNodeTip

VARIABLES build,     \* Procs -> Builds
          pc,        \* Procs -> how far the startup future is
          alive,     \* Procs -> its tasks that have not ended
          aborted,   \* Procs -> those asked to
          owned,     \* Procs -> the tasks StartupTaskOwner cancels when dropped
          pending,   \* Procs -> the tasks PendingWalletSyncTasks cancels when dropped
          stopAt,    \* Procs -> the height to shut down at, or None
          guard,     \* the processes that hold a CookieGuard
          cookie,    \* whose cookie is in the file, or "none"
          holder,    \* who holds the data-directory lock, or "none"
          db,        \* the wallet database: the network and the version recorded in it
          killed,    \* the processes the system killed
          node       \* the full node: the upgrades it reports, and its tip

lifeVars == <<build, pc, alive, aborted, owned, pending, stopAt, guard, cookie, holder, db, killed, node>>

Tasks == {"indexer", "rpc", "decryptor", "steady", "history", "requests"}
SyncTasks == Tasks \ {"indexer", "rpc"}

Starting == {"build", "compat", "open", "create", "migrate", "record", "pir", "keystore", "rpc",
             "listen", "decryptor", "init", "history", "requests"}
Startup == Starting \cup {"run"}

\* A database: exists once its file is not empty, net the network it was made for, ver the last
\* version recorded; 0 and "none" when the row is not there.
NoDb == [exists |-> FALSE, net |-> "none", ver |-> 0]

\* A node reports each branch it knows with a status; a disabled one's height means nothing.
Reports == [status : {"Active", "Pending"}, height : 0..MaxNodeTip]
           \cup {[status |-> "Disabled", height |-> 0]}

LifeInit ==
  /\ build \in [Procs -> Builds]
  /\ pc = [p \in Procs |-> "off"]
  /\ alive = [p \in Procs |-> {}] /\ aborted = [p \in Procs |-> {}]
  /\ owned = [p \in Procs |-> {}] /\ pending = [p \in Procs |-> {}]
  /\ stopAt = [p \in Procs |-> None]
  /\ guard = {} /\ cookie = "none" /\ holder = "none" /\ killed = {}
  /\ \/ db = NoDb
     \/ \E b \in Builds, v \in {MinVersion - 1, MinVersion} :
          db = [exists |-> TRUE, net |-> b.net, ver |-> v]
  /\ \E known \in SUBSET Upgrades :
       node \in [reported : [known -> Reports], tip : 0..MaxNodeTip]

Disk == <<cookie, guard, db>>
Owners == <<owned, pending>>
Fixed == <<build, node, killed>>

-----------------------------------------------------------------------------
\* The consensus check.

\* Where the node switches to a branch, or None: disabled, or not reported.
NodeHeight(b) ==
  IF b \in DOMAIN node.reported /\ node.reported[b].status # "Disabled"
  THEN node.reported[b].height ELSE None

OurHeight(b) == IF b \in DOMAIN OurRules THEN OurRules[b] ELSE None

\* branch_incompatibility: where the two sides part over b, or None.  An unrecognized branch parts
\* them where the node activates it, a recognized one at the earlier of two different heights.
Divergence(b) ==
  LET both == {OurHeight(b), NodeHeight(b)} \ {None}
  IN IF b \notin Recognized THEN NodeHeight(b)
     ELSE IF OurHeight(b) = NodeHeight(b) \/ both = {} THEN None
     ELSE CHOOSE h \in both : \A g \in both : h <= g

ExaminedByNode == DOMAIN node.reported

\* Every branch either side knows.
Examined == DOMAIN node.reported \cup DOMAIN OurRules

\* detect_incompatibilities, as the heights that matter.
Incompatibilities == {Divergence(b) : b \in Examined} \ {None}

\* classify: refuse what has already taken effect.
Diverged == \E h \in Incompatibilities : h <= node.tip

EarliestDivergence ==
  IF Incompatibilities = {} THEN None
  ELSE CHOOSE h \in Incompatibilities : \A g \in Incompatibilities : h <= g

-----------------------------------------------------------------------------
\* The startup future of p.

Goto(p, at) == pc' = [pc EXCEPT ![p] = at]

\* A task whose handle the startup owner takes (or, during WalletSync::spawn, the pending owner).
Spawn(p, t) == alive' = [alive EXCEPT ![p] = @ \cup {t}]

GuardKept(p) == FALSE

\* The future still has the guard of the cookie it wrote while the server is not listening yet.
HasGuard(p) == pc[p] = "listen"

\* Dropping the future, because it returned or was cancelled, drops its owners, a guard not yet
\* given to the server's task, and last the lock.
DropFuture(p) ==
  /\ aborted' = [aborted EXCEPT ![p] = @ \cup owned[p] \cup pending[p]]
  /\ owned' = [owned EXCEPT ![p] = {}] /\ pending' = [pending EXCEPT ![p] = {}]
  /\ guard' = (IF HasGuard(p) THEN guard \ {p} ELSE guard)
  /\ cookie' = (IF HasGuard(p) THEN "none" ELSE cookie)
  /\ holder' = (IF holder = p THEN "none" ELSE holder)
  /\ Goto(p, "ended")
  /\ UNCHANGED <<alive, stopAt, db>> /\ UNCHANGED Fixed

LockShared(p) ==
  /\ pc[p] = "off"
  /\ holder' = p /\ Goto(p, "build")
  /\ UNCHANGED <<alive, aborted, stopAt>> /\ UNCHANGED Owners /\ UNCHANGED Disk /\ UNCHANGED Fixed

\* lock_datadir: one process at a time.
Lock(p) ==
  /\ pc[p] = "off"
  /\ IF holder = "none"
     THEN holder' = p /\ Goto(p, "build")
     ELSE Goto(p, "ended") /\ UNCHANGED holder
  /\ UNCHANGED <<alive, aborted, stopAt>> /\ UNCHANGED Owners /\ UNCHANGED Disk /\ UNCHANGED Fixed

\* The backend is built before the database is opened, and its task is owned at once.
BuildChain(p) ==
  /\ pc[p] = "build"
  /\ Spawn(p, "indexer") /\ owned' = [owned EXCEPT ![p] = {"indexer"}]
  /\ Goto(p, "compat")
  /\ UNCHANGED <<aborted, pending, stopAt, holder>> /\ UNCHANGED Disk /\ UNCHANGED Fixed

\* check_consensus_compatibility.
CheckConsensus(p) ==
  /\ pc[p] = "compat" /\ ~Diverged
  /\ stopAt' = [stopAt EXCEPT ![p] = EarliestDivergence]
  /\ Goto(p, "open")
  /\ UNCHANGED <<alive, aborted, holder>> /\ UNCHANGED Owners /\ UNCHANGED Disk /\ UNCHANGED Fixed

AdmitsAny(p) == TRUE

\* verify_existing_database: the version recorded, then the network.
Admits(p) == db.ver >= MinVersion /\ db.net = build[p].net

\* Database::open: an existing database is verified before anything is changed.
OpenDb(p) ==
  /\ pc[p] = "open"
  /\ db.exists => Admits(p)
  /\ Goto(p, IF db.exists THEN "migrate" ELSE "create")
  /\ UNCHANGED <<alive, aborted, stopAt, holder>> /\ UNCHANGED Owners /\ UNCHANGED Disk /\ UNCHANGED Fixed

\* The first migrations of a new database; the one that records the network comes after them.
CreateDb(p) ==
  /\ pc[p] = "create"
  /\ db' = [db EXCEPT !.exists = TRUE]
  /\ Goto(p, "migrate")
  /\ UNCHANGED <<alive, aborted, stopAt, holder, cookie, guard>> /\ UNCHANGED Owners /\ UNCHANGED Fixed

Migrate(p) ==
  /\ pc[p] = "migrate"
  /\ db' = [db EXCEPT !.net = build[p].net]
  /\ Goto(p, "record")
  /\ UNCHANGED <<alive, aborted, stopAt, holder, cookie, guard>> /\ UNCHANGED Owners /\ UNCHANGED Fixed

RecordVersion(p) ==
  /\ pc[p] = "record"
  /\ db' = [db EXCEPT !.ver = build[p].ver]
  /\ Goto(p, "pir")
  /\ UNCHANGED <<alive, aborted, stopAt, holder, cookie, guard>> /\ UNCHANGED Owners /\ UNCHANGED Fixed

\* Stale witnesses are cleared and the keystore is opened.
Prepare(p) ==
  /\ \/ pc[p] = "pir" /\ Goto(p, "keystore")
     \/ pc[p] = "keystore" /\ Goto(p, "rpc")
  /\ UNCHANGED <<alive, aborted, stopAt, holder>> /\ UNCHANGED Owners /\ UNCHANGED Disk /\ UNCHANGED Fixed

CookieIfNone(p) == IF cookie = "none" THEN p ELSE cookie

\* generate_cookie: a new credential, renamed over whatever is there.
GeneratedCookie(p) == p

\* JsonRpc::spawn: without an address, a task that never ends; with one that is not loopback and
\* not opted into, more than one, or a reserved user, an error before any cookie is written.
Serves(p) == build[p].rpc = "bound" /\ build[p].auth # "reserved"

SpawnRpc(p) ==
  /\ pc[p] = "rpc"
  /\ \/ /\ build[p].rpc = "none"
        /\ Spawn(p, "rpc") /\ owned' = [owned EXCEPT ![p] = @ \cup {"rpc"}]
        /\ Goto(p, "decryptor")
        /\ UNCHANGED <<guard, cookie>>
     \/ /\ Serves(p)
        /\ guard' = guard \cup {p} /\ cookie' = GeneratedCookie(p)
        /\ Goto(p, "listen")
        /\ UNCHANGED <<alive, owned>>
  /\ UNCHANGED <<aborted, pending, stopAt, holder, db>> /\ UNCHANGED Fixed

\* The address is free, the configured users are valid: the task takes the guard over.
Listen(p) ==
  /\ pc[p] = "listen" /\ build[p].auth = "valid"
  /\ \A q \in Procs \ {p} : build[q].rpc = "bound" => "rpc" \notin alive[q]
  /\ Spawn(p, "rpc") /\ owned' = [owned EXCEPT ![p] = @ \cup {"rpc"}]
  /\ Goto(p, "decryptor")
  /\ UNCHANGED <<aborted, pending, stopAt, holder>> /\ UNCHANGED Disk /\ UNCHANGED Fixed

\* WalletSync::spawn: each task is given to the pending owner as it is spawned, and an await for a
\* database handle comes before each.
SpawnSyncUnowned(p, at, t, next) ==
  /\ pc[p] = at
  /\ Spawn(p, t)
  /\ UNCHANGED pending
  /\ Goto(p, next)
  /\ UNCHANGED <<aborted, owned, stopAt, holder>> /\ UNCHANGED Disk /\ UNCHANGED Fixed

SpawnSync(p, at, t, next) ==
  /\ pc[p] = at
  /\ Spawn(p, t)
  /\ pending' = [pending EXCEPT ![p] = @ \cup {t}]
  /\ Goto(p, next)
  /\ UNCHANGED <<aborted, owned, stopAt, holder>> /\ UNCHANGED Disk /\ UNCHANGED Fixed

\* The last task, the handover and the caller's registration run without an await between them.
SpawnLast(p) ==
  /\ pc[p] = "requests"
  /\ Spawn(p, "requests")
  /\ owned' = [owned EXCEPT ![p] = @ \cup SyncTasks] /\ pending' = [pending EXCEPT ![p] = {}]
  /\ Goto(p, "run")
  /\ UNCHANGED <<aborted, stopAt, holder>> /\ UNCHANGED Disk /\ UNCHANGED Fixed

\* Every step may fail, and a signal cancels the future at its next await.
Fail(p) == pc[p] \in Starting /\ DropFuture(p)
Signal(p) == pc[p] \in Startup /\ DropFuture(p)

-----------------------------------------------------------------------------
\* The tasks.

EndOf(p, ts) ==
  /\ alive' = [alive EXCEPT ![p] = @ \ ts]
  /\ aborted' = [aborted EXCEPT ![p] = @ \ ts]
  /\ LET drops == "rpc" \in ts /\ p \in guard
     IN guard' = (IF drops THEN guard \ {p} ELSE guard) /\ cookie' = (IF drops THEN "none" ELSE cookie)

\* A task ends by itself, with an error or not.  The first one decides; a second changes nothing.
TaskExits(p) ==
  /\ pc[p] \in Startup /\ owned[p] \cup pending[p] \subseteq alive[p]
  /\ \E t \in alive[p] : EndOf(p, {t})
  /\ UNCHANGED <<pc, owned, pending, stopAt, holder, db>> /\ UNCHANGED Fixed

SuperviseAll(p) ==
  /\ pc[p] = "run" /\ owned[p] \cap alive[p] = {}
  /\ DropFuture(p)

Supervise(p) ==
  /\ pc[p] = "run" /\ owned[p] \ alive[p] # {}
  /\ DropFuture(p)

\* Once the future is over the runtime is shut down, and drops what is left.
Shutdown(p) ==
  /\ pc[p] = "ended"
  /\ Goto(p, "closing")
  /\ UNCHANGED <<alive, aborted, stopAt, holder>> /\ UNCHANGED Owners /\ UNCHANGED Disk /\ UNCHANGED Fixed

\* An aborted task, or one of a runtime that shuts down, ends at its next await.  Only the RPC
\* server's leaves anything behind, so the others may as well end together.
WindDown(p) ==
  /\ \E ts \in {alive[p] \ {"rpc"}, alive[p] \cap {"rpc"}} \ {{}} :
       (ts \subseteq aborted[p] \/ pc[p] = "closing") /\ EndOf(p, ts)
  /\ UNCHANGED <<pc, owned, pending, stopAt, holder, db>> /\ UNCHANGED Fixed

Exit(p) ==
  /\ pc[p] = "closing" /\ alive[p] = {}
  /\ Goto(p, "gone")
  /\ UNCHANGED <<alive, aborted, stopAt, holder>> /\ UNCHANGED Owners /\ UNCHANGED Disk /\ UNCHANGED Fixed

\* A kill runs no destructor; the system releases the lock.
Kill(p) ==
  /\ pc[p] \in Startup \cup {"ended", "closing"}
  /\ Goto(p, "gone") /\ killed' = killed \cup {p}
  /\ alive' = [alive EXCEPT ![p] = {}] /\ aborted' = [aborted EXCEPT ![p] = {}]
  /\ owned' = [owned EXCEPT ![p] = {}] /\ pending' = [pending EXCEPT ![p] = {}]
  /\ guard' = guard \ {p} /\ holder' = (IF holder = p THEN "none" ELSE holder)
  /\ UNCHANGED <<build, node, stopAt, cookie, db>>

StartStep(p) ==
  \/ BuildChain(p) \/ CheckConsensus(p) \/ OpenDb(p) \/ CreateDb(p) \/ Migrate(p)
  \/ RecordVersion(p) \/ Prepare(p) \/ SpawnRpc(p) \/ Listen(p)
  \/ SpawnSync(p, "decryptor", "decryptor", "init")
  \/ SpawnSync(p, "init", "steady", "history") \/ SpawnSync(p, "history", "history", "requests")
  \/ SpawnLast(p) \/ Fail(p)

LifeNext ==
  \E p \in Procs :
    \/ Lock(p) \/ StartStep(p) \/ Signal(p) \/ TaskExits(p) \/ Supervise(p) \/ Shutdown(p)
    \/ WindDown(p) \/ Exit(p) \/ Kill(p)

LifeSpec == LifeInit /\ [][LifeNext]_lifeVars

\* The runtime keeps polling the supervisor and every task asked to end, and main goes on.
LifeFairness ==
  \A p \in Procs : /\ WF_lifeVars(Supervise(p)) /\ WF_lifeVars(Shutdown(p))
                   /\ WF_lifeVars(WindDown(p)) /\ WF_lifeVars(Exit(p))

-----------------------------------------------------------------------------

\* Nothing outlives the startup future uncancelled: when run_with_config has returned, failed or
\* been cancelled at any await, every task it spawned has ended or has been asked to
\* (StartupTaskOwner and PendingWalletSyncTasks between them own every task at every await).
NoOrphanTask ==
  \A p \in Procs : pc[p] \in {"ended", "closing"} => alive[p] \subseteq aborted[p]

\* A database is changed only under the network it was made for and only when the version last
\* recorded in it is one this build accepts: verification comes before the first migration.
UntouchedUnlessVerified ==
  [][(db.ver # 0 /\ db' # db) => db.ver >= MinVersion /\ db'.net = db.net]_lifeVars

\* From the moment Database::open returns to the end of its run, a process works on a database of
\* its own network that its own version was the last to open: the lock keeps every other start out.
DatabaseIsOurs ==
  \A p \in Procs : pc[p] \in Startup \ {"build", "compat", "open", "create", "migrate", "record"} =>
    db = [exists |-> TRUE, net |-> build[p].net, ver |-> build[p].ver]

\* The credential in the cookie file never is another process's while a server runs: a cookie left
\* by a killed process is overwritten before the server that replaces it listens.
CookieNeverForeign ==
  \A p \in guard : (pc[p] \in Startup /\ "rpc" \in alive[p]) => cookie \in {p, "none"}

\* When every process that ran ended by itself or by a signal, the cookie file is gone, also when
\* the start failed between writing it and handing it to the server's task (CookieGuard).
NoCookieLeft ==
  (killed = {} /\ \A p \in Procs : pc[p] \in {"off", "gone"}) => cookie = "none"

\* What a side's rules are at a height: the branches it has activated.
AgreeAt(h) ==
  \A b \in Upgrades : (NodeHeight(b) # None /\ NodeHeight(b) <= h)
                      <=> (OurHeight(b) # None /\ OurHeight(b) <= h)

\* check_consensus_compatibility is exact: start is refused if and only if the rules of the two
\* sides already differ at or below the tip, and otherwise the height to stop at is the first one
\* where they do.
ConsensusCheckExact ==
  /\ Diverged <=> \E h \in 0..node.tip : ~AgreeAt(h)
  /\ EarliestDivergence # None <=> \E h \in 0..MaxNodeTip : ~AgreeAt(h)
  /\ EarliestDivergence # None =>
       ~AgreeAt(EarliestDivergence) /\ \A h \in 0..(EarliestDivergence - 1) : AgreeAt(h)

\* The first task to end takes the process down: once a supervised task has ended, every other one
\* ends too and the process goes (supervise_zallet_tasks).
OneExitEndsAll ==
  \A p \in Procs : (pc[p] = "run" /\ owned[p] \ alive[p] # {}) ~> pc[p] = "gone"

\* "We can assume the network metadata table is present, as it's added by the initial migrations":
\* a database found by Database::open has its network recorded.
MetadataPresent ==
  \A p \in Procs : (pc[p] = "open" /\ db.exists) => db.net # "none"

\* Processes over one data directory stay apart and leave nothing behind, and the consensus check
\* that admits them is exact.
LifeSafe == NoOrphanTask /\ DatabaseIsOurs /\ CookieNeverForeign /\ NoCookieLeft /\ ConsensusCheckExact
=============================================================================
