------------------------------- MODULE Server -------------------------------
(***************************************************************************)
(* The life of the server processes around the live logs: main applies the *)
(* migrations, connects to PostgreSQL and Redis, serves, and on a signal   *)
(* drains, closes the pools and exits.  Several processes may run at once, *)
(* as when a new version is rolled out; each knows the migrations it was   *)
(* built with.  A process may end at any point, and may be started again.  *)
(*                                                                         *)
(* The migrations are golang-migrate's, which is external: an advisory     *)
(* lock that PostgreSQL gives to one session; a version marked dirty       *)
(* before a migration's body runs and clean after it; a body that runs     *)
(* wholly or not at all.  The lock belongs to the session that runs the    *)
(* bodies, so it ends with the process.                                    *)
(***************************************************************************)
EXTENDS LogStream

CONSTANTS
    Process,
    Known,       \* process -> how many migrations it was built with
    Budgets      \* bounds: how often each process starts, how many events there are

ASSUME KnownAssumption == Known \in [Process -> Nat]
ASSUME BudgetsAssumption == Budgets \subseteq [starts : [Process -> Nat], events : 0 .. MaxEvents]
ASSUME NoProcess == None \notin Process

VARIABLES
    budget,      \* the bounds that hold in this behaviour
    phase,       \* process -> what main is doing
    starts,      \* process -> how often it was started
    lock,        \* the process whose session holds the advisory lock
    version,     \* schema_migrations.version
    dirty,       \* schema_migrations.dirty
    schema,      \* (history) the bodies that ran, in order
    at,          \* process -> the migration it has got to
    home,        \* event number -> the process that tracks it
    host         \* client -> the process it is connected to

schemaVars == <<version, dirty, schema, at>>
processVars == <<phase, starts, lock, schemaVars>>
placeVars == <<budget, home, host>>
serverVars == <<vars, processVars, placeVars>>

Starting == {"locking", "migrating", "marked", "applied", "connecting"}
Running == {"serving", "draining", "waiting", "closing"}

ServerTypeOK ==
    /\ TypeOK
    /\ phase \in [Process -> {"off"} \cup Starting \cup Running]
    /\ budget \in Budgets
    /\ starts \in [Process -> Nat]
    /\ lock \in Process \cup {None}
    /\ version \in Nat
    /\ dirty \in BOOLEAN
    /\ schema \in Seq(Nat)
    /\ at \in [Process -> Nat]
    /\ home \in [Event -> Process]
    /\ host \in [Client -> Process \cup {None}]

ServerInit ==
    /\ Init
    /\ budget \in Budgets
    /\ phase = [s \in Process |-> "off"]
    /\ starts = [s \in Process |-> 0]
    /\ lock = None /\ version = 0 /\ dirty = FALSE /\ schema = <<>>
    /\ at = [s \in Process |-> 0]
    /\ home = <<>>
    /\ host = [c \in Client |-> None]

-----------------------------------------------------------------------------
(* Starting: config.Load, migrate.Run, mustConnectDB, mustConnectRedis.     *)
(* Any of them may fail: log.Fatal ends the process, as Crash does.         *)

Go(s, p) == phase' = [phase EXCEPT ![s] = p]

Start(s) ==
    /\ phase[s] = "off" /\ starts[s] < budget.starts[s]
    /\ Go(s, "locking")
    /\ starts' = [starts EXCEPT ![s] = @ + 1]
    /\ UNCHANGED <<vars, lock, schemaVars, placeVars>>

(* Mutants of Lock: no lock, and a dirty version taken for an applied one. *)
LockNothing(s) ==
    /\ phase[s] = "locking"
    /\ ~dirty /\ version <= Known[s]
    /\ lock' = s
    /\ at' = [at EXCEPT ![s] = version]
    /\ Go(s, "migrating")
    /\ UNCHANGED <<vars, starts, version, dirty, schema, placeVars>>

LockDirty(s) ==
    /\ phase[s] = "locking"
    /\ lock = None /\ version <= Known[s]
    /\ lock' = s
    /\ at' = [at EXCEPT ![s] = version]
    /\ Go(s, "migrating")
    /\ UNCHANGED <<vars, starts, version, dirty, schema, placeVars>>

(* m.Up: the lock is taken and the version read, which nobody else changes *)
(* from then on.  A dirty version, or one this process does not know, is   *)
(* an error; so is waiting for the lock too long.                          *)
Lock(s) ==
    /\ phase[s] = "locking"
    /\ lock = None /\ ~dirty /\ version <= Known[s]
    /\ lock' = s
    /\ at' = [at EXCEPT ![s] = version]
    /\ Go(s, "migrating")
    /\ UNCHANGED <<vars, starts, version, dirty, schema, placeVars>>

(* SetVersion(next, dirty) *)
MarkDirty(s) ==
    /\ phase[s] = "migrating" /\ at[s] < Known[s]
    /\ version' = at[s] + 1 /\ dirty' = TRUE
    /\ at' = [at EXCEPT ![s] = @ + 1]
    /\ Go(s, "marked")
    /\ UNCHANGED <<vars, starts, lock, schema, placeVars>>

RunBody(s) ==
    /\ phase[s] = "marked"
    /\ schema' = Append(schema, at[s])
    /\ Go(s, "applied")
    /\ UNCHANGED <<vars, starts, lock, version, dirty, at, placeVars>>

(* SetVersion(next, clean) *)
MarkClean(s) ==
    /\ phase[s] = "applied"
    /\ version' = at[s] /\ dirty' = FALSE
    /\ Go(s, "migrating")
    /\ UNCHANGED <<vars, starts, lock, schema, at, placeVars>>

Migrated(s) ==
    /\ phase[s] = "migrating" /\ at[s] = Known[s]
    /\ lock' = None
    /\ at' = [at EXCEPT ![s] = 0]
    /\ Go(s, "connecting")
    /\ UNCHANGED <<vars, starts, version, dirty, schema, placeVars>>

(* Both pings succeed and app.Listen accepts connections. *)
Connect(s) ==
    /\ phase[s] = "connecting" /\ redis = "up"
    /\ Go(s, "serving")
    /\ UNCHANGED <<vars, starts, lock, schemaVars, placeVars>>

-----------------------------------------------------------------------------
(* Running. *)

(* SIGINT or SIGTERM, once signal.Notify has run. *)
Signal(s) ==
    /\ phase[s] = "serving"
    /\ Go(s, "draining")
    /\ UNCHANGED <<vars, starts, lock, schemaVars, placeVars>>

HandlersOf(s) == {c \in subscribed : host[c] = s}

(* Mutant of StopDraining: app.Shutdown, without a timeout. *)
StopWhenIdle(s) ==
    /\ phase[s] = "draining" /\ HandlersOf(s) = {}
    /\ Go(s, "waiting") \/ Go(s, "closing")
    /\ UNCHANGED <<vars, starts, lock, schemaVars, placeVars>>

(* ShutdownWithTimeout returns when the last connection is closed or after *)
(* 10 seconds, whatever still runs; then the Redis client is closed, and   *)
(* db.Close waits for the queries that hold a connection of the pool.      *)
StopDraining(s) ==
    /\ phase[s] = "draining"
    /\ Go(s, "waiting") \/ Go(s, "closing")
    /\ UNCHANGED <<vars, starts, lock, schemaVars, placeVars>>

(* The last query ends; nothing but PostgreSQL sees to that. *)
QueriesDone(s) ==
    /\ phase[s] = "waiting"
    /\ Go(s, "closing")
    /\ UNCHANGED <<vars, starts, lock, schemaVars, placeVars>>

(* The process ends, and all that runs in it. *)
Exit(s) ==
    /\ Go(s, "off")
    /\ lock' = IF lock = s THEN None ELSE lock
    /\ at' = [at EXCEPT ![s] = 0]
    /\ Kill({e \in Event : home[e] = s}, {c \in Client : host[c] = s})
    /\ UNCHANGED <<starts, version, dirty, schema, placeVars>>

(* main returns. *)
Close(s) ==
    /\ phase[s] = "closing"
    /\ Exit(s)

(* A fatal error while starting, a signal before signal.Notify, a panic in *)
(* a goroutine, or the process is killed.                                  *)
Crash(s) ==
    /\ phase[s] # "off"
    /\ Exit(s)

-----------------------------------------------------------------------------
(* The live logs, each step in the process it belongs to.  A closing       *)
(* process has no Redis any more, but its goroutines run until it exits.   *)

TrackAt(s, u) ==
    /\ phase[s] \in Running /\ Len(events) < budget.events
    /\ Track(u)
    /\ home' = Append(home, s)
    /\ UNCHANGED <<processVars, budget, host>>

SubscribeAt(s, c, u) ==
    /\ phase[s] \in {"serving", "draining"}
    /\ Subscribe(c, u)
    /\ host' = [host EXCEPT ![c] = s]
    /\ UNCHANGED <<processVars, budget, home>>

Command(e) ==
    /\ phase[home[e]] \in {"serving", "draining"}
    /\ XAdd(e) \/ Publish(e)
    /\ UNCHANGED <<processVars, placeVars>>

Logs ==
    /\ \/ \E e \in Event : Timeout(e)
       \/ \E c \in Client : Write(c) \/ Disconnect(c)
       \/ RedisDown \/ RedisUp
    /\ UNCHANGED <<processVars, placeVars>>

Migrating(s) == Lock(s) \/ MarkDirty(s) \/ RunBody(s) \/ MarkClean(s) \/ Migrated(s)

ServerNext ==
    \/ \E s \in Process :
          \/ Start(s) \/ Migrating(s) \/ Connect(s)
          \/ Signal(s) \/ StopDraining(s) \/ QueriesDone(s) \/ Close(s) \/ Crash(s)
          \/ \E u \in User : TrackAt(s, u) \/ \E c \in Client : SubscribeAt(s, c, u)
    \/ \E e \in Event : Command(e)
    \/ Logs

ServerSpec == ServerInit /\ [][ServerNext]_serverVars

(* main runs, the shutdown's timer fires, PostgreSQL answers a query. *)
ServerFairSpec ==
    /\ ServerSpec
    /\ \A s \in Process :
          /\ WF_serverVars(StopDraining(s))
          /\ WF_serverVars(Close(s))
          /\ WF_serverVars(QueriesDone(s))
    /\ \A e \in 1 .. MaxEvents : WF_serverVars(e \in Event /\ Timeout(e) /\ UNCHANGED <<processVars, placeVars>>)

-----------------------------------------------------------------------------
(***************************************************************************)
(* A process that serves finds its migrations applied, each exactly once   *)
(* and in order, however many processes start at the same time and         *)
(* wherever one of them ended before: the queries of the handlers are      *)
(* written for that schema, and the last migration cannot be run twice.    *)
(***************************************************************************)
Complete(n) == Len(schema) >= n /\ \A i \in 1 .. Len(schema) : schema[i] = i

ServesCompleteSchema ==
    \A s \in Process : phase[s] \in Running => Complete(Known[s])

(***************************************************************************)
(* A migration that was interrupted leaves its mark for good: no process   *)
(* started from then on ever serves, though the migration may have run     *)
(* wholly or not at all.  Run is not safe to call on every startup.        *)
(***************************************************************************)
Interrupted == dirty /\ lock = None

InterruptedForGood ==
    \A s \in Process : [](Interrupted /\ phase[s] = "off" => [](phase[s] \notin Running))

(***************************************************************************)
(* A process that was told to stop does stop: live logs, which never end   *)
(* by themselves, do not hold it up.                                       *)
(***************************************************************************)
ShutdownEnds == \A s \in Process : phase[s] = "draining" ~> phase[s] = "off"
=============================================================================
