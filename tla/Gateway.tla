------------------------------- MODULE Gateway ------------------------------
(***************************************************************************)
(* The standalone gateway's configuration pipeline: src/proxy/mod.rs over  *)
(* src/storage, driven by the admin API of src/admin and started by        *)
(* src/main.rs.                                                            *)
(*                                                                         *)
(* An admin call makes a changelog, appends it to the changelog table,     *)
(* writes the resource and brings what requests are served from up to      *)
(* date: the router of the namespace, the executor's modules, the list of  *)
(* domains.  Calls run on several worker threads and share no lock but the *)
(* executor's; every access to storage is atomic by itself.  At a start    *)
(* the boot task replays the changelog table, while the admin API already  *)
(* listens.  A crash loses everything but storage.                         *)
(*                                                                         *)
(* Calls are numbered in the order their changelogs are made, which is the *)
(* order of the changelogs' timestamps.  A stored resource is known by the *)
(* number of the call that wrote it.                                       *)
(***************************************************************************)
EXTENDS Integers, Sequences, FiniteSets

CONSTANTS
  Namespace, Route, Service, Module, Domain,
  Data,          \* secrets, collections and documents
  NsOf,          \* the namespace a resource belongs to
  Uses,          \* Uses[r]: the service and the modules route r names
  Default,       \* the namespace "default"
  NoDefault,     \* disable_default_namespace
  Broken,        \* modules whose payload does not decode
  Persistent,    \* file storage rather than memory storage
  Overlapping,   \* whether clients start a call before the last one ended
  Early,         \* whether clients call before /readyz says ready
  NoRouter,      \* a namespace without a router
  MaxCalls,      \* bound on admin calls
  MaxCrashes     \* bound on crashes

Resource == Namespace \cup Route \cup Service \cup Module \cup Domain \cup Data
Call == 1..MaxCalls
Boot == 0                  \* the boot task
Builtin == MaxCalls + 1    \* version of the default namespace made at boot
Absent == 0                \* version of what is not stored
TaskId == {Boot} \cup Call
Version == 0..Builtin

ASSUME ConstantsOK ==
  /\ NsOf \in [Resource -> Namespace]
  /\ \A n \in Namespace : NsOf[n] = n
  /\ Uses \in [Route -> SUBSET (Service \cup Module)]
  /\ \A r \in Route : \A x \in Uses[r] : NsOf[x] = NsOf[r]
  /\ Default \in Namespace /\ Broken \subseteq Module
  /\ {NoDefault, Persistent, Overlapping, Early} \subseteq BOOLEAN
  /\ MaxCalls \in Nat /\ MaxCrashes \in Nat

\* Every kind of resource has a table of its own.
ASSUME KindsApart ==
  /\ Namespace \cap (Route \cup Service \cup Module \cup Domain \cup Data) = {}
  /\ Route \cap (Service \cup Module \cup Domain \cup Data) = {}
  /\ Service \cap (Module \cup Domain \cup Data) = {}
  /\ Module \cap (Domain \cup Data) = {}
  /\ Domain \cap Data = {}

VARIABLES
  calls,      \* the changelogs made so far: [cmd, res]
  log,        \* the changelog table, by call number
  store,      \* store[x]: version of resource x in its table
  routers,    \* routers[n]: what its routes were compiled from
  executor,   \* executor[m]: version of the module's code
  domains,    \* the resolved domains
  task,       \* what each call and the boot task are doing
  lock,       \* holder of the executor's write lock, {} when free
  replay,     \* changelogs the boot task has listed and not replayed
  ready,      \* the readiness flag
  changeHash, \* calls that succeeded since the start
  crashes     \* crashes so far (bounded)

storage == <<log, store>>
serving == <<routers, executor, domains>>
vars == <<calls, storage, serving, task, lock, replay, ready, changeHash, crashes>>

Change == [cmd : {"put", "delete"}, res : Resource]
View == SUBSET (Resource \X Version)
Ended == {"done", "failed", "lost"}
Steps == {"idle", "append", "store", "drop", "executor", "namespace", "routes", "deps",
          "domains", "resolve", "end", "list", "next", "open", "up"} \cup Ended
Task == [at : Steps, id : Version, cmd : {"put", "delete"}, res : Resource,
         seen : View, todo : SUBSET Resource]

TypeOK ==
  /\ calls \in Seq(Change) /\ Len(calls) <= MaxCalls
  /\ log \subseteq Call
  /\ store \in [Resource -> Version]
  /\ DOMAIN routers = Namespace
  /\ \A n \in Namespace : routers[n] = NoRouter \/ routers[n] \in View
  /\ executor \in [Module -> Version]
  /\ domains \in View
  /\ task \in [TaskId -> Task]
  /\ lock \in {{}} \cup {{t} : t \in TaskId}
  /\ replay \subseteq Call
  /\ ready \in BOOLEAN
  /\ changeHash \in Nat
  /\ crashes \in 0..MaxCrashes

NewTask(at) == [at |-> at, id |-> Absent, cmd |-> "put", res |-> Default,
                seen |-> {}, todo |-> {}]

Init ==
  /\ calls = <<>>
  /\ log = {}
  /\ store = [x \in Resource |-> Absent]
  /\ routers = [n \in Namespace |-> NoRouter]
  /\ executor = [m \in Module |-> Absent]
  /\ domains = {}
  /\ task = [t \in TaskId |-> NewTask(IF t = Boot THEN "list" ELSE "idle")]
  /\ lock = {}
  /\ replay = {}
  /\ ready = FALSE
  /\ changeHash = 0
  /\ crashes = 0

-----------------------------------------------------------------------------
InFlight == {c \in DOMAIN calls : task[c].at \notin Ended}
Ns(t) == NsOf[task[t].res]
Stored(S) == {<<x, store[x]>> : x \in {y \in S : store[y] # Absent}}
Named(V) == UNION {Uses[r] : r \in {x \in Route : \E v \in Version : <<x, v>> \in V}}
Moves(t, at) == task' = [task EXCEPT ![t].at = at]

\* An error ends a call; the boot task logs it and goes on.
Fails(t) == Moves(t, IF t = Boot THEN "end" ELSE "failed")
Keeps(t) == lock                                                    \* mutant
Releases(t) == lock \ {t}

-----------------------------------------------------------------------------
(* The admin API: a handler of src/admin makes the changelog and calls       *)
(* apply_changelog.                                                          *)

Begin(cmd, x) ==
  LET c == Len(calls) + 1
  IN  /\ c \in Call
      /\ Early \/ ready
      /\ Overlapping \/ InFlight = {}
      /\ calls' = Append(calls, [cmd |-> cmd, res |-> x])
      /\ task' = [task EXCEPT ![c].at = "append", ![c].id = c, ![c].cmd = cmd, ![c].res = x]
      /\ UNCHANGED <<storage, serving, lock, replay, ready, changeHash, crashes>>

AppendChangelogNever(t) ==                                          \* mutant
  /\ task[t].at = "append" /\ Moves(t, "store")
  /\ UNCHANGED <<calls, storage, serving, lock, replay, ready, changeHash, crashes>>
AppendChangelog(t) ==
  /\ task[t].at = "append"
  /\ log' = log \cup {task[t].id}
  /\ Moves(t, "store")
  /\ UNCHANGED <<calls, store, serving, lock, replay, ready, changeHash, crashes>>

-----------------------------------------------------------------------------
(* process_changelog, for a call and for the boot task.                      *)

\* What remains to be done once the resource's table is written.
After(cmd, x) ==
  CASE x \in Namespace -> IF cmd = "delete" THEN "drop" ELSE "end"
    [] x \in Module -> "executor"
    [] x \in Route \cup Service -> "namespace"
    [] x \in Domain -> "domains"
    [] x \in Data -> "end"

\* The version a change leaves behind.
Effect(cmd, id) == IF cmd = "put" THEN id ELSE Absent

WriteStore(t) ==
  LET k == task[t]
  IN  /\ k.at = "store"
      /\ store' = [store EXCEPT ![k.res] = Effect(k.cmd, k.id)]
      /\ Moves(t, After(k.cmd, k.res))
      /\ UNCHANGED <<calls, log, serving, lock, replay, ready, changeHash, crashes>>

DropRouter(t) ==
  /\ task[t].at = "drop"
  /\ routers' = [routers EXCEPT ![task[t].res] = NoRouter]
  /\ Moves(t, "end")
  /\ UNCHANGED <<calls, storage, executor, domains, lock, replay, ready, changeHash, crashes>>

\* The write lock taken here is held until the router is rebuilt.
UpdateExecutor(t) ==
  LET k == task[t]
  IN  /\ k.at = "executor" /\ lock = {}
      /\ IF k.cmd = "put" /\ k.res \in Broken
         THEN Fails(t) /\ UNCHANGED <<executor, lock>>
         ELSE /\ executor' = [executor EXCEPT ![k.res] = Effect(k.cmd, k.id)]
              /\ lock' = {t}
              /\ Moves(t, "namespace")
      /\ UNCHANGED <<calls, storage, routers, domains, replay, ready, changeHash, crashes>>

-----------------------------------------------------------------------------
(* rebuild_router: reads that are atomic one by one, then the insertion.     *)

ReadNamespace(t) ==
  /\ task[t].at = "namespace"
  /\ IF store[Ns(t)] = Absent
     THEN Fails(t) /\ lock' = Releases(t)
     ELSE Moves(t, "routes") /\ UNCHANGED lock
  /\ UNCHANGED <<calls, storage, serving, replay, ready, changeHash, crashes>>

ReadRoutes(t) ==
  LET found == Stored({r \in Route : NsOf[r] = Ns(t)})
  IN  /\ task[t].at = "routes"
      /\ task' = [task EXCEPT ![t].at = "deps", ![t].seen = found, ![t].todo = Named(found)]
      /\ UNCHANGED <<calls, storage, serving, lock, replay, ready, changeHash, crashes>>

ReadDependency(t, x) ==
  /\ task[t].at = "deps" /\ x \in task[t].todo
  /\ task' = [task EXCEPT ![t].seen = @ \cup Stored({x}), ![t].todo = @ \ {x}]
  /\ UNCHANGED <<calls, storage, serving, lock, replay, ready, changeHash, crashes>>

InsertRouterOnce(t) ==                                              \* mutant
  /\ task[t].at = "deps" /\ task[t].todo = {}
  /\ routers' = [routers EXCEPT ![Ns(t)] = IF @ = NoRouter THEN task[t].seen ELSE @]
  /\ lock' = Releases(t)
  /\ Moves(t, "end")
  /\ UNCHANGED <<calls, storage, executor, domains, replay, ready, changeHash, crashes>>
InsertRouter(t) ==
  /\ task[t].at = "deps" /\ task[t].todo = {}
  /\ routers' = [routers EXCEPT ![Ns(t)] = task[t].seen]
  /\ lock' = Releases(t)
  /\ Moves(t, "end")
  /\ UNCHANGED <<calls, storage, executor, domains, replay, ready, changeHash, crashes>>

(* rebuild_domains: all domains at once, then each one's namespace.          *)

ReadDomains(t) ==
  LET found == Stored(Domain)
  IN  /\ task[t].at = "domains"
      /\ task' = [task EXCEPT ![t].at = "resolve", ![t].seen = found,
                              ![t].todo = {NsOf[p[1]] : p \in found}]
      /\ UNCHANGED <<calls, storage, serving, lock, replay, ready, changeHash, crashes>>

Resolve(t, n) ==
  /\ task[t].at = "resolve" /\ n \in task[t].todo
  /\ task' = [task EXCEPT
       ![t].seen = IF store[n] = Absent THEN {p \in @ : NsOf[p[1]] # n} ELSE @,
       ![t].todo = @ \ {n}]
  /\ UNCHANGED <<calls, storage, serving, lock, replay, ready, changeHash, crashes>>

InsertDomains(t) ==
  /\ task[t].at = "resolve" /\ task[t].todo = {}
  /\ domains' = task[t].seen
  /\ Moves(t, "end")
  /\ UNCHANGED <<calls, storage, routers, executor, lock, replay, ready, changeHash, crashes>>

-----------------------------------------------------------------------------
(* The end of a change.                                                      *)

Acknowledge(c) ==
  /\ task[c].at = "end"
  /\ changeHash' = changeHash + 1
  /\ Moves(c, "done")
  /\ UNCHANGED <<calls, storage, serving, lock, replay, ready, crashes>>

(* restore_from_changelogs, the boot task.                                   *)

BootList ==
  /\ task[Boot].at = "list"
  /\ replay' = log
  /\ Moves(Boot, "next")
  /\ UNCHANGED <<calls, storage, serving, lock, ready, changeHash, crashes>>

Anywhere(c, S) == TRUE                                              \* mutant
Earliest(c, S) == \A d \in S : c <= d

BootReplay(c) ==
  /\ task[Boot].at = "next" /\ c \in replay /\ Earliest(c, replay)
  /\ replay' = replay \ {c}
  /\ task' = [task EXCEPT ![Boot].at = "store", ![Boot].id = c,
                          ![Boot].cmd = calls[c].cmd, ![Boot].res = calls[c].res]
  /\ UNCHANGED <<calls, storage, serving, lock, ready, changeHash, crashes>>

BootReplayed ==
  /\ task[Boot].at = "end"
  /\ Moves(Boot, IF task[Boot].id = Builtin THEN "open" ELSE "next")
  /\ UNCHANGED <<calls, storage, serving, lock, replay, ready, changeHash, crashes>>

\* The default namespace gets no changelog.
BootDefault ==
  /\ task[Boot].at = "next" /\ replay = {}
  /\ IF ~NoDefault /\ store[Default] = Absent
     THEN /\ store' = [store EXCEPT ![Default] = Builtin]
          /\ task' = [task EXCEPT ![Boot].at = "namespace", ![Boot].id = Builtin,
                                  ![Boot].res = Default]
     ELSE Moves(Boot, "open") /\ UNCHANGED store
  /\ UNCHANGED <<calls, log, serving, lock, replay, ready, changeHash, crashes>>

BootOpen ==
  /\ task[Boot].at = "open"
  /\ ready' = TRUE
  /\ Moves(Boot, "up")
  /\ UNCHANGED <<calls, storage, serving, lock, replay, changeHash, crashes>>

-----------------------------------------------------------------------------
(* The process dies and is started again.                                    *)

Crash ==
  /\ crashes < MaxCrashes
  /\ crashes' = crashes + 1
  /\ log' = IF Persistent THEN log ELSE {}
  /\ store' = IF Persistent THEN store ELSE [x \in Resource |-> Absent]
  /\ routers' = [n \in Namespace |-> NoRouter]
  /\ executor' = [m \in Module |-> Absent]
  /\ domains' = {}
  /\ task' = [t \in TaskId |->
                IF t = Boot THEN NewTask("list")
                ELSE IF t \in InFlight THEN [NewTask("lost") EXCEPT !.id = t] ELSE task[t]]
  /\ lock' = {}
  /\ replay' = {}
  /\ ready' = FALSE
  /\ changeHash' = 0
  /\ UNCHANGED calls

-----------------------------------------------------------------------------
Rebuild(t) ==
  \/ ReadNamespace(t) \/ ReadRoutes(t) \/ InsertRouter(t)
  \/ ReadDomains(t) \/ InsertDomains(t)
  \/ \E x \in Resource : ReadDependency(t, x) \/ Resolve(t, x)

Process(t) == WriteStore(t) \/ DropRouter(t) \/ UpdateExecutor(t) \/ Rebuild(t)

CallStep(c) == AppendChangelog(c) \/ Process(c) \/ Acknowledge(c)
BootStep ==
  \/ BootList \/ BootReplayed \/ BootDefault \/ BootOpen \/ Process(Boot)
  \/ \E c \in Call : BootReplay(c)

Next ==
  \/ \E cmd \in {"put", "delete"}, x \in Resource : Begin(cmd, x)
  \/ \E c \in Call : CallStep(c)
  \/ BootStep
  \/ Crash

Spec == Init /\ [][Next]_vars

(* A started call runs on a worker thread until it ends, the boot task runs  *)
(* in main.  Clients and crashes promise nothing.                            *)
Fairness == WF_vars(BootStep) /\ \A c \in Call : WF_vars(CallStep(c))
FairSpec == Spec /\ Fairness

-----------------------------------------------------------------------------
(* Properties.                                                              *)

Quiet == ready /\ InFlight = {}

\* The changelogs of a resource, and what replaying the table leaves of it.
About(x, S) == {c \in S : calls[c].res = x}
Replayed(x) ==
  LET S == About(x, log)
  IN  IF S # {} THEN LET c == CHOOSE m \in S : \A d \in S : d <= m
                     IN  Effect(calls[c].cmd, c)
      ELSE Absent

\* Between calls, storage holds what replaying the changelog table in timestamp
\* order would leave: a restart changes nothing (restore_from_changelogs).
StoreIsReplay ==
  Quiet => \A x \in Resource :
    \/ store[x] = Replayed(x)
    \/ x = Default /\ ~NoDefault /\ Replayed(x) = Absent /\ store[x] = Builtin

\* Between calls, a router was compiled from just what is stored in its
\* namespace, the executor holds just the stored modules, and no domain is
\* resolved that was changed or deleted since.  A module that does not compile
\* is stored, but neither the executor nor the router follows it.
Compiled(n) ==
  LET routes == Stored({r \in Route : NsOf[r] = n})
  IN  routes \cup Stored(Named(routes))
Sound(V) == {p \in V : p[1] \notin Broken}
ServingShowsStore ==
  Quiet => /\ \A n \in Namespace :
                routers[n] # NoRouter => Sound(routers[n]) = Sound(Compiled(n))
           /\ \A m \in Module \ Broken : executor[m] = store[m]
           /\ domains \subseteq Stored(Domain)

\* Nothing is stored or served that a restart could not find in the changelog
\* table, whatever overlaps and whenever the process dies.
Logged(v) == v \in log \cup {Absent, Builtin}
ServedIsLogged ==
  /\ \A x \in Resource : Logged(store[x])
  /\ \A m \in Module : Logged(executor[m])
  /\ \A n \in Namespace : routers[n] # NoRouter => \A p \in routers[n] : Logged(p[2])
  /\ \A p \in domains : Logged(p[2])

\* An acknowledged change is in the changelog table for good.
AckedIsLogged ==
  Persistent => \A c \in DOMAIN calls : task[c].at = "done" => c \in log

\* The executor's write lock is held by at most the task that rebuilds a router
\* for a module, and by nobody once its call has ended.
LockIsOwned ==
  \A t \in lock : task[t].at \in {"namespace", "routes", "deps"} /\ task[t].res \in Module

\* Every call is answered or lost with the process, and every start gets ready.
EveryCallEnds == \A c \in Call : task[c].at = "append" ~> task[c].at \in Ended
EveryStartGetsReady == task[Boot].at = "list" ~> ready
-----------------------------------------------------------------------------
(* The inductive invariant.                                                 *)

\* A call is known by its own number, once it has started.
IdInv ==
  \A c \in Call : /\ c \in DOMAIN calls <=> task[c].at # "idle"
                  /\ c \in DOMAIN calls => task[c].id = c

\* What a running task works on is in the changelog table (or is the default
\* namespace), and so is everything it has read for a rebuild so far.
Working == {"store", "drop", "executor", "namespace", "routes", "deps", "domains", "resolve",
            "end"}
WorkInv ==
  \A t \in TaskId :
    /\ task[t].at \in Working => task[t].id \in log \cup {Builtin}
    /\ task[t].at \notin Ended => \A p \in task[t].seen : Logged(p[2])
    /\ task[t].at = "idle" => task[t].seen = {}

\* The changelog table holds changelogs that were made, and the boot task has
\* none left that is not in the table.
LogInv == log \subseteq DOMAIN calls /\ replay \subseteq log

\* Only a module change goes on to the executor.
ExecutorInv == \A t \in TaskId : task[t].at = "executor" => task[t].res \in Module

\* A counted call has ended, and it was counted once.
HashInv == changeHash <= Cardinality({c \in Call : task[c].at = "done"})

IInv == TypeOK /\ IdInv /\ WorkInv /\ LogInv /\ ExecutorInv /\ HashInv
        /\ ServedIsLogged /\ AckedIsLogged /\ LockIsOwned
=============================================================================
