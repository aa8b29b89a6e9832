---------------------------- MODULE GatewayProofs ---------------------------
(***************************************************************************)
(* Proofs about module Gateway, for every number of namespaces, routes,    *)
(* services, modules, domains, calls and crashes, every overlap of calls   *)
(* and either kind of storage.  That a restart changes nothing and that    *)
(* what is served is what is stored holds, and is proved, for clients that *)
(* wait: for readiness, and for one call to end before the next.           *)
(***************************************************************************)
EXTENDS Gateway, FiniteSetTheorems, TLAPS

USE ConstantsOK

-----------------------------------------------------------------------------
(* What the reading operators return.                                       *)

\* What is read from storage is a set of resources with the versions they have.
LEMMA StoredType ==
  ASSUME store \in [Resource -> Version], NEW S \in SUBSET Resource
  PROVE  /\ Stored(S) \in View
         /\ \A p \in Stored(S) : p[1] \in S /\ p[2] = store[p[1]]
  BY DEF Stored, View

\* The services and modules that stored routes name are resources.
LEMMA NamedType ==
  ASSUME NEW V PROVE Named(V) \in SUBSET Resource
  BY DEF Named, Resource

\* The namespace of a task's resource is a namespace, which is a resource.
LEMMA NsType ==
  ASSUME task \in [TaskId -> Task], NEW t \in TaskId
  PROVE  Ns(t) \in Namespace /\ Ns(t) \in Resource
  BY DEF Ns, Task, Resource

\* A task that only moves on is still a task.
LEMMA MovesType ==
  ASSUME task \in [TaskId -> Task], NEW t \in TaskId, NEW at \in Steps, Moves(t, at)
  PROVE  /\ task' \in [TaskId -> Task]
         /\ task'[t].at = at /\ task'[t].id = task[t].id /\ task'[t].cmd = task[t].cmd
         /\ task'[t].res = task[t].res /\ task'[t].seen = task[t].seen
         /\ \A u \in TaskId \ {t} : task'[u] = task[u]
  BY DEF Moves, Task

\* A task given another change to work on is still a task.
LEMMA ChangeType ==
  ASSUME NEW k \in Task, NEW at \in Steps, NEW id \in Version,
         NEW cmd \in {"put", "delete"}, NEW x \in Resource
  PROVE  [k EXCEPT !.at = at, !.id = id, !.cmd = cmd, !.res = x] \in Task
<1>1. [k EXCEPT !.at = at, !.id = id] \in Task
  BY DEF Task
<1>2. [[k EXCEPT !.at = at, !.id = id] EXCEPT !.cmd = cmd, !.res = x] \in Task
  BY <1>1 DEF Task
<1> QED
  BY <1>2
\* The set of locks is preserved by releasing one's own.
LEMMA ReleasesType ==
  ASSUME lock \in {{}} \cup {{t} : t \in TaskId}, NEW t \in TaskId
  PROVE  Releases(t) \in {{}} \cup {{u} : u \in TaskId} /\ Releases(t) \subseteq lock
         /\ t \notin Releases(t)
  BY DEF Releases

\* What a change leaves behind is a version.
LEMMA EffectType ==
  ASSUME NEW cmd, NEW id \in Version PROVE Effect(cmd, id) \in Version /\ Effect(cmd, id) \in {id, Absent}
  BY DEF Effect, Version, Absent, Builtin

\* After the table is written, only a module change goes to the executor.
LEMMA AfterType ==
  ASSUME NEW cmd, NEW x \in Resource
  PROVE  /\ After(cmd, x) \in {"drop", "end", "executor", "namespace", "domains"}
         /\ After(cmd, x) = "executor" => x \in Module
  BY DEF After, Resource

-----------------------------------------------------------------------------
(* The type invariant.                                                      *)

\* The initial state has the types.
LEMMA TypeInit == Init => TypeOK
<1> SUFFICES ASSUME Init PROVE TypeOK
  OBVIOUS
<1>1. \A at \in {"list", "idle"} : NewTask(at) \in Task
  BY DEF NewTask, Task, Steps, Version, Absent, Builtin, View, Resource
<1>2. task \in [TaskId -> Task]
  BY <1>1 DEF Init
<1>3. {} \in View /\ Absent \in Version
  BY DEF View, Version, Absent, Builtin
<1> QED
  <2>1. store \in [Resource -> Version] /\ executor \in [Module -> Version] /\ domains \in View
    BY <1>3 DEF Init
  <2>2. calls \in Seq(Change) /\ Len(calls) <= MaxCalls
    BY DEF Init
  <2>3. DOMAIN routers = Namespace /\ \A n \in Namespace : routers[n] = NoRouter
    BY DEF Init
  <2>4. /\ log \subseteq Call /\ lock \in {{}} \cup {{t} : t \in TaskId} /\ replay \subseteq Call
        /\ ready \in BOOLEAN /\ changeHash \in Nat /\ crashes \in 0..MaxCrashes
    <3>1. 0 \in Nat /\ 0 \in 0..MaxCrashes
      OBVIOUS
    <3> QED BY <3>1 DEF Init
  <2> QED BY <1>2, <2>1, <2>2, <2>3, <2>4 DEF TypeOK

\* Every step of a change, whoever takes it, preserves the types.
LEMMA TypeProcess ==
  ASSUME TypeOK, NEW t \in TaskId, Process(t) PROVE TypeOK'
<1> USE DEF TypeOK, storage, serving
<1>f. \A at \in Steps : Moves(t, at) => task' \in [TaskId -> Task]
  BY MovesType
<1>g. Fails(t) => task' \in [TaskId -> Task]
  BY <1>f DEF Fails, Steps, Ended
<1>n. Ns(t) \in Namespace /\ Ns(t) \in Resource
  BY NsType
<1>e. task[t] \in Task
  OBVIOUS
<1>1. CASE WriteStore(t)
  <2>1. store' \in [Resource -> Version]
    BY <1>1, <1>e, EffectType DEF WriteStore, Task
  <2>2. task' \in [TaskId -> Task]
    <3>1. After(task[t].cmd, task[t].res) \in Steps
      BY <1>e, AfterType DEF Task, Steps
    <3> QED BY <1>1, <1>f, <3>1 DEF WriteStore
  <2> QED BY <1>1, <2>1, <2>2 DEF WriteStore
<1>2. CASE DropRouter(t)
  <2>1. task' \in [TaskId -> Task]
    BY <1>2, <1>f DEF DropRouter, Steps
  <2> QED BY <1>2, <2>1 DEF DropRouter
<1>3. CASE UpdateExecutor(t)
  <2>1. task' \in [TaskId -> Task]
    BY <1>3, <1>f, <1>g DEF UpdateExecutor, Steps
  <2>2. executor' \in [Module -> Version]
    BY <1>3, <1>e, EffectType DEF UpdateExecutor, Task
  <2> QED BY <1>3, <2>1, <2>2 DEF UpdateExecutor
<1>4. CASE ReadNamespace(t)
  <2>1. task' \in [TaskId -> Task]
    BY <1>4, <1>f, <1>g DEF ReadNamespace, Steps
  <2> QED BY <1>4, <2>1, ReleasesType DEF ReadNamespace
<1>5. CASE ReadRoutes(t)
  <2> DEFINE found == Stored({r \in Route : NsOf[r] = Ns(t)})
  <2>1. found \in View /\ Named(found) \in SUBSET Resource
    <3>1. {r \in Route : NsOf[r] = Ns(t)} \in SUBSET Resource
      BY DEF Resource
    <3> QED BY <3>1, StoredType, NamedType
  <2>2. task' \in [TaskId -> Task]
    <3> HIDE DEF found
    <3> QED BY <1>5, <1>e, <2>1 DEF ReadRoutes, Task, Steps, found
  <2> QED BY <1>5, <2>2 DEF ReadRoutes
<1>6. ASSUME NEW x \in Resource, ReadDependency(t, x) PROVE TypeOK'
  <2>1. Stored({x}) \in View
    BY StoredType
  <2>2. task[t].seen \cup Stored({x}) \in View
    BY <2>1, <1>e DEF Task, View
  <2>3. task' \in [TaskId -> Task]
    BY <1>6, <1>e, <2>2 DEF ReadDependency, Task
  <2> QED BY <1>6, <2>3 DEF ReadDependency
<1>7. CASE InsertRouter(t)
  <2>1. task' \in [TaskId -> Task]
    BY <1>7, <1>f DEF InsertRouter, Steps
  <2>2. task[t].seen \in View
    BY <1>e DEF Task
  <2> QED BY <1>7, <2>1, <2>2, <1>n, ReleasesType DEF InsertRouter
<1>8. CASE ReadDomains(t)
  <2>1. Domain \in SUBSET Resource
    BY DEF Resource
  <2>2. /\ Stored(Domain) \in View
        /\ \A p \in Stored(Domain) : p[1] \in Domain
    BY <2>1, StoredType
  <2>3. {NsOf[p[1]] : p \in Stored(Domain)} \in SUBSET Resource
    BY <2>2 DEF Resource
  <2>4. task' \in [TaskId -> Task]
    BY <1>8, <1>e, <2>2, <2>3 DEF ReadDomains, Task, Steps
  <2> QED BY <1>8, <2>4 DEF ReadDomains
<1>9. ASSUME NEW x \in Resource, Resolve(t, x) PROVE TypeOK'
  <2>1. {p \in task[t].seen : NsOf[p[1]] # x} \in View
    BY <1>e DEF Task, View
  <2>2. task' \in [TaskId -> Task]
    BY <1>9, <1>e, <2>1 DEF Resolve, Task
  <2> QED BY <1>9, <2>2 DEF Resolve
<1>10. CASE InsertDomains(t)
  <2>1. task' \in [TaskId -> Task]
    BY <1>10, <1>f DEF InsertDomains, Steps
  <2>2. task[t].seen \in View
    BY <1>e DEF Task
  <2> QED BY <1>10, <2>1, <2>2 DEF InsertDomains
<1> QED
  BY <1>1, <1>2, <1>3, <1>4, <1>5, <1>6, <1>7, <1>8, <1>9, <1>10 DEF Process, Rebuild

\* A call appends its own changelog.
OwnId == \A c \in Call : task[c].at = "append" => c \in DOMAIN calls /\ task[c].id = c

\* Every step of the program preserves the types.
LEMMA TypeStep == TypeOK /\ OwnId /\ LogInv /\ [Next]_vars => TypeOK'
<1> SUFFICES ASSUME TypeOK, OwnId, LogInv, [Next]_vars PROVE TypeOK'
  OBVIOUS
<1> USE DEF TypeOK, storage, serving
<1>b. Boot \in TaskId /\ Call \subseteq TaskId /\ Builtin \in Version /\ Absent \in Version
      /\ Call \subseteq Version
  BY DEF TaskId, Boot, Version, Builtin, Absent, Call
<1>f. \A t \in TaskId, at \in Steps : Moves(t, at) => task' \in [TaskId -> Task]
  BY MovesType
<1>1. ASSUME NEW cmd \in {"put", "delete"}, NEW x \in Resource, Begin(cmd, x)
      PROVE TypeOK'
  <2> DEFINE c == Len(calls) + 1
  <2>1. c \in TaskId /\ c \in Version /\ c <= MaxCalls
    BY <1>1, <1>b DEF Begin, Call
  <2>2. [cmd |-> cmd, res |-> x] \in Change
    BY DEF Change
  <2>3. calls' \in Seq(Change) /\ Len(calls') <= MaxCalls
    BY <1>1, <2>1, <2>2 DEF Begin
  <2>4. task' \in [TaskId -> Task]
    <3> DEFINE k == [task[c] EXCEPT !.at = "append", !.id = c, !.cmd = cmd, !.res = x]
    <3>1. task' = [task EXCEPT ![c] = k]
      BY <1>1, <2>1 DEF Begin
    <3>2. k \in Task
      <4>1. task[c] \in Task /\ "append" \in Steps
        BY <2>1 DEF Steps
      <4> QED BY <2>1, <4>1, ChangeType
    <3> QED BY <2>1, <3>1, <3>2
  <2> QED BY <1>1, <2>3, <2>4 DEF Begin
<1>2. ASSUME NEW c \in Call, CallStep(c) PROVE TypeOK'
  <2>1. CASE AppendChangelog(c)
    <3>1. task' \in [TaskId -> Task]
      BY <2>1, <1>b, <1>f DEF AppendChangelog, Steps
    <3>2. log' \subseteq Call
      BY <2>1 DEF AppendChangelog, OwnId
    <3> QED BY <2>1, <3>1, <3>2 DEF AppendChangelog
  <2>2. CASE Acknowledge(c)
    BY <2>2, <1>b, <1>f DEF Acknowledge, Steps, Ended
  <2> QED BY <1>2, <2>1, <2>2, <1>b, TypeProcess DEF CallStep
<1>3. CASE BootList
  BY <1>3, <1>b, <1>f DEF BootList, Steps
<1>4. CASE BootReplayed
  BY <1>4, <1>b, <1>f DEF BootReplayed, Steps
<1>5. CASE BootDefault
  <2>1. CASE ~NoDefault /\ store[Default] = Absent
    <3> DEFINE k == [task[Boot] EXCEPT !.at = "namespace", !.id = Builtin, !.res = Default]
    <3>1. task' = [task EXCEPT ![Boot] = k] /\ store' = [store EXCEPT ![Default] = Builtin]
      BY <1>5, <2>1, <1>b DEF BootDefault
    <3>2. k \in Task
      <4>1. /\ task[Boot] \in Task /\ "namespace" \in Steps /\ Default \in Resource
            /\ task[Boot].cmd \in {"put", "delete"}
        BY <1>b DEF Steps, Task, Resource
      <4>2. k = [task[Boot] EXCEPT !.at = "namespace", !.id = Builtin,
                                   !.cmd = task[Boot].cmd, !.res = Default]
        BY <4>1 DEF Task
      <4> HIDE DEF k
      <4> QED BY <1>b, <4>1, <4>2, ChangeType
    <3>3. task' \in [TaskId -> Task] /\ store' \in [Resource -> Version]
      BY <1>b, <3>1, <3>2
    <3> QED BY <1>5, <3>3 DEF BootDefault
  <2>2. CASE ~(~NoDefault /\ store[Default] = Absent)
    BY <1>5, <2>2, <1>b, <1>f DEF BootDefault, Steps
  <2> QED BY <2>1, <2>2
<1>6. CASE BootOpen
  BY <1>6, <1>b, <1>f DEF BootOpen, Steps
<1>7. ASSUME NEW c \in Call, BootReplay(c) PROVE TypeOK'
  <2> DEFINE k == [task[Boot] EXCEPT !.at = "store", !.id = c, !.cmd = calls[c].cmd,
                                     !.res = calls[c].res]
  <2>1. task' = [task EXCEPT ![Boot] = k]
    BY <1>7, <1>b DEF BootReplay
  <2>2. calls[c] \in Change
    BY <1>7 DEF BootReplay, LogInv
  <2>3. k \in Task
    <3>1. task[Boot] \in Task /\ "store" \in Steps /\ c \in Version
      BY <1>b DEF Steps
    <3> QED BY <2>2, <3>1, ChangeType DEF Change
  <2>4. task' \in [TaskId -> Task]
    BY <1>b, <2>1, <2>3
  <2> QED BY <1>7, <2>4 DEF BootReplay
<1>8. CASE Crash
  <2>1. \A t \in TaskId : task'[t] \in Task
    <3>1. NewTask("list") \in Task /\ NewTask("lost") \in Task
      BY <1>b DEF NewTask, Task, Steps, Ended, View, Resource
    <3>2. \A t \in TaskId : t \in Version
      BY <1>b DEF TaskId, Boot, Absent
    <3>3. \A t \in TaskId : [NewTask("lost") EXCEPT !.id = t] \in Task
      BY <3>1, <3>2 DEF Task
    <3> QED BY <1>8, <3>1, <3>3 DEF Crash
  <2>2. task' \in [TaskId -> Task]
    BY <1>8, <2>1 DEF Crash
  <2>3. log' \subseteq Call /\ store' \in [Resource -> Version]
    BY <1>8, <1>b DEF Crash
  <2>4. /\ executor' \in [Module -> Version] /\ domains' \in View
        /\ DOMAIN routers' = Namespace /\ \A n \in Namespace : routers'[n] = NoRouter
    BY <1>8, <1>b DEF Crash, View
  <2>5. /\ lock' = {} /\ replay' = {} /\ ready' = FALSE /\ crashes' \in 0..MaxCrashes
        /\ calls' = calls /\ changeHash' = 0
    BY <1>8 DEF Crash
  <2> QED BY <2>2, <2>3, <2>4, <2>5
<1>9. CASE UNCHANGED vars
  BY <1>9 DEF vars
<1> QED
  BY <1>1, <1>2, <1>3, <1>4, <1>5, <1>6, <1>7, <1>8, <1>9, <1>b, TypeProcess
  DEF Next, BootStep

-----------------------------------------------------------------------------
(* What the steps of a change do to the rest of the invariant.              *)

\* The invariant without its type part.
Facts == IdInv /\ LogInv /\ WorkInv /\ ExecutorInv /\ HashInv
         /\ ServedIsLogged /\ AckedIsLogged /\ LockIsOwned

Rebuilding == {"namespace", "routes", "deps"}
DoneCalls == {c \in Call : task[c].at = "done"}

\* A step of a change only moves the task that takes it, and the task keeps
\* the changelog it works on.
LEMMA ProcessFrame ==
  ASSUME TypeOK, NEW t \in TaskId, Process(t)
  PROVE  /\ \A u \in TaskId \ {t} : task'[u] = task[u]
         /\ task[t].at \in Working /\ task'[t].at \in Working \cup {"failed"}
         /\ task'[t].id = task[t].id /\ task'[t].res = task[t].res
         /\ UNCHANGED <<calls, log, replay, ready, changeHash, crashes>>
         /\ task'[t].at = "executor" => task'[t].res \in Module
<1> USE DEF TypeOK, storage, serving, Working
<1>e. task[t] \in Task
  OBVIOUS
<1>f. \A at \in Steps : Moves(t, at) =>
        /\ \A u \in TaskId \ {t} : task'[u] = task[u]
        /\ task'[t].at = at /\ task'[t].id = task[t].id /\ task'[t].res = task[t].res
  BY MovesType
<1>g. Fails(t) =>
        /\ \A u \in TaskId \ {t} : task'[u] = task[u]
        /\ task'[t].at \in {"end", "failed"}
        /\ task'[t].id = task[t].id /\ task'[t].res = task[t].res
  BY <1>f DEF Fails, Steps, Ended
<1>1. CASE WriteStore(t)
  <2>1. task[t].res \in Resource
    BY <1>e DEF Task
  <2>2. After(task[t].cmd, task[t].res) \in Steps
    BY <2>1, AfterType DEF Steps
  <2> QED BY <1>1, <1>f, <2>1, <2>2, AfterType DEF WriteStore
<1>2. CASE DropRouter(t)
  BY <1>2, <1>f DEF DropRouter, Steps
<1>3. CASE UpdateExecutor(t)
  BY <1>3, <1>f, <1>g DEF UpdateExecutor, Steps
<1>4. CASE ReadNamespace(t)
  BY <1>4, <1>f, <1>g DEF ReadNamespace, Steps
<1>5. CASE ReadRoutes(t)
  BY <1>5, <1>e DEF ReadRoutes, Task
<1>6. ASSUME NEW x \in Resource, ReadDependency(t, x) \/ Resolve(t, x)
      PROVE  /\ \A u \in TaskId \ {t} : task'[u] = task[u]
             /\ task[t].at \in {"deps", "resolve"} /\ task'[t].at = task[t].at
             /\ task'[t].id = task[t].id /\ task'[t].res = task[t].res
             /\ UNCHANGED <<calls, log, replay, ready, changeHash, crashes>>
  BY <1>6, <1>e DEF ReadDependency, Resolve, Task
<1>7. CASE InsertRouter(t)
  BY <1>7, <1>f DEF InsertRouter, Steps
<1>8. CASE ReadDomains(t)
  BY <1>8, <1>e DEF ReadDomains, Task
<1>9. CASE InsertDomains(t)
  BY <1>9, <1>f DEF InsertDomains, Steps
<1> QED
  BY <1>1, <1>2, <1>3, <1>4, <1>5, <1>6, <1>7, <1>8, <1>9 DEF Process, Rebuild

\* All that is stored and served, and all that a view holds, was written by K.
ServedFrom(K) ==
  /\ \A x \in Resource : store[x] \in K
  /\ \A m \in Module : executor[m] \in K
  /\ \A n \in Namespace : routers[n] # NoRouter => \A p \in routers[n] : p[2] \in K
  /\ \A p \in domains : p[2] \in K
SeenFrom(V, K) == \A p \in V : p[2] \in K

\* What the task reads for a rebuild was written by K: it was stored.
LEMMA ProcessReads ==
  ASSUME TypeOK, NEW K, ServedFrom(K), NEW t \in TaskId, Process(t),
         SeenFrom(task[t].seen, K)
  PROVE  SeenFrom(task'[t].seen, K)
<1> USE DEF TypeOK, storage, serving, SeenFrom
<1>e. task[t] \in Task
  OBVIOUS
<1>f. \A at \in Steps : Moves(t, at) => task'[t].seen = task[t].seen
  BY MovesType
<1>g. Fails(t) => task'[t].seen = task[t].seen
  BY <1>f DEF Fails, Steps, Ended
<1>r. \A S \in SUBSET Resource : \A p \in Stored(S) : p[2] \in K
  BY StoredType DEF ServedFrom
<1>1. CASE WriteStore(t)
  <2>1. task[t].res \in Resource
    BY <1>e DEF Task
  <2>2. After(task[t].cmd, task[t].res) \in Steps
    BY <2>1, AfterType DEF Steps
  <2> QED BY <1>1, <1>f, <2>2 DEF WriteStore
<1>2. CASE DropRouter(t) \/ InsertRouter(t) \/ InsertDomains(t)
  BY <1>2, <1>f DEF DropRouter, InsertRouter, InsertDomains, Steps
<1>3. CASE UpdateExecutor(t) \/ ReadNamespace(t)
  BY <1>3, <1>f, <1>g DEF UpdateExecutor, ReadNamespace, Steps
<1>4. CASE ReadRoutes(t)
  <2>1. {r \in Route : NsOf[r] = Ns(t)} \in SUBSET Resource
    BY DEF Resource
  <2>2. task'[t].seen = Stored({r \in Route : NsOf[r] = Ns(t)})
    BY <1>4, <1>e DEF ReadRoutes, Task
  <2> QED BY <1>r, <2>1, <2>2
<1>5. ASSUME NEW x \in Resource, ReadDependency(t, x) PROVE SeenFrom(task'[t].seen, K)
  <2>1. task'[t].seen = task[t].seen \cup Stored({x})
    BY <1>5, <1>e DEF ReadDependency, Task
  <2>2. {x} \in SUBSET Resource
    OBVIOUS
  <2> QED BY <1>r, <2>1, <2>2
<1>6. CASE ReadDomains(t)
  <2>1. Domain \in SUBSET Resource
    BY DEF Resource
  <2>2. task'[t].seen = Stored(Domain)
    BY <1>6, <1>e DEF ReadDomains, Task
  <2> QED BY <1>r, <2>1, <2>2
<1>7. ASSUME NEW x \in Resource, Resolve(t, x) PROVE SeenFrom(task'[t].seen, K)
  <2>1. task'[t].seen \subseteq task[t].seen
    BY <1>7, <1>e DEF Resolve, Task
  <2> QED BY <2>1
<1> QED
  BY <1>1, <1>2, <1>3, <1>4, <1>5, <1>6, <1>7 DEF Process, Rebuild

\* A step of a change stores and serves only its own change and what it has read.
LEMMA ProcessServes ==
  ASSUME TypeOK, NEW K, ServedFrom(K), NEW t \in TaskId, Process(t),
         SeenFrom(task[t].seen, K), task[t].id \in K, Absent \in K
  PROVE  ServedFrom(K)'
<1> USE DEF TypeOK, storage, serving
<1>e. task[t] \in Task
  OBVIOUS
<1>c. Effect(task[t].cmd, task[t].id) \in K
  BY <1>e, EffectType DEF Task
<1>1. CASE WriteStore(t)
  <2>1. \A x \in Resource : store'[x] \in K
    BY <1>1, <1>c DEF WriteStore, ServedFrom
  <2> QED BY <1>1, <2>1 DEF WriteStore, ServedFrom
<1>2. CASE DropRouter(t)
  <2>1. \A n \in Namespace : routers'[n] # NoRouter => routers'[n] = routers[n]
    BY <1>2 DEF DropRouter
  <2> QED BY <1>2, <2>1 DEF DropRouter, ServedFrom
<1>3. CASE UpdateExecutor(t)
  <2>1. \A m \in Module : executor'[m] \in K
    BY <1>3, <1>c DEF UpdateExecutor, ServedFrom
  <2> QED BY <1>3, <2>1 DEF UpdateExecutor, ServedFrom
<1>4. CASE InsertRouter(t)
  <2>1. \A n \in Namespace : routers'[n] = routers[n] \/ routers'[n] = task[t].seen
    BY <1>4 DEF InsertRouter
  <2> QED BY <1>4, <2>1 DEF InsertRouter, ServedFrom, SeenFrom
<1>5. CASE InsertDomains(t)
  BY <1>5 DEF InsertDomains, ServedFrom, SeenFrom
<1>6. ASSUME UNCHANGED <<storage, serving>> PROVE ServedFrom(K)'
  BY <1>6 DEF ServedFrom
<1> QED
  BY <1>1, <1>2, <1>3, <1>4, <1>5, <1>6
  DEF Process, Rebuild, ReadNamespace, ReadRoutes, ReadDependency, ReadDomains, Resolve

\* The lock passes to a task with a module change and is given back at its end.
LEMMA ProcessLocks ==
  ASSUME TypeOK, ExecutorInv, LockIsOwned, NEW t \in TaskId, Process(t)
  PROVE  LockIsOwned'
<1> USE DEF TypeOK, storage, serving
<1>e. task[t] \in Task
  OBVIOUS
<1>p. /\ \A u \in TaskId \ {t} : task'[u] = task[u]
      /\ task'[t].res = task[t].res
      /\ lock \subseteq TaskId
  BY ProcessFrame
<1>f. \A at \in Steps : Moves(t, at) => task'[t].at = at
  BY MovesType
<1>o. ASSUME lock' \subseteq lock, t \notin lock' PROVE LockIsOwned'
  BY <1>o, <1>p DEF LockIsOwned
<1>k. ASSUME lock' = lock, task[t].at \notin Rebuilding PROVE LockIsOwned'
  BY <1>k, <1>o DEF LockIsOwned, Rebuilding
<1>s. ASSUME lock' = lock, task'[t].at \in Rebuilding PROVE LockIsOwned'
  BY <1>s, <1>p DEF LockIsOwned, Rebuilding
<1>1. CASE WriteStore(t) \/ DropRouter(t) \/ ReadDomains(t) \/ InsertDomains(t)
  BY <1>1, <1>k DEF WriteStore, DropRouter, ReadDomains, InsertDomains, Rebuilding
<1>2. CASE UpdateExecutor(t)
  <2>1. CASE task[t].cmd = "put" /\ task[t].res \in Broken
    BY <1>2, <2>1, <1>k DEF UpdateExecutor, Rebuilding
  <2>2. CASE ~(task[t].cmd = "put" /\ task[t].res \in Broken)
    <3>1. lock' = {t} /\ task'[t].at = "namespace" /\ task'[t].res \in Module
      BY <1>2, <2>2, <1>f, <1>p DEF UpdateExecutor, ExecutorInv, Steps
    <3> QED BY <3>1 DEF LockIsOwned
  <2> QED BY <2>1, <2>2
<1>3. CASE ReadNamespace(t)
  <2>1. CASE store[Ns(t)] = Absent
    BY <1>3, <2>1, <1>o, ReleasesType DEF ReadNamespace
  <2>2. CASE store[Ns(t)] # Absent
    <3>1. lock' = lock /\ task'[t].at = "routes"
      BY <1>3, <2>2, <1>f DEF ReadNamespace, Steps
    <3> QED BY <3>1, <1>s DEF Rebuilding
  <2> QED BY <2>1, <2>2
<1>4. CASE ReadRoutes(t)
  <2>1. lock' = lock /\ task'[t].at = "deps"
    BY <1>4, <1>e DEF ReadRoutes, Task
  <2> QED BY <2>1, <1>s DEF Rebuilding
<1>5. ASSUME NEW x \in Resource, ReadDependency(t, x) PROVE LockIsOwned'
  <2>1. lock' = lock /\ task'[t].at = "deps"
    BY <1>5, <1>e DEF ReadDependency, Task
  <2> QED BY <2>1, <1>s DEF Rebuilding
<1>6. CASE InsertRouter(t)
  BY <1>6, <1>o, ReleasesType DEF InsertRouter
<1>7. ASSUME NEW x \in Resource, Resolve(t, x) PROVE LockIsOwned'
  BY <1>7, <1>k DEF Resolve, Rebuilding
<1> QED
  BY <1>1, <1>2, <1>3, <1>4, <1>5, <1>6, <1>7 DEF Process, Rebuild

\* As long as the same calls are done, they number the same.
LEMMA SameDone ==
  ASSUME \A c \in Call : task'[c].at = "done" <=> task[c].at = "done"
  PROVE  DoneCalls' = DoneCalls
  BY DEF DoneCalls, Call

\* The calls that are done are finitely many, at most MaxCalls.
LEMMA DoneFinite ==
  IsFiniteSet(DoneCalls) /\ Cardinality(DoneCalls) \in Nat /\ Cardinality(DoneCalls) <= MaxCalls
<1>1. IsFiniteSet(Call) /\ Cardinality(Call) = MaxCalls
  BY FS_Interval DEF Call
<1> QED
  BY <1>1, FS_Subset, FS_CardinalityType DEF DoneCalls

-----------------------------------------------------------------------------
(* The invariant.                                                           *)

\* The initial state satisfies the rest of the invariant.
LEMMA FactsInit == Init => Facts
<1> SUFFICES ASSUME Init PROVE Facts
  OBVIOUS
<1>1. \A t \in TaskId : task[t].at \in {"list", "idle"} /\ task[t].seen = {}
  BY DEF Init, NewTask
<1>2. \A c \in Call : task[c].at = "idle"
  BY DEF Init, NewTask, TaskId, Call, Boot
<1>3. IdInv /\ LogInv /\ WorkInv /\ ExecutorInv
  <2>1. DOMAIN calls = {} /\ log = {} /\ replay = {}
    BY DEF Init
  <2> QED BY <1>1, <1>2, <2>1 DEF IdInv, LogInv, WorkInv, ExecutorInv, Working
<1>4. HashInv
  BY DoneFinite DEF Init, HashInv, DoneCalls
<1>5. ServedIsLogged
  BY DEF Init, ServedIsLogged, Logged
<1>6. AckedIsLogged /\ LockIsOwned
  BY DEF Init, AckedIsLogged, LockIsOwned
<1> QED
  BY <1>3, <1>4, <1>5, <1>6 DEF Facts

\* A step of a change preserves the rest of the invariant.
LEMMA FactsProcess ==
  ASSUME TypeOK, Facts, NEW t \in TaskId, Process(t) PROVE Facts'
<1> USE DEF Facts
<1>p. /\ \A u \in TaskId \ {t} : task'[u] = task[u]
      /\ task[t].at \in Working /\ task'[t].at \in Working \cup {"failed"}
      /\ task'[t].id = task[t].id /\ task'[t].res = task[t].res
      /\ calls' = calls /\ log' = log /\ replay' = replay /\ changeHash' = changeHash
      /\ task'[t].at = "executor" => task'[t].res \in Module
  BY ProcessFrame
<1>c. Call \subseteq TaskId
  BY DEF TaskId
<1> DEFINE K == log \cup {Absent, Builtin}
<1>k. ServedFrom(K) /\ SeenFrom(task[t].seen, K) /\ task[t].id \in K /\ Absent \in K
  BY <1>p DEF ServedFrom, SeenFrom, WorkInv, Working, Ended, ServedIsLogged, Logged
<1>r. \A p \in task'[t].seen : Logged(p[2])
  <2> HIDE DEF K
  <2>1. SeenFrom(task'[t].seen, K)
    BY <1>k, ProcessReads
  <2> QED BY <2>1 DEF SeenFrom, K, Logged
<1>s. ServedIsLogged'
  <2> HIDE DEF K
  <2>1. /\ \A x \in Resource : store'[x] \in K
        /\ \A m \in Module : executor'[m] \in K
        /\ \A n \in Namespace : routers'[n] # NoRouter => \A p \in routers'[n] : p[2] \in K
        /\ \A p \in domains' : p[2] \in K
    BY <1>k, ProcessServes DEF ServedFrom
  <2> QED BY <2>1, <1>p DEF ServedIsLogged, Logged, K
<1> HIDE DEF K
<1>1. IdInv'
  BY <1>p, <1>c DEF IdInv, Working
<1>2. LogInv'
  BY <1>p DEF LogInv
<1>3. WorkInv'
  <2>1. ASSUME NEW u \in TaskId
        PROVE  /\ task'[u].at \in Working => task'[u].id \in log' \cup {Builtin}
               /\ task'[u].at \notin Ended => \A p \in task'[u].seen : Logged(p[2])
               /\ task'[u].at = "idle" => task'[u].seen = {}
    <3>1. CASE u = t
      BY <3>1, <1>p, <1>r DEF WorkInv, Working
    <3>2. CASE u # t
      BY <3>2, <1>p DEF WorkInv
    <3> QED BY <3>1, <3>2
  <2> QED BY <2>1, <1>p DEF WorkInv, Logged
<1>4. ExecutorInv'
  BY <1>p DEF ExecutorInv
<1>d. \A c \in Call : task'[c].at = "done" <=> task[c].at = "done"
  BY <1>p, <1>c DEF Working
<1>5. HashInv'
  BY <1>p, <1>d, SameDone DEF HashInv, DoneCalls
<1>6. AckedIsLogged'
  <2>1. ASSUME Persistent, NEW c \in DOMAIN calls, task'[c].at = "done" PROVE c \in log
    <3>1. c \in Call
      BY <2>1 DEF TypeOK, Call
    <3> QED BY <2>1, <3>1, <1>d DEF AckedIsLogged
  <2> QED BY <2>1, <1>p DEF AckedIsLogged
<1> QED
  BY <1>1, <1>2, <1>3, <1>4, <1>5, <1>6, <1>s, ProcessLocks

\* So does a step between changes: it gives one task its next work, which is
\* logged, keeps the log and serves nothing new.  (The counting is apart.)
LEMMA FactsBetween ==
  ASSUME TypeOK, TypeOK', Facts, NEW t \in TaskId,
         \A u \in TaskId \ {t} : task'[u] = task[u],
         task[t].at \notin Rebuilding, task'[t].at \notin {"executor", "idle"},
         t \in Call => task'[t].id = t /\ t \in DOMAIN calls',
         t \in Call /\ task'[t].at = "done" => t \in log',
         task'[t].at \in Working => task'[t].id \in log' \cup {Builtin},
         task[t].at \notin Ended, task'[t].seen = task[t].seen,
         DOMAIN calls' \in {DOMAIN calls, DOMAIN calls \cup {t}}, log \subseteq log', log' \subseteq DOMAIN calls',
         replay' \subseteq log', lock' = lock, UNCHANGED serving,
         \A x \in Resource : store'[x] \in {store[x], Builtin}
  PROVE  /\ IdInv' /\ LogInv' /\ WorkInv' /\ ExecutorInv' /\ ServedIsLogged'
         /\ AckedIsLogged' /\ LockIsOwned'
<1> USE DEF Facts, serving
<1>l. \A v : Logged(v) => Logged(v)'
  BY DEF Logged
<1>c. Call \subseteq TaskId
  BY DEF TaskId
<1>1. IdInv'
  BY <1>c DEF IdInv
<1>2. LogInv'
  BY DEF LogInv
<1>3. WorkInv'
  BY <1>l DEF WorkInv
<1>4. ExecutorInv'
  BY DEF ExecutorInv
<1>5. ServedIsLogged'
  BY DEF ServedIsLogged, Logged
<1>6. AckedIsLogged'
  <2>1. ASSUME Persistent, NEW c \in DOMAIN calls', task'[c].at = "done" PROVE c \in log'
    <3>1. c \in Call
      BY DEF TypeOK, Call
    <3>2. CASE c # t
      <4>1. task[c].at = "done" /\ c \in DOMAIN calls
        BY <2>1, <3>1, <3>2, <1>c DEF IdInv
      <4> QED BY <2>1, <4>1 DEF AckedIsLogged
    <3> QED BY <2>1, <3>1, <3>2
  <2> QED BY <2>1 DEF AckedIsLogged
<1>7. LockIsOwned'
  BY DEF LockIsOwned, Rebuilding, TypeOK
<1> QED
  BY <1>1, <1>2, <1>3, <1>4, <1>5, <1>6, <1>7

\* Every step of the program preserves the rest of the invariant.
LEMMA FactsStep == TypeOK /\ TypeOK' /\ Facts /\ [Next]_vars => Facts'
<1> SUFFICES ASSUME TypeOK, TypeOK', Facts, [Next]_vars PROVE Facts'
  OBVIOUS
<1> USE DEF Facts, storage
<1>b. /\ Boot \in TaskId /\ Call \subseteq TaskId /\ Boot \notin Call
      /\ Builtin \notin Call /\ log \subseteq Call
  BY DEF TaskId, Boot, Call, Builtin, TypeOK
<1>t. \A t \in TaskId : task[t] \in Task
  BY DEF TypeOK
<1>h. ASSUME changeHash' = changeHash, \A c \in Call : task'[c].at = "done" <=> task[c].at = "done"
      PROVE HashInv'
  BY <1>h, SameDone DEF HashInv, DoneCalls
<1>1. ASSUME NEW cmd \in {"put", "delete"}, NEW x \in Resource, Begin(cmd, x) PROVE Facts'
  <2> DEFINE c == Len(calls) + 1
  <2>1. /\ c \in Call /\ c \in TaskId /\ c \notin DOMAIN calls
        /\ DOMAIN calls' = DOMAIN calls \cup {c}
    BY <1>1, <1>b DEF Begin, TypeOK
  <2>2. task[c].at = "idle"
    BY <2>1 DEF IdInv
  <2>3. /\ task'[c].at = "append" /\ task'[c].id = c /\ task'[c].seen = task[c].seen
        /\ \A u \in TaskId \ {c} : task'[u] = task[u]
    BY <1>1, <2>1, <1>t DEF Begin, TypeOK, Task
  <2>4. HashInv'
    BY <1>1, <1>h, <1>b, <2>1, <2>2, <2>3 DEF Begin
  <2> HIDE DEF c
  <2> QED
    BY <1>1, <2>1, <2>2, <2>3, <2>4, FactsBetween
    DEF Begin, Rebuilding, Working, Ended, LogInv, serving
<1>2. ASSUME NEW c \in Call, AppendChangelog(c) PROVE Facts'
  <2>1. /\ task'[c].at = "store" /\ task'[c].id = task[c].id /\ task'[c].seen = task[c].seen
        /\ \A u \in TaskId \ {c} : task'[u] = task[u]
    BY <1>2, <1>b, MovesType DEF AppendChangelog, TypeOK, Steps
  <2>2. /\ task[c].at = "append" /\ task[c].id = c /\ c \in DOMAIN calls
        /\ log' = log \cup {c}
    BY <1>2 DEF AppendChangelog, IdInv
  <2>3. HashInv'
    BY <1>2, <1>h, <1>b, <2>1, <2>2 DEF AppendChangelog
  <2> QED
    BY <1>2, <1>b, <2>1, <2>2, <2>3, FactsBetween
    DEF AppendChangelog, Ended, Rebuilding, Working, LogInv, serving
<1>3. ASSUME NEW c \in Call, Acknowledge(c) PROVE Facts'
  <2>1. /\ task'[c].at = "done" /\ task'[c].id = task[c].id /\ task'[c].seen = task[c].seen
        /\ \A u \in TaskId \ {c} : task'[u] = task[u]
    BY <1>3, <1>b, MovesType DEF Acknowledge, TypeOK, Steps, Ended
  <2>2. /\ task[c].at = "end" /\ task[c].id = c /\ c \in DOMAIN calls /\ c \in log
    BY <1>3, <1>b DEF Acknowledge, IdInv, WorkInv, Working
  <2>3. HashInv'
    <3>1. DoneCalls' = DoneCalls \cup {c} /\ c \notin DoneCalls
      BY <2>1, <2>2, <1>b DEF DoneCalls
    <3>2. Cardinality(DoneCalls') = Cardinality(DoneCalls) + 1
      BY <3>1, DoneFinite, FS_AddElement
    <3>3. changeHash \in Nat /\ changeHash' = changeHash + 1
      BY <1>3 DEF Acknowledge, TypeOK
    <3> QED BY <3>2, <3>3, DoneFinite DEF HashInv, DoneCalls
  <2> QED
    BY <1>3, <1>b, <2>1, <2>2, <2>3, FactsBetween
    DEF Acknowledge, Rebuilding, Working, Ended, LogInv, serving
<1>4. CASE BootList
  <2>1. /\ task'[Boot].at = "next" /\ task'[Boot].seen = task[Boot].seen
        /\ \A u \in TaskId \ {Boot} : task'[u] = task[u]
    BY <1>4, <1>b, MovesType DEF BootList, TypeOK, Steps
  <2>2. HashInv'
    BY <1>4, <1>h, <1>b, <2>1 DEF BootList
  <2> QED
    BY <1>4, <1>b, <2>1, <2>2, FactsBetween DEF BootList, Rebuilding, Working, Ended, LogInv, serving
<1>5. CASE BootReplayed
  <2>1. /\ task'[Boot].at \in {"open", "next"} /\ task'[Boot].seen = task[Boot].seen
        /\ \A u \in TaskId \ {Boot} : task'[u] = task[u]
    BY <1>5, <1>b, MovesType DEF BootReplayed, TypeOK, Steps
  <2>2. HashInv'
    BY <1>5, <1>h, <1>b, <2>1 DEF BootReplayed
  <2> QED
    BY <1>5, <1>b, <2>1, <2>2, FactsBetween 
    DEF BootReplayed, Rebuilding, Working, Ended, LogInv, serving
<1>6. CASE BootDefault
  <2>1. /\ task'[Boot].at \in {"open", "namespace"} /\ task'[Boot].seen = task[Boot].seen
        /\ task'[Boot].at = "namespace" => task'[Boot].id = Builtin
        /\ \A u \in TaskId \ {Boot} : task'[u] = task[u]
    <3>1. CASE ~NoDefault /\ store[Default] = Absent
      <4>1. task' = [task EXCEPT ![Boot].at = "namespace", ![Boot].id = Builtin,
                                 ![Boot].res = Default]
        BY <1>6, <3>1 DEF BootDefault
      <4> QED BY <4>1, <1>b, <1>t DEF TypeOK, Task
    <3>2. CASE ~(~NoDefault /\ store[Default] = Absent)
      BY <1>6, <3>2, <1>b, MovesType DEF BootDefault, TypeOK, Steps
    <3> QED BY <3>1, <3>2
  <2>2. HashInv'
    BY <1>6, <1>h, <1>b, <2>1 DEF BootDefault
  <2>3. \A x \in Resource : store'[x] \in {store[x], Builtin}
    BY <1>6 DEF BootDefault, TypeOK
  <2> QED
    BY <1>6, <1>b, <2>1, <2>2, <2>3, FactsBetween
    DEF BootDefault, Rebuilding, Working, Ended, LogInv, serving
<1>7. CASE BootOpen
  <2>1. /\ task'[Boot].at = "up" /\ task'[Boot].seen = task[Boot].seen
        /\ \A u \in TaskId \ {Boot} : task'[u] = task[u]
    BY <1>7, <1>b, MovesType DEF BootOpen, TypeOK, Steps
  <2>2. HashInv'
    BY <1>7, <1>h, <1>b, <2>1 DEF BootOpen
  <2> QED
    BY <1>7, <1>b, <2>1, <2>2, FactsBetween
    DEF BootOpen, Rebuilding, Working, Ended, LogInv, serving
<1>8. ASSUME NEW c \in Call, BootReplay(c) PROVE Facts'
  <2>1. /\ task'[Boot].at = "store" /\ task'[Boot].seen = task[Boot].seen /\ task'[Boot].id = c
        /\ c \in log
        /\ \A u \in TaskId \ {Boot} : task'[u] = task[u]
    BY <1>8, <1>b, <1>t DEF BootReplay, TypeOK, Task, LogInv
  <2>2. HashInv'
    BY <1>8, <1>h, <1>b, <2>1 DEF BootReplay
  <2>3. /\ task[Boot].at = "next" /\ calls' = calls /\ log' = log /\ store' = store
        /\ lock' = lock /\ replay' \subseteq replay /\ UNCHANGED serving
    BY <1>8 DEF BootReplay
  <2>4. /\ task[Boot].at \notin Rebuilding \cup Ended
        /\ task'[Boot].at \notin {"executor", "idle", "done"}
    BY <2>1, <2>3 DEF Rebuilding, Ended
  <2> QED
    BY <1>b, <2>1, <2>2, <2>3, <2>4, FactsBetween DEF LogInv
<1>9. CASE Crash
  <2>1. \A t \in TaskId : \/ t = Boot /\ task'[t] = NewTask("list")
                          \/ t \in Call /\ task'[t].at = "lost" /\ task'[t].id = task[t].id
                             /\ t \in DOMAIN calls /\ task[t].at \notin Ended
                          \/ t \in Call /\ task'[t] = task[t] /\ task[t].at \in Ended \cup {"idle"}
    <3>1. ASSUME NEW t \in TaskId
          PROVE  task'[t] = IF t = Boot THEN NewTask("list")
                            ELSE IF t \in InFlight THEN [NewTask("lost") EXCEPT !.id = t]
                            ELSE task[t]
      BY <1>9, <3>1 DEF Crash
    <3>3. \A t \in TaskId : t = Boot \/ t \in Call
      BY DEF TaskId
    <3>4. \A t \in Call : t \in InFlight <=> t \in DOMAIN calls /\ task[t].at \notin Ended
      BY DEF InFlight
    <3>5. \A t \in Call : t \in DOMAIN calls => task[t].id = t
      BY DEF IdInv
    <3>6. \A t \in Call : t \notin InFlight => task[t].at \in Ended \cup {"idle"}
      BY <3>4 DEF IdInv
    <3> SUFFICES ASSUME NEW t \in TaskId
                 PROVE  \/ t = Boot /\ task'[t] = NewTask("list")
                        \/ t \in Call /\ task'[t].at = "lost" /\ task'[t].id = task[t].id
                           /\ t \in DOMAIN calls /\ task[t].at \notin Ended
                        \/ t \in Call /\ task'[t] = task[t] /\ task[t].at \in Ended \cup {"idle"}
      OBVIOUS
    <3>7. CASE t = Boot
      BY <3>1, <3>7
    <3>8. CASE t \in Call /\ t \in InFlight
      <4>1. task'[t] = [NewTask("lost") EXCEPT !.id = t]
        BY <3>1, <3>8, <1>b
      <4>2. task'[t].at = "lost" /\ task'[t].id = t
        BY <4>1 DEF NewTask
      <4> QED BY <3>4, <3>5, <3>8, <4>2
    <3>9. CASE t \in Call /\ t \notin InFlight
      BY <3>1, <3>6, <3>9, <1>b
    <3> QED BY <3>3, <3>7, <3>8, <3>9
  <2>2. /\ calls' = calls /\ lock' = {} /\ replay' = {} /\ domains' = {}
        /\ \A n \in Namespace : routers'[n] = NoRouter
        /\ \A m \in Module : executor'[m] = Absent
    BY <1>9 DEF Crash
  <2>3. IdInv'
    <3>1. ASSUME NEW c \in Call
          PROVE  /\ c \in DOMAIN calls' <=> task'[c].at # "idle"
                 /\ c \in DOMAIN calls' => task'[c].id = c
      <4>1. c \in TaskId /\ c # Boot
        BY <1>b
      <4>2. CASE task'[c].at = "lost" /\ task'[c].id = task[c].id /\ c \in DOMAIN calls
        BY <2>2, <4>2 DEF IdInv
      <4>3. CASE task'[c] = task[c]
        BY <2>2, <4>3 DEF IdInv
      <4> QED BY <2>1, <4>1, <4>2, <4>3
    <3> QED BY <3>1 DEF IdInv
  <2>4. LogInv'
    BY <1>9, <2>2 DEF Crash, LogInv
  <2>5. WorkInv'
    <3>1. ASSUME NEW t \in TaskId
          PROVE  /\ task'[t].at \notin Working
                 /\ task'[t].at \notin Ended => task'[t].seen = {}
      BY <2>1, <1>b DEF NewTask, Working, Ended, WorkInv
    <3> QED BY <3>1 DEF WorkInv, Ended
  <2>6. ExecutorInv'
    BY <2>1 DEF ExecutorInv, NewTask, Ended
  <2>7. HashInv'
    <3>1. IsFiniteSet(DoneCalls') /\ Cardinality(DoneCalls') \in Nat
      <4>1. IsFiniteSet(Call)
        BY FS_Interval DEF Call
      <4>2. DoneCalls' \subseteq Call
        BY DEF DoneCalls, Call
      <4> QED BY <4>1, <4>2, FS_Subset, FS_CardinalityType
    <3> QED BY <1>9, <3>1 DEF Crash, HashInv, DoneCalls
  <2>8. ServedIsLogged'
    <3>1. \A x \in Resource : store'[x] \in log' \cup {Absent, Builtin}
      BY <1>9 DEF Crash, ServedIsLogged, Logged
    <3> QED BY <2>2, <3>1 DEF ServedIsLogged, Logged
  <2>9. AckedIsLogged'
    <3>1. ASSUME Persistent, NEW c \in DOMAIN calls, task'[c].at = "done" PROVE c \in log'
      <4>1. c \in Call
        BY DEF TypeOK, Call
      <4>2. task[c].at = "done" /\ log' = log
        BY <1>9, <3>1, <4>1, <2>1, <1>b DEF Crash
      <4> QED BY <3>1, <4>2 DEF AckedIsLogged
    <3> QED BY <2>2, <3>1 DEF AckedIsLogged
  <2>10. LockIsOwned'
    BY <2>2 DEF LockIsOwned
  <2> QED BY <2>3, <2>4, <2>5, <2>6, <2>7, <2>8, <2>9, <2>10
<1>10. CASE UNCHANGED vars
  BY <1>10 DEF vars, serving, IdInv, LogInv, WorkInv, ExecutorInv, HashInv, ServedIsLogged,
     AckedIsLogged, LockIsOwned, Logged
<1> QED
  BY <1>1, <1>2, <1>3, <1>4, <1>5, <1>6, <1>7, <1>8, <1>9, <1>10, <1>b, FactsProcess
  DEF Next, CallStep, BootStep

\* The invariant is inductive, so it always holds.
THEOREM Invariance == Spec => []IInv
<1> DEFINE J == TypeOK /\ Facts
<1>1. Init => J
  BY TypeInit, FactsInit
<1>2. J /\ [Next]_vars => J'
  <2>1. Facts => OwnId /\ LogInv
    BY DEF Facts, IdInv, OwnId
  <2> QED BY <2>1, TypeStep, FactsStep
<1>3. J => IInv
  BY DEF Facts, IInv
<1> QED
  BY <1>1, <1>2, <1>3, PTL DEF Spec

\* Every variable keeps its type.
THEOREM TypeCorrect == Spec => []TypeOK
<1>1. IInv => TypeOK
  BY DEF IInv
<1> QED BY <1>1, Invariance, PTL

\* Whatever overlaps and whenever the process dies, what is stored or served
\* was written by a call that is in the changelog table (proxy/mod.rs appends
\* the changelog before it processes it).
THEOREM ServesOnlyLogged == Spec => []ServedIsLogged
<1>1. IInv => ServedIsLogged
  BY DEF IInv
<1> QED BY <1>1, Invariance, PTL

\* With file storage an acknowledged call is in the changelog table for good.
THEOREM AcksAreLogged == Spec => []AckedIsLogged
<1>1. IInv => AckedIsLogged
  BY DEF IInv
<1> QED BY <1>1, Invariance, PTL

\* The executor's write lock is only held by a task that rebuilds the router
\* for a module, never by one that has ended.
THEOREM LockGivenBack == Spec => []LockIsOwned
<1>1. IInv => LockIsOwned
  BY DEF IInv
<1> QED BY <1>1, Invariance, PTL

-----------------------------------------------------------------------------
(* Calls that do not overlap: the inductive invariant.                      *)

\* A client waits for the answer to a call, and for readiness.
OneAtATime == ~Overlapping /\ ~Early

\* The changelogs whose change is not written, or not written again since the start.
Unwritten ==
  (IF task[Boot].at = "list" THEN log ELSE replay)
    \cup {task[t].id : t \in {u \in TaskId : task[u].at = "store"}}

\* Either the boot task runs, or it has nothing left to do and the last call may run.
BootAt == Working \cup {"list", "next", "open", "up"}
TurnInv ==
  /\ task[Boot].at \in BootAt
  /\ ready <=> task[Boot].at = "up"
  /\ ~ready => InFlight = {}
  /\ \A c \in InFlight : c = Len(calls)
  /\ task[Boot].at \in {"open", "up"} => replay = {}
  /\ task[Boot].at \in Working /\ task[Boot].id = Builtin => replay = {}

\* A task works on the change of its changelog; changelogs are written in order.
WrittenInv ==
  /\ \A t \in TaskId :
       task[t].at \in {"append", "store"} =>
         /\ task[t].id \in DOMAIN calls
         /\ task[t].cmd = calls[task[t].id].cmd /\ task[t].res = calls[task[t].id].res
  /\ \A t \in TaskId : task[t].at = "store" =>
       task[t].id \in log /\ \A d \in replay : task[t].id < d
  /\ \A c \in log \ Unwritten, d \in Unwritten : c < d

\* A resource whose changelogs are all written has what the last one leaves.
ReplayLeaves(x, v) ==
  \/ About(x, log) = {} /\ v = Absent
  \/ \E c \in About(x, log) :
       v = Effect(calls[c].cmd, c) /\ \A d \in About(x, log) : d <= c
StoredInv ==
  \A x \in Resource : About(x, Unwritten) = {} =>
    \/ ReplayLeaves(x, store[x])
    \/ x = Default /\ ~NoDefault /\ ReplayLeaves(x, Absent) /\ store[x] = Builtin

\* What the task has still to bring up to date.
Uncompiled(t) == task[t].cmd = "put" /\ task[t].res \in Broken
Reroutes(t) ==
  \/ task[t].at \in {"drop", "namespace", "routes", "deps"}
  \/ task[t].at = "executor" /\ ~Uncompiled(t)
Rerouting(n) == \E t \in TaskId : Ns(t) = n /\ Reroutes(t)
Dropping(n) == \E t \in TaskId : task[t].at = "drop" /\ task[t].res = n
RouterInv ==
  /\ \A n \in Namespace :
       routers[n] = NoRouter \/ Rerouting(n) \/ Sound(routers[n]) = Sound(Compiled(n))
  /\ \A n \in Namespace : store[n] = Absent => routers[n] = NoRouter \/ Dropping(n)
  /\ \A t \in TaskId :
       /\ task[t].at = "drop" => task[t].res \in Namespace
       /\ task[t].at \in {"routes", "deps"} => store[Ns(t)] # Absent
       /\ task[t].at = "deps" => task[t].seen \cup Stored(task[t].todo) = Compiled(Ns(t))

Decoding(m) == \E t \in TaskId : task[t].at = "executor" /\ task[t].res = m
CodeInv ==
  /\ \A t \in TaskId : task[t].at = "executor" =>
       store[task[t].res] = Effect(task[t].cmd, task[t].id)
  /\ \A m \in Module \ Broken :
       executor[m] = store[m] \/ About(m, Unwritten) # {} \/ Decoding(m)

Resolving == \E t \in TaskId : task[t].at \in {"domains", "resolve"}
DomainInv ==
  /\ domains \subseteq Stored(Domain) \/ Resolving
  /\ \A t \in TaskId : task[t].at = "resolve" => task[t].seen \subseteq Stored(Domain)

SerialInv == TurnInv /\ WrittenInv /\ StoredInv /\ RouterInv /\ CodeInv /\ DomainInv

-----------------------------------------------------------------------------
(* What routers are compiled from.                                          *)

\* What is read of resources depends on nothing else in storage.
LEMMA StoredSame ==
  ASSUME NEW S, \A x \in S : store'[x] = store[x]
  PROVE  Stored(S)' = Stored(S)
  BY DEF Stored

\* The routes of a namespace name services and modules of that namespace.
LEMMA NamedOfNs ==
  ASSUME NEW n \in Namespace
  PROVE  \A x \in Named(Stored({r \in Route : NsOf[r] = n})) :
            x \in Service \cup Module /\ NsOf[x] = n
<1> SUFFICES ASSUME NEW x \in Named(Stored({r \in Route : NsOf[r] = n}))
             PROVE  x \in Service \cup Module /\ NsOf[x] = n
  OBVIOUS
<1>1. PICK r \in Route, v \in Version :
        <<r, v>> \in Stored({q \in Route : NsOf[q] = n}) /\ x \in Uses[r]
  BY DEF Named
<1>2. NsOf[r] = n
  BY <1>1 DEF Stored
<1> QED
  BY <1>1, <1>2

\* What a namespace's router is compiled from depends on nothing but its own
\* routes, services and modules.
LEMMA CompiledSame ==
  ASSUME NEW n \in Namespace,
         \A x \in Route \cup Service \cup Module : NsOf[x] = n => store'[x] = store[x]
  PROVE  Compiled(n)' = Compiled(n)
<1> DEFINE R == {r \in Route : NsOf[r] = n}
<1>1. Stored(R)' = Stored(R)
  <2>1. \A x \in R : store'[x] = store[x]
    OBVIOUS
  <2>2. R' = R
    OBVIOUS
  <2> HIDE DEF R
  <2>3. {<<x, store[x]>> : x \in {y \in R : store[y] # Absent}}'
          = {<<x, store[x]>> : x \in {y \in R : store[y] # Absent}}
    BY <2>1, <2>2
  <2> QED BY <2>3 DEF Stored
<1>2. Named(Stored(R))' = Named(Stored(R))
  <2> DEFINE F == Stored(R)
  <2>1. F' = F
    BY <1>1
  <2> HIDE DEF F
  <2>2. Named(F)' = Named(F)
    BY <2>1 DEF Named, Version, Builtin
  <2> QED BY <2>2 DEF F
<1>3. \A x \in Named(Stored(R)) : store'[x] = store[x]
  BY NamedOfNs
<1>4. Stored(Named(Stored(R)))' = Stored(Named(Stored(R)))
  <2> HIDE DEF R
  <2> DEFINE D == Named(Stored(R))
  <2>1. \A x \in D : store'[x] = store[x]
    BY <1>3
  <2>2. D' = D
    BY <1>2
  <2> HIDE DEF D
  <2>3. {<<x, store[x]>> : x \in {y \in D : store[y] # Absent}}'
          = {<<x, store[x]>> : x \in {y \in D : store[y] # Absent}}
    BY <2>1, <2>2
  <2> QED BY <2>3 DEF D, Stored
<1> QED
  BY <1>1, <1>4 DEF Compiled

\* Nor does it change, but for the broken module, when a broken module is written.
LEMMA SoundSame ==
  ASSUME NEW n \in Namespace, NEW m \in Broken,
         \A x \in Route \cup Service \cup Module : x # m => store'[x] = store[x]
  PROVE  Sound(Compiled(n)') = Sound(Compiled(n))
<1> DEFINE R == {r \in Route : NsOf[r] = n}
<1>m. m \notin Route
  BY KindsApart
<1>1. Stored(R)' = Stored(R)
  <2>1. \A x \in R : store'[x] = store[x]
    BY <1>m
  <2>2. R' = R
    OBVIOUS
  <2> HIDE DEF R
  <2>3. {<<x, store[x]>> : x \in {y \in R : store[y] # Absent}}'
          = {<<x, store[x]>> : x \in {y \in R : store[y] # Absent}}
    BY <2>1, <2>2
  <2> QED BY <2>3 DEF Stored
<1>2. Named(Stored(R))' = Named(Stored(R))
  <2> DEFINE F == Stored(R)
  <2>1. F' = F
    BY <1>1
  <2> HIDE DEF F
  <2>2. Named(F)' = Named(F)
    BY <2>1 DEF Named, Version, Builtin
  <2> QED BY <2>2 DEF F
<1> DEFINE D == Named(Stored(R))
<1>3. \A x \in D : x # m => store'[x] = store[x]
  BY NamedOfNs
<1>4. D' = D
  BY <1>2
<1>5. Sound({<<x, store[x]>> : x \in {y \in D : store[y] # Absent}}')
        = Sound({<<x, store[x]>> : x \in {y \in D : store[y] # Absent}})
  <2> HIDE DEF D
  <2> QED BY <1>3, <1>4 DEF Sound
<1>6. Sound(Stored(D)') = Sound(Stored(D))
  BY <1>5 DEF Stored
<1> HIDE DEF D
<1>7. \A A, B : Sound(A \cup B) = Sound(A) \cup Sound(B)
  BY DEF Sound
<1>8. Compiled(n) = Stored(R) \cup Stored(D) /\ Compiled(n)' = Stored(R)' \cup Stored(D)'
  BY DEF Compiled, D
<1>9. R' = R
  OBVIOUS
<1> HIDE DEF R
<1> QED
  <2>1. Sound(Compiled(n)') = Sound(Stored(R)') \cup Sound(Stored(D)')
    BY <1>7, <1>8
  <2>2. Sound(Compiled(n)) = Sound(Stored(R)) \cup Sound(Stored(D))
    BY <1>7, <1>8
  <2> QED BY <1>1, <1>6, <2>1, <2>2

-----------------------------------------------------------------------------
(* One task at a time.                                                      *)

Active == Working \cup {"append"}

\* Only one task works on a change: the boot task, before it is through, or the last call.
LEMMA Solo ==
  ASSUME IdInv, TurnInv, NEW t \in TaskId, task[t].at \in Active
  PROVE  /\ \A u \in TaskId \ {t} : task[u].at \notin Active
         /\ t \in Call => /\ t \in DOMAIN calls /\ t = Len(calls) /\ task[t].id = t
                          /\ ready /\ task[Boot].at = "up" /\ replay = {}
         /\ t = Boot => ~ready /\ InFlight = {} /\ task[t].at \in Working
<1>0. \A u \in TaskId : u = Boot \/ u \in Call
  BY DEF TaskId
<1>b. Boot \notin Call /\ Boot \in TaskId /\ Call \subseteq TaskId
  BY DEF Boot, Call, TaskId
<1>a. "append" \notin BootAt /\ "up" \notin Active /\ "idle" \notin Active
  BY DEF BootAt, Active, Working
<1>1. \A c \in Call : task[c].at \in Active => c \in InFlight
  <2>1. Active \cap Ended = {}
    BY DEF Active, Working, Ended
  <2> QED BY <1>a, <2>1 DEF IdInv, InFlight
<1>l. \A c \in InFlight : c \in DOMAIN calls /\ c = Len(calls) /\ ready /\ task[Boot].at = "up" /\ replay = {}
  BY DEF InFlight, TurnInv
<1>2. CASE t \in Call
  <2>1. t \in InFlight
    BY <1>1, <1>2
  <2>2. task[Boot].at \notin Active
    BY <1>l, <1>a, <2>1
  <2>3. \A c \in Call \ {t} : task[c].at \notin Active
    BY <1>1, <1>l, <2>1
  <2> QED BY <1>0, <1>2, <1>b, <1>l, <2>1, <2>2, <2>3 DEF IdInv
<1>3. CASE t = Boot
  <2>1. task[t].at \in Working /\ task[t].at # "up"
    BY <1>3, <1>a DEF TurnInv, Active
  <2>2. ~ready /\ InFlight = {}
    BY <1>3, <2>1 DEF TurnInv
  <2> QED BY <1>0, <1>1, <1>3, <1>b, <2>1, <2>2
<1> QED
  BY <1>0, <1>2, <1>3

\* The boot task logs an error and goes on.
LEMMA BootGoesOn ==
  ASSUME TypeOK, Process(Boot) PROVE task'[Boot].at \in Working
<1> USE DEF TypeOK, Working
<1>b. Boot \in TaskId /\ Boot \notin Call
  BY DEF TaskId, Boot, Call
<1>f. \A at \in Steps : Moves(Boot, at) => task'[Boot].at = at
  BY <1>b, MovesType
<1>g. Fails(Boot) => task'[Boot].at = "end"
  BY <1>f DEF Fails, Steps
<1>e. task[Boot] \in Task
  BY <1>b
<1>1. CASE WriteStore(Boot)
  <2>1. task[Boot].res \in Resource
    BY <1>e DEF Task
  <2>2. After(task[Boot].cmd, task[Boot].res) \in Steps
    BY <2>1, AfterType DEF Steps
  <2> QED BY <1>1, <1>f, <2>1, <2>2, AfterType DEF WriteStore
<1>2. CASE DropRouter(Boot)
  BY <1>2, <1>f DEF DropRouter, Steps
<1>3. CASE UpdateExecutor(Boot)
  BY <1>3, <1>f, <1>g DEF UpdateExecutor, Steps
<1>4. CASE ReadNamespace(Boot)
  BY <1>4, <1>f, <1>g DEF ReadNamespace, Steps
<1>5. CASE Rebuild(Boot) /\ ~ReadNamespace(Boot)
  <2>1. ASSUME Moves(Boot, "end") PROVE task'[Boot].at = "end"
    BY <2>1, <1>f DEF Steps
  <2>2. CASE ReadRoutes(Boot)
    <3>1. task'[Boot].at = "deps"
      BY <2>2, <1>b, <1>e DEF ReadRoutes, Task
    <3> QED BY <3>1
  <2>4. CASE ReadDomains(Boot)
    <3>1. task'[Boot].at = "resolve"
      BY <2>4, <1>b, <1>e DEF ReadDomains, Task
    <3> QED BY <3>1
  <2>3. ASSUME NEW x \in Resource, ReadDependency(Boot, x) \/ Resolve(Boot, x)
        PROVE  task'[Boot].at = task[Boot].at /\ task[Boot].at \in Working
    BY <2>3, <1>b, <1>e DEF ReadDependency, Resolve, Task
  <2> QED BY <1>5, <2>1, <2>2, <2>3, <2>4 DEF Rebuild, InsertRouter, InsertDomains
<1> QED
  BY <1>1, <1>2, <1>3, <1>4, <1>5 DEF Process

\* A task's step keeps the turns when it keeps the boot task where it was, or leaves it working.
LEMMA TurnKept ==
  ASSUME TypeOK, TurnInv, UNCHANGED <<calls, ready>>, replay' \subseteq replay,
         \A c \in Call : task'[c].at \in Ended \/ task[c].at \notin Ended,
         \/ task'[Boot] = task[Boot]
         \/ /\ task[Boot].at \notin {"open", "up"} /\ task'[Boot].at \in BootAt \ {"open", "up"}
            /\ task'[Boot].id = task[Boot].id /\ task[Boot].at \in Working
         \/ /\ task[Boot].at \notin {"open", "up"} /\ task'[Boot].at \in BootAt \ {"up"}
            /\ task'[Boot].at \in Working /\ task'[Boot].id = Builtin => replay' = {}
            /\ task'[Boot].at = "open" => replay' = {}
  PROVE  TurnInv'
<1>1. InFlight' \subseteq InFlight
  BY DEF InFlight, TypeOK, Call
<1>2. task'[Boot].at \in BootAt /\ (ready' <=> task'[Boot].at = "up")
  BY DEF TurnInv, BootAt, Working
<1>3. ~ready' => InFlight' = {}
  BY <1>1 DEF TurnInv
<1>4. \A c \in InFlight' : c = Len(calls')
  BY <1>1 DEF TurnInv
<1>5. task'[Boot].at \in {"open", "up"} => replay' = {}
  BY DEF TurnInv
<1>6. task'[Boot].at \in Working /\ task'[Boot].id = Builtin => replay' = {}
  BY DEF TurnInv
<1> QED
  BY <1>2, <1>3, <1>4, <1>5, <1>6 DEF TurnInv

\* Every step keeps the turns.
LEMMA TurnStep ==
  ASSUME OneAtATime, TypeOK, TypeOK', IdInv, IdInv', LogInv, TurnInv, [Next]_vars
  PROVE  TurnInv'
<1>b. /\ Boot \in TaskId /\ Call \subseteq TaskId /\ Boot \notin Call
      /\ Builtin \notin Call
  BY DEF TaskId, Boot, Call, Builtin
<1>d. DOMAIN calls \subseteq Call
  BY DEF TypeOK, Call
<1>w. Working \cap Ended = {} /\ Working \subseteq BootAt /\ "up" \notin Working /\ "open" \notin Working
  BY DEF Working, Ended, BootAt
<1>1. ASSUME NEW cmd \in {"put", "delete"}, NEW x \in Resource, Begin(cmd, x) PROVE TurnInv'
  <2> DEFINE c == Len(calls) + 1
  <2>1. /\ c \in Call /\ ready /\ InFlight = {} /\ Len(calls') = c /\ ready' = ready
        /\ DOMAIN calls' = DOMAIN calls \cup {c} /\ replay' = replay
    BY <1>1 DEF Begin, OneAtATime, TypeOK
  <2>2. \A u \in TaskId \ {c} : task'[u] = task[u]
    BY <1>1, <2>1, <1>b DEF Begin, TypeOK
  <2> HIDE DEF c
  <2>3. task'[Boot] = task[Boot]
    BY <2>1, <2>2, <1>b
  <2>4. \A d \in InFlight' : d = c
    BY <2>1, <2>2, <1>b DEF InFlight, TypeOK, Call
  <2> QED BY <2>1, <2>3, <2>4 DEF TurnInv
<1>2. ASSUME NEW t \in TaskId, Process(t) PROVE TurnInv'
  <2>1. /\ \A u \in TaskId \ {t} : task'[u] = task[u]
        /\ task[t].at \in Working /\ task'[t].id = task[t].id
        /\ UNCHANGED <<calls, ready, replay>>
    BY <1>2, ProcessFrame
  <2>2. \A c \in Call : task'[c].at \in Ended \/ task[c].at \notin Ended
    BY <2>1, <1>b, <1>w
  <2>3. CASE t = Boot
    <3>1. task'[Boot].at \in Working
      BY <1>2, <2>3, BootGoesOn
    <3> QED BY <2>1, <2>2, <2>3, <3>1, <1>w, TurnKept
  <2>4. CASE t # Boot
    <3>1. task'[Boot] = task[Boot]
      BY <2>1, <2>4, <1>b
    <3> QED BY <2>1, <2>2, <3>1, TurnKept
  <2> QED BY <2>3, <2>4
<1>3. ASSUME NEW c \in Call, AppendChangelog(c) \/ Acknowledge(c) PROVE TurnInv'
  <2>1. /\ \A u \in TaskId \ {c} : task'[u] = task[u]
        /\ task[c].at \in {"append", "end"} /\ UNCHANGED <<calls, ready, replay>>
    BY <1>3, <1>b, MovesType DEF AppendChangelog, Acknowledge, TypeOK, Steps, Ended
  <2>2. \A d \in Call : task'[d].at \in Ended \/ task[d].at \notin Ended
    BY <2>1, <1>b DEF Ended
  <2>3. task'[Boot] = task[Boot]
    BY <2>1, <1>b
  <2> QED BY <2>1, <2>2, <2>3, TurnKept
<1>k. ASSUME \A u \in TaskId \ {Boot} : task'[u] = task[u]
      PROVE  \A d \in Call : task'[d].at \in Ended \/ task[d].at \notin Ended
  BY <1>k, <1>b
<1>4. CASE BootList
  <2>1. /\ task'[Boot].at = "next" /\ calls' = calls /\ ready' = ready
        /\ \A u \in TaskId \ {Boot} : task'[u] = task[u]
        /\ task[Boot].at = "list"
    BY <1>4, <1>b, MovesType DEF BootList, TypeOK, Steps
  <2>2. InFlight' = InFlight
    BY <2>1, <1>b, <1>d DEF InFlight
  <2> QED BY <2>1, <2>2 DEF TurnInv, BootAt, Working
<1>5. CASE BootReplayed
  <2>1. /\ task'[Boot].at = (IF task[Boot].id = Builtin THEN "open" ELSE "next")
        /\ \A u \in TaskId \ {Boot} : task'[u] = task[u]
        /\ task[Boot].at = "end" /\ UNCHANGED <<calls, ready, replay>>
    BY <1>5, <1>b, MovesType DEF BootReplayed, TypeOK, Steps
  <2>2. task[Boot].id = Builtin => replay = {}
    BY <2>1 DEF TurnInv, Working
  <2> QED BY <2>1, <2>2, <1>k, TurnKept DEF BootAt, Working
<1>6. CASE BootDefault
  <2>1. /\ task'[Boot].at \in {"open", "namespace"} /\ replay = {}
        /\ \A u \in TaskId \ {Boot} : task'[u] = task[u]
        /\ task[Boot].at = "next" /\ UNCHANGED <<calls, ready, replay>>
    <3>1. CASE ~NoDefault /\ store[Default] = Absent
      <4>1. task' = [task EXCEPT ![Boot].at = "namespace", ![Boot].id = Builtin,
                                 ![Boot].res = Default]
        BY <1>6, <3>1 DEF BootDefault
      <4> QED BY <1>6, <4>1, <1>b DEF BootDefault, TypeOK, Task
    <3>2. CASE ~(~NoDefault /\ store[Default] = Absent)
      BY <1>6, <3>2, <1>b, MovesType DEF BootDefault, TypeOK, Steps
    <3> QED BY <3>1, <3>2
  <2> QED BY <2>1, <1>k, TurnKept DEF BootAt, Working
<1>7. CASE BootOpen
  <2>1. /\ task'[Boot].at = "up" /\ calls' = calls /\ ready' /\ replay' = replay
        /\ \A u \in TaskId \ {Boot} : task'[u] = task[u]
        /\ task[Boot].at = "open"
    BY <1>7, <1>b, MovesType DEF BootOpen, TypeOK, Steps
  <2>2. InFlight' = InFlight
    BY <2>1, <1>b, <1>d DEF InFlight
  <2> QED BY <2>1, <2>2 DEF TurnInv, BootAt, Working
<1>8. ASSUME NEW c \in Call, BootReplay(c) PROVE TurnInv'
  <2>1. /\ task'[Boot].at = "store" /\ task'[Boot].id = c
        /\ \A u \in TaskId \ {Boot} : task'[u] = task[u]
        /\ task[Boot].at = "next" /\ calls' = calls /\ ready' = ready /\ replay' \subseteq replay
    BY <1>8, <1>b DEF BootReplay, TypeOK, Task
  <2>2. c # Builtin
    BY <1>b
  <2> QED BY <2>1, <2>2, <1>k, TurnKept DEF BootAt, Working
<1>9. CASE Crash
  <2>1. task'[Boot].at = "list" /\ calls' = calls /\ ready' = FALSE
    BY <1>9, <1>b DEF Crash, NewTask
  <2>2. \A c \in InFlight : c \in Call /\ task'[c].at = "lost"
    <3>1. InFlight \subseteq Call
      BY DEF InFlight, TypeOK, Call
    <3>2. ASSUME NEW c \in InFlight PROVE task'[c] = [NewTask("lost") EXCEPT !.id = c]
      BY <1>9, <1>b, <3>1 DEF Crash
    <3> QED BY <3>1, <3>2 DEF NewTask
  <2>3. \A c \in Call \ InFlight : task'[c] = task[c]
    BY <1>9, <1>b DEF Crash
  <2>4. InFlight' = {}
    BY <2>1, <2>2, <2>3 DEF InFlight, Ended, TypeOK, Call
  <2> QED BY <2>1, <2>4 DEF TurnInv, BootAt, Working
<1>10. CASE UNCHANGED vars
  BY <1>10 DEF vars, TurnInv, InFlight
<1> QED
  BY <1>1, <1>2, <1>3, <1>4, <1>5, <1>6, <1>7, <1>8, <1>9, <1>10, <1>b DEF Next, CallStep, BootStep

-----------------------------------------------------------------------------
(* The changelogs still to be written.                                      *)

\* A change is written to storage in one step; its other steps leave storage alone.
LEMMA ProcessElse ==
  ASSUME TypeOK, NEW t \in TaskId, Process(t), ~WriteStore(t)
  PROVE  /\ store' = store /\ task'[t].cmd = task[t].cmd
         /\ task[t].at \in Working \ {"store"}
         /\ task'[t].at \in (Working \cup {"failed"}) \ {"store"}
<1> USE DEF TypeOK, storage, serving, Working
<1>e. task[t] \in Task
  OBVIOUS
<1>f. \A at \in Steps : Moves(t, at) => task'[t].at = at /\ task'[t].cmd = task[t].cmd
  BY MovesType
<1>g. Fails(t) => task'[t].at \in {"end", "failed"} /\ task'[t].cmd = task[t].cmd
  BY <1>f DEF Fails, Steps, Ended
<1>2. CASE DropRouter(t) \/ InsertRouter(t) \/ InsertDomains(t)
  <2>1. Moves(t, "end") /\ task[t].at \in {"drop", "deps", "resolve"} /\ store' = store
    BY <1>2 DEF DropRouter, InsertRouter, InsertDomains
  <2> QED BY <2>1, <1>f DEF Steps
<1>3. CASE UpdateExecutor(t) \/ ReadNamespace(t)
  BY <1>3, <1>f, <1>g DEF UpdateExecutor, ReadNamespace, Steps
<1>4. CASE ReadRoutes(t)
  <2>1. task'[t].at = "deps" /\ task'[t].cmd = task[t].cmd
    BY <1>4, <1>e DEF ReadRoutes, Task
  <2> QED BY <1>4, <2>1 DEF ReadRoutes
<1>6. CASE ReadDomains(t)
  <2>1. task'[t].at = "resolve" /\ task'[t].cmd = task[t].cmd
    BY <1>6, <1>e DEF ReadDomains, Task
  <2> QED BY <1>6, <2>1 DEF ReadDomains
<1>5. ASSUME NEW x \in Resource, ReadDependency(t, x) \/ Resolve(t, x)
      PROVE  /\ task'[t].at = task[t].at /\ task[t].at \in {"deps", "resolve"}
             /\ store' = store /\ task'[t].cmd = task[t].cmd
  BY <1>5, <1>e DEF ReadDependency, Resolve, Task
<1> QED
  BY <1>2, <1>3, <1>4, <1>5, <1>6 DEF Process, Rebuild

\* What is still to be written depends on the boot task and the tasks about to write.
LEMMA UnwrittenSame ==
  ASSUME task[Boot].at = "list" <=> task'[Boot].at = "list", UNCHANGED <<log, replay>>,
         \A t \in TaskId : \/ task[t].at # "store" /\ task'[t].at # "store"
                           \/ task'[t].at = task[t].at /\ task'[t].id = task[t].id
  PROVE  Unwritten' = Unwritten
<1>1. {u \in TaskId : task'[u].at = "store"} = {u \in TaskId : task[u].at = "store"}
  OBVIOUS
<1>2. {task'[t].id : t \in {u \in TaskId : task'[u].at = "store"}}
        = {task[t].id : t \in {u \in TaskId : task[u].at = "store"}}
  BY <1>1
<1> QED
  BY <1>2 DEF Unwritten, TaskId

\* As long as nothing is appended or written, all changelogs are where they were.
LEMMA WrittenStay ==
  ASSUME WrittenInv, Unwritten' = Unwritten, UNCHANGED <<calls, log>>,
         \A t \in TaskId : task'[t].at \in {"append", "store"} =>
           /\ task'[t].at = task[t].at /\ task'[t].id = task[t].id
           /\ task'[t].cmd = task[t].cmd /\ task'[t].res = task[t].res,
         replay' \subseteq replay \/ \A t \in TaskId : task'[t].at # "store"
  PROVE  WrittenInv'
<1>1. \A t \in TaskId : task'[t].at \in {"append", "store"} =>
         /\ task'[t].id \in DOMAIN calls'
         /\ task'[t].cmd = calls'[task'[t].id].cmd /\ task'[t].res = calls'[task'[t].id].res
  BY DEF WrittenInv
<1>2. \A t \in TaskId : task'[t].at = "store" =>
         task'[t].id \in log' /\ \A d \in replay' : task'[t].id < d
  BY DEF WrittenInv
<1>3. \A c \in log' \ Unwritten', d \in Unwritten' : c < d
  BY DEF WrittenInv
<1> QED
  BY <1>1, <1>2, <1>3 DEF WrittenInv

\* What replaying a resource's changelogs leaves depends on nothing but them.
LEMMA LeavesSame ==
  ASSUME LogInv, NEW x, NEW v, ReplayLeaves(x, v), About(x, log)' = About(x, log),
         \A c \in log : calls'[c] = calls[c]
  PROVE  ReplayLeaves(x, v)'
<1>1. CASE About(x, log) = {}
  BY <1>1 DEF ReplayLeaves
<1>2. ASSUME NEW c \in About(x, log), v = Effect(calls[c].cmd, c),
             \A d \in About(x, log) : d <= c
      PROVE  ReplayLeaves(x, v)'
  <2>1. calls'[c] = calls[c]
    BY DEF About
  <2> QED BY <1>2, <2>1 DEF ReplayLeaves
<1> QED
  BY <1>1, <1>2 DEF ReplayLeaves

\* As long as nothing is appended or written, what is stored is what a replay would leave.
LEMMA StoredStay ==
  ASSUME StoredInv, Unwritten' = Unwritten, UNCHANGED <<calls, log, store>>
  PROVE  StoredInv'
<1>1. \A x : About(x, Unwritten)' = About(x, Unwritten) /\ About(x, log)' = About(x, log)
  BY DEF About
<1>2. \A x, v : ReplayLeaves(x, v) => ReplayLeaves(x, v)'
  BY <1>1 DEF ReplayLeaves
<1> QED
  BY <1>1, <1>2 DEF StoredInv

\* The order of changelogs and what is stored survive the writing of a change.
LEMMA WriteStoreStored ==
  ASSUME TypeOK, IdInv, LogInv, TurnInv, WrittenInv, StoredInv, NEW t \in TaskId, WriteStore(t)
  PROVE  /\ WrittenInv' /\ StoredInv'
         /\ \A x \in Resource \ {task[t].res} : About(x, Unwritten') = About(x, Unwritten)
<1> DEFINE id == task[t].id  x == task[t].res
<1>b. Boot \in TaskId /\ Boot \notin Call /\ \A u \in TaskId : u = Boot \/ u \in Call
  BY DEF TaskId, Boot, Call
<1>1. /\ task[t].at = "store" /\ store' = [store EXCEPT ![x] = Effect(task[t].cmd, id)]
      /\ UNCHANGED <<calls, log, replay>>
  BY DEF WriteStore
<1>2. /\ \A u \in TaskId \ {t} : task'[u] = task[u]
      /\ task'[t].at \notin {"store", "append", "list"} /\ x \in Resource
  <2>1. task[t] \in Task /\ x \in Resource
    BY DEF TypeOK, Task
  <2>2. After(task[t].cmd, x) \in Steps \ {"store", "append", "list"}
    BY <2>1, AfterType DEF Steps
  <2> QED BY <2>1, <2>2, MovesType DEF WriteStore, TypeOK
<1>3. \A u \in TaskId \ {t} : task[u].at \notin Active
  BY <1>1, Solo DEF Active, Working
<1>4. /\ id \in log /\ \A d \in replay : id < d
      /\ id \in DOMAIN calls /\ task[t].cmd = calls[id].cmd /\ x = calls[id].res
  BY <1>1 DEF WrittenInv
<1>5. Unwritten' = replay
  <2>1. task'[Boot].at # "list"
    <3>1. CASE t = Boot
      BY <1>2, <3>1
    <3>2. CASE t # Boot
      BY <1>1, <1>2, <1>b, <3>2, Solo DEF Active, Working
    <3> QED BY <3>1, <3>2
  <2>2. \A u \in TaskId : task'[u].at # "store"
    BY <1>2, <1>3 DEF Active, Working
  <2> QED BY <1>1, <2>1, <2>2 DEF Unwritten
<1>6. Unwritten = replay \cup {id}
  <2>1. task[Boot].at # "list"
    <3>1. CASE t = Boot
      BY <1>1, <3>1
    <3>2. CASE t # Boot
      BY <1>1, <1>b, <3>2, Solo DEF Active, Working
    <3> QED BY <3>1, <3>2
  <2>2. {u \in TaskId : task[u].at = "store"} = {t}
    BY <1>1, <1>3 DEF Active, Working
  <2> QED BY <2>1, <2>2 DEF Unwritten
<1>7. id \in Call /\ log \subseteq Call /\ replay \subseteq log
  BY <1>4 DEF TypeOK, LogInv
<1>8. \A c \in log \ {id} : c \in replay \/ c < id
  BY <1>6 DEF WrittenInv
<1> HIDE DEF id, x
<1>9. WrittenInv'
  <2>1. \A u \in TaskId : task'[u].at \notin {"append", "store"}
    BY <1>2, <1>3 DEF Active, Working
  <2>2. \A c \in log' \ Unwritten', d \in Unwritten' : c < d
    <3> SUFFICES ASSUME NEW c \in log \ replay, NEW d \in replay PROVE c < d
      BY <1>1, <1>5
    <3>1. CASE c = id
      BY <3>1, <1>4
    <3>2. CASE c # id
      BY <3>2, <1>6 DEF WrittenInv
    <3> QED BY <3>1, <3>2
  <2> QED BY <2>1, <2>2 DEF WrittenInv
<1>10. \A y \in Resource \ {x} : About(y, Unwritten') = About(y, Unwritten)
  BY <1>4, <1>5, <1>6 DEF About
<1>11. StoredInv'
  <2> SUFFICES ASSUME NEW y \in Resource, About(y, Unwritten)' = {}
               PROVE  \/ ReplayLeaves(y, store[y])'
                      \/ y = Default /\ ~NoDefault /\ ReplayLeaves(y, Absent)' /\ store'[y] = Builtin
    BY DEF StoredInv
  <2>1. \A z, v : ReplayLeaves(z, v) => ReplayLeaves(z, v)'
    BY <1>1 DEF ReplayLeaves, About
  <2>2. CASE y = x
    <3>1. id \in About(x, log)
      BY <1>4 DEF About
    <3>2. \A d \in About(x, log) : d <= id
      <4> SUFFICES ASSUME NEW d \in About(x, log) PROVE d <= id
        OBVIOUS
      <4>1. d \notin replay
        BY <1>1, <1>5, <2>2 DEF About
      <4> QED BY <1>7, <1>8, <4>1 DEF About, Call
    <3>3. store'[x] = Effect(calls[id].cmd, id)
      BY <1>1, <1>2, <1>4 DEF TypeOK
    <3>4. ReplayLeaves(x, store'[x])
      BY <3>1, <3>2, <3>3 DEF ReplayLeaves
    <3> QED BY <1>1, <2>2, <3>4 DEF ReplayLeaves, About
  <2>3. CASE y # x
    <3>1. About(y, Unwritten) = {} /\ store'[y] = store[y]
      BY <1>1, <1>10, <2>3 DEF About, TypeOK
    <3> QED BY <1>1, <3>1 DEF StoredInv, ReplayLeaves, About
  <2> QED BY <2>2, <2>3
<1> QED
  BY <1>9, <1>10, <1>11 DEF x

\* The order of changelogs and what is stored survive every step.
LEMMA StoredStep ==
  ASSUME OneAtATime, TypeOK, IdInv, LogInv, TurnInv, WrittenInv, StoredInv, [Next]_vars
  PROVE  WrittenInv' /\ StoredInv'
<1>b. /\ Boot \in TaskId /\ Call \subseteq TaskId /\ Boot \notin Call
      /\ Builtin \notin Call /\ Builtin # Absent /\ \A u \in TaskId : u = Boot \/ u \in Call
  BY DEF TaskId, Boot, Call, Builtin, Absent
<1>d. DOMAIN calls \subseteq Call /\ \A t \in TaskId : task[t] \in Task
  BY DEF TypeOK, Call
<1>1. ASSUME NEW cmd \in {"put", "delete"}, NEW x \in Resource, Begin(cmd, x)
      PROVE  WrittenInv' /\ StoredInv'
  <2> DEFINE c == Len(calls) + 1
  <2>1. /\ c \in Call /\ c \notin DOMAIN calls
        /\ DOMAIN calls' = DOMAIN calls \cup {c} /\ UNCHANGED <<log, replay, store>>
        /\ \A d \in DOMAIN calls : calls'[d] = calls[d]
        /\ calls'[c] = [cmd |-> cmd, res |-> x]
    BY <1>1 DEF Begin, TypeOK, storage
  <2>2. /\ \A u \in TaskId \ {c} : task'[u] = task[u]
        /\ task'[c].at = "append" /\ task'[c].id = c /\ task'[c].cmd = cmd /\ task'[c].res = x
    BY <1>1, <1>b, <1>d, <2>1 DEF Begin, TypeOK, Task
  <2>3. task[c].at = "idle"
    BY <2>1 DEF IdInv
  <2> HIDE DEF c
  <2>4. c # Boot /\ c \in TaskId
    BY <1>b, <2>1
  <2>5. Unwritten' = Unwritten
    BY <1>b, <2>1, <2>2, <2>3, <2>4, UnwrittenSame
  <2>6. Unwritten \subseteq DOMAIN calls /\ log \subseteq DOMAIN calls
    BY DEF Unwritten, LogInv, WrittenInv
  <2>7. WrittenInv'
    <3>1. ASSUME NEW t \in TaskId, task'[t].at \in {"append", "store"}
          PROVE  /\ task'[t].id \in DOMAIN calls'
                 /\ task'[t].cmd = calls'[task'[t].id].cmd /\ task'[t].res = calls'[task'[t].id].res
                 /\ task'[t].at = "store" =>
                      task'[t].id \in log' /\ \A d \in replay' : task'[t].id < d
      <4>1. CASE t = c
        BY <2>1, <2>2, <4>1
      <4>2. CASE t # c
        BY <2>1, <2>2, <3>1, <4>2 DEF WrittenInv
      <4> QED BY <4>1, <4>2
    <3>2. \A e \in log' \ Unwritten', d \in Unwritten' : e < d
      BY <2>1, <2>5 DEF WrittenInv
    <3> QED BY <3>1, <3>2 DEF WrittenInv
  <2>8. StoredInv'
    <3>1. \A y : About(y, Unwritten)' = About(y, Unwritten) /\ About(y, log)' = About(y, log)
      BY <2>1, <2>5, <2>6 DEF About
    <3>2. \A y, v : ReplayLeaves(y, v) => ReplayLeaves(y, v)'
      BY <2>1, <2>6, <3>1, LeavesSame
    <3> QED BY <2>1, <3>1, <3>2 DEF StoredInv
  <2> QED BY <2>7, <2>8
<1>2. ASSUME NEW c \in Call, AppendChangelog(c) PROVE WrittenInv' /\ StoredInv'
  <2>1. /\ task[c].at = "append" /\ task'[c].at = "store" /\ task'[c].id = task[c].id
        /\ task'[c].cmd = task[c].cmd /\ task'[c].res = task[c].res
        /\ \A u \in TaskId \ {c} : task'[u] = task[u]
        /\ UNCHANGED <<calls, store, replay>> /\ log' = log \cup {task[c].id}
    BY <1>2, <1>b, MovesType DEF AppendChangelog, TypeOK, Steps
  <2>2. /\ \A u \in TaskId \ {c} : task[u].at \notin Active
        /\ c = Len(calls) /\ task[c].id = c /\ task[Boot].at = "up" /\ replay = {}
        /\ c \in DOMAIN calls
    BY <1>2, <1>b, <2>1, Solo DEF Active
  <2>3. Unwritten = {}
    <3>1. \A u \in TaskId : task[u].at # "store"
      BY <2>1, <2>2 DEF Active, Working
    <3> QED BY <2>2, <3>1 DEF Unwritten
  <2>4. Unwritten' = {c}
    <3>1. {u \in TaskId : task'[u].at = "store"} = {c}
      BY <1>b, <2>1, <2>2 DEF Active, Working
    <3>2. task'[Boot].at = "up"
      BY <1>b, <2>1, <2>2
    <3> QED BY <2>1, <2>2, <3>1, <3>2 DEF Unwritten
  <2>5. calls[c].res = task[c].res /\ calls[c].cmd = task[c].cmd /\ log \subseteq DOMAIN calls
    BY <1>b, <2>1, <2>2 DEF WrittenInv, LogInv
  <2>6. WrittenInv'
    <3>1. \A t \in TaskId : task'[t].at \in {"append", "store"} => t = c
      BY <2>1, <2>2 DEF Active, Working
    <3>2. \A e \in log' \ Unwritten', d \in Unwritten' : e < d
      <4> SUFFICES ASSUME NEW e \in log, e # c PROVE e < c
        BY <2>1, <2>2, <2>4
      <4>1. e \in DOMAIN calls /\ e \in Nat /\ e <= Len(calls)
        BY <2>5 DEF TypeOK
      <4> QED BY <2>2, <4>1 DEF Call
    <3> QED BY <2>1, <2>2, <2>5, <3>1, <3>2 DEF WrittenInv
  <2>7. StoredInv'
    <3> SUFFICES ASSUME NEW y \in Resource, About(y, Unwritten)' = {}
                 PROVE  \/ ReplayLeaves(y, store[y])'
                        \/ y = Default /\ ~NoDefault /\ ReplayLeaves(y, Absent)' /\ store'[y] = Builtin
      BY DEF StoredInv
    <3>1. y # calls[c].res
      BY <2>1, <2>4 DEF About
    <3>2. About(y, log)' = About(y, log)
      BY <2>1, <2>2, <3>1 DEF About
    <3>3. About(y, Unwritten) = {}
      BY <2>3 DEF About
    <3>4. \A v : ReplayLeaves(y, v) => ReplayLeaves(y, v)'
      BY <2>1, <3>2, LeavesSame
    <3> QED BY <2>1, <3>3, <3>4 DEF StoredInv
  <2> QED BY <2>6, <2>7
<1>3. ASSUME NEW c \in Call, Acknowledge(c) PROVE WrittenInv' /\ StoredInv'
  <2>1. /\ task[c].at = "end" /\ task'[c].at = "done"
        /\ \A u \in TaskId \ {c} : task'[u] = task[u]
        /\ UNCHANGED <<calls, log, store, replay>>
    BY <1>3, <1>b, MovesType DEF Acknowledge, TypeOK, Steps, Ended, storage
  <2>2. Unwritten' = Unwritten
    BY <1>b, <2>1, UnwrittenSame
  <2> QED BY <2>1, <2>2, WrittenStay, StoredStay
<1>4. ASSUME NEW t \in TaskId, Process(t) PROVE WrittenInv' /\ StoredInv'
  <2>1. CASE WriteStore(t)
    BY <2>1, WriteStoreStored
  <2>2. CASE ~WriteStore(t)
    <3>1. /\ store' = store /\ task[t].at \in Working \ {"store"}
          /\ task'[t].at \in (Working \cup {"failed"}) \ {"store"}
          /\ \A u \in TaskId \ {t} : task'[u] = task[u]
          /\ UNCHANGED <<calls, log, replay>>
      BY <1>4, <2>2, ProcessElse, ProcessFrame
    <3>2. task[t].at \notin {"list", "store"} /\ task'[t].at \notin {"list", "store", "append"}
      BY <3>1 DEF Working
    <3>3. Unwritten' = Unwritten
      BY <1>b, <3>1, <3>2, UnwrittenSame
    <3> QED BY <3>1, <3>2, <3>3, WrittenStay, StoredStay
  <2> QED BY <2>1, <2>2
<1>5. CASE BootList
  <2>1. /\ task'[Boot].at = "next" /\ UNCHANGED <<calls, log, store>>
        /\ \A u \in TaskId \ {Boot} : task'[u] = task[u]
        /\ task[Boot].at = "list" /\ replay' = log
    BY <1>5, <1>b, MovesType DEF BootList, TypeOK, Steps, storage
  <2>2. \A u \in TaskId : task[u].at # "store" /\ task'[u].at # "store"
    <3>1. \A u \in Call : task[u].at # "store"
      <4>1. ~ready
        BY <2>1 DEF TurnInv
      <4> QED BY <4>1, <1>b, Solo DEF Active, Working
    <3> QED BY <1>b, <2>1, <3>1
  <2>3. Unwritten' = Unwritten
    BY <2>1, <2>2 DEF Unwritten
  <2> QED BY <2>1, <2>2, <2>3, WrittenStay, StoredStay
<1>6. CASE BootReplayed \/ BootOpen
  <2>1. /\ task'[Boot].at \in {"open", "next", "up"} /\ UNCHANGED <<calls, log, store, replay>>
        /\ \A u \in TaskId \ {Boot} : task'[u] = task[u]
        /\ task[Boot].at \in {"end", "open"}
    BY <1>6, <1>b, MovesType DEF BootReplayed, BootOpen, TypeOK, Steps, storage
  <2>2. Unwritten' = Unwritten
    BY <1>b, <2>1, UnwrittenSame
  <2> QED BY <2>1, <2>2, WrittenStay, StoredStay
<1>7. CASE BootDefault
  <2>1. /\ task'[Boot].at \in {"open", "namespace"} /\ replay = {}
        /\ \A u \in TaskId \ {Boot} : task'[u] = task[u]
        /\ task[Boot].at = "next" /\ UNCHANGED <<calls, log, replay>>
    <3>1. CASE ~NoDefault /\ store[Default] = Absent
      <4>1. task' = [task EXCEPT ![Boot].at = "namespace", ![Boot].id = Builtin,
                                 ![Boot].res = Default]
        BY <1>7, <3>1 DEF BootDefault
      <4> QED BY <1>7, <4>1, <1>b, <1>d DEF BootDefault, TypeOK, Task
    <3>2. CASE ~(~NoDefault /\ store[Default] = Absent)
      BY <1>7, <3>2, <1>b, MovesType DEF BootDefault, TypeOK, Steps
    <3> QED BY <3>1, <3>2
  <2>2. Unwritten' = Unwritten
    BY <1>b, <2>1, UnwrittenSame
  <2>3. WrittenInv'
    BY <2>1, <2>2, WrittenStay
  <2>4. StoredInv'
    <3>1. CASE store' = store
      BY <2>1, <2>2, <3>1, StoredStay
    <3>2. CASE store' # store
      <4>1. ~NoDefault /\ store[Default] = Absent /\ store' = [store EXCEPT ![Default] = Builtin]
        BY <1>7, <3>2 DEF BootDefault
      <4>2. /\ store'[Default] = Builtin /\ Default \in Resource
            /\ \A y \in Resource \ {Default} : store'[y] = store[y]
        BY <4>1 DEF TypeOK, Resource
      <4>3. \A y : About(y, Unwritten)' = About(y, Unwritten)
        BY <2>1, <2>2 DEF About
      <4>4. \A y, v : ReplayLeaves(y, v) => ReplayLeaves(y, v)'
        BY <2>1 DEF ReplayLeaves, About
      <4>5. About(Default, Unwritten) = {} => ReplayLeaves(Default, Absent)
        BY <1>b, <4>1, <4>2 DEF StoredInv
      <4>6. ASSUME NEW y \in Resource, About(y, Unwritten)' = {}
            PROVE  \/ ReplayLeaves(y, store[y])'
                   \/ y = Default /\ ~NoDefault /\ ReplayLeaves(y, Absent)' /\ store'[y] = Builtin
        <5>1. CASE y = Default
          BY <4>1, <4>2, <4>3, <4>4, <4>5, <4>6, <5>1
        <5>2. CASE y # Default
          BY <4>2, <4>3, <4>4, <4>6, <5>2 DEF StoredInv
        <5> QED BY <5>1, <5>2
      <4> QED BY <4>6 DEF StoredInv
    <3> QED BY <3>1, <3>2
  <2> QED BY <2>3, <2>4
<1>8. ASSUME NEW c \in Call, BootReplay(c) PROVE WrittenInv' /\ StoredInv'
  <2>1. /\ task'[Boot].at = "store" /\ task'[Boot].id = c
        /\ task'[Boot].cmd = calls[c].cmd /\ task'[Boot].res = calls[c].res
        /\ \A u \in TaskId \ {Boot} : task'[u] = task[u]
        /\ task[Boot].at = "next" /\ UNCHANGED <<calls, log, store>>
        /\ replay' = replay \ {c} /\ c \in replay /\ Earliest(c, replay)
    BY <1>8, <1>b, <1>d DEF BootReplay, TypeOK, Task, storage
  <2>2. \A u \in TaskId \ {Boot} : task[u].at \notin Active
    <3>1. ~ready
      BY <2>1 DEF TurnInv
    <3> QED BY <3>1, <1>b, Solo
  <2>3. Unwritten = replay /\ Unwritten' = replay
    <3>1. {u \in TaskId : task[u].at = "store"} = {}
      BY <2>1, <2>2 DEF Active, Working
    <3>2. {u \in TaskId : task'[u].at = "store"} = {Boot}
      BY <1>b, <2>1, <2>2 DEF Active, Working
    <3> QED BY <2>1, <3>1, <3>2 DEF Unwritten
  <2>4. WrittenInv'
    <3>1. \A t \in TaskId : task'[t].at \in {"append", "store"} => t = Boot
      BY <2>1, <2>2 DEF Active, Working
    <3>2. c \in log /\ c \in DOMAIN calls /\ c \in Int /\ \A d \in replay : d \in Int
      BY <2>1 DEF LogInv, TypeOK, Call
    <3>3. \A d \in replay' : c < d
      BY <2>1, <3>2 DEF Earliest
    <3>4. \A e \in log' \ Unwritten', d \in Unwritten' : e < d
      BY <2>1, <2>3 DEF WrittenInv
    <3> QED BY <2>1, <3>1, <3>2, <3>3, <3>4 DEF WrittenInv
  <2> QED BY <2>1, <2>3, <2>4, StoredStay
<1>9. CASE Crash
  <2>1. /\ task'[Boot].at = "list" /\ calls' = calls
        /\ \A t \in TaskId : task'[t].at \notin {"append", "store"}
    <3>1. \A t \in TaskId : \/ t = Boot /\ task'[t] = NewTask("list")
                            \/ task'[t] = [NewTask("lost") EXCEPT !.id = t]
                            \/ t \in Call /\ t \notin InFlight /\ task'[t] = task[t]
      BY <1>9, <1>b DEF Crash
    <3>2. \A t \in Call : t \notin InFlight => task[t].at \in Ended \cup {"idle"}
      BY DEF InFlight, IdInv
    <3>3. task'[Boot].at = "list" /\ calls' = calls
      BY <1>9, <1>b DEF Crash, NewTask
    <3> QED BY <3>1, <3>2, <3>3 DEF NewTask, Ended
  <2>2. Unwritten' = log'
    BY <2>1 DEF Unwritten
  <2>3. WrittenInv'
    BY <2>1, <2>2 DEF WrittenInv
  <2>4. \/ log' = log /\ store' = store
        \/ log' = {} /\ store' = [x \in Resource |-> Absent]
    BY <1>9 DEF Crash
  <2>5. Unwritten \subseteq log
    BY DEF Unwritten, LogInv, WrittenInv
  <2>6. ASSUME NEW y \in Resource, About(y, Unwritten)' = {}
        PROVE  \/ ReplayLeaves(y, store[y])'
               \/ y = Default /\ ~NoDefault /\ ReplayLeaves(y, Absent)' /\ store'[y] = Builtin
    <3>1. About(y, log)' = {}
      BY <2>2, <2>6 DEF About
    <3>2. CASE log' = log /\ store' = store
      <4>1. About(y, log) = {} /\ About(y, Unwritten) = {}
        BY <2>1, <2>5, <3>1, <3>2 DEF About
      <4>2. store[y] = Absent \/ (y = Default /\ ~NoDefault /\ store[y] = Builtin)
        BY <4>1 DEF StoredInv, ReplayLeaves
      <4> QED BY <3>1, <3>2, <4>2 DEF ReplayLeaves
    <3>3. CASE store' = [x \in Resource |-> Absent]
      BY <3>1, <3>3 DEF ReplayLeaves
    <3> QED BY <2>4, <3>2, <3>3
  <2> QED BY <2>3, <2>6 DEF StoredInv
<1>10. CASE UNCHANGED vars
  <2>1. UNCHANGED <<calls, log, store, task, replay>>
    BY <1>10 DEF vars, storage
  <2>2. Unwritten' = Unwritten
    BY <2>1 DEF Unwritten
  <2> QED BY <2>1, <2>2, WrittenStay, StoredStay
<1> QED
  BY <1>1, <1>2, <1>3, <1>4, <1>5, <1>6, <1>7, <1>8, <1>9, <1>10, <1>b DEF Next, CallStep, BootStep

-----------------------------------------------------------------------------
(* What is served.                                                          *)

RouterSteps == {"drop", "executor", "namespace", "routes", "deps"}
DomainSteps == {"domains", "resolve"}

\* Routers are as they were when no task that brings one up to date moves.
LEMMA RoutesStay ==
  ASSUME RouterInv, UNCHANGED <<store, routers>>,
         \A t \in TaskId : \/ task'[t] = task[t]
                           \/ task[t].at \notin RouterSteps /\ task'[t].at \notin RouterSteps
  PROVE  RouterInv'
<1> USE DEF RouterSteps
<1>1. ASSUME NEW t \in TaskId
      PROVE  /\ Reroutes(t) => Reroutes(t)' /\ Ns(t)' = Ns(t)
             /\ task[t].at = "drop" => task'[t].at = "drop" /\ task'[t].res = task[t].res
  BY <1>1 DEF Reroutes, Uncompiled, Ns
<1>2. ASSUME NEW n \in Namespace PROVE Rerouting(n) => Rerouting(n)'
  BY <1>1 DEF Rerouting
<1>3. ASSUME NEW n \in Namespace PROVE Dropping(n) => Dropping(n)'
  BY <1>1 DEF Dropping
<1>4. \A n \in Namespace : Compiled(n)' = Compiled(n)
  BY CompiledSame
<1>5. ASSUME NEW n \in Namespace
      PROVE  /\ routers'[n] = NoRouter \/ Rerouting(n)' \/ Sound(routers'[n]) = Sound(Compiled(n)')
             /\ store'[n] = Absent => routers'[n] = NoRouter \/ Dropping(n)'
  BY <1>2, <1>3, <1>4 DEF RouterInv
<1>6. ASSUME NEW t \in TaskId
      PROVE  /\ task'[t].at = "drop" => task'[t].res \in Namespace
             /\ task'[t].at \in {"routes", "deps"} => store'[Ns(t)'] # Absent
             /\ task'[t].at = "deps" =>
                  task'[t].seen \cup Stored(task[t].todo)' = Compiled(Ns(t))'
  <2>1. CASE task'[t] = task[t]
    <3>1. Ns(t)' = Ns(t) /\ Stored(task[t].todo)' = Stored(task[t].todo)
      BY <2>1 DEF Ns, Stored
    <3>2. Compiled(Ns(t))' = Compiled(Ns(t))
      BY <3>1 DEF Compiled, Stored, Named, Version, Builtin
    <3> QED BY <2>1, <3>1, <3>2 DEF RouterInv
  <2>2. CASE task'[t].at \notin RouterSteps
    BY <2>2
  <2> QED BY <2>1, <2>2
<1> QED
  BY <1>5, <1>6 DEF RouterInv

\* The executor is as it was when no task that brings it up to date moves.
LEMMA CodeStay ==
  ASSUME CodeInv, UNCHANGED <<store, executor>>,
         \A m \in Module : About(m, Unwritten) # {} => About(m, Unwritten)' # {},
         \A t \in TaskId : \/ task'[t] = task[t]
                           \/ task[t].at # "executor" /\ task'[t].at # "executor"
  PROVE  CodeInv'
<1>1. \A m \in Module : Decoding(m) => Decoding(m)'
  BY DEF Decoding
<1> QED
  BY <1>1 DEF CodeInv

\* The domains are as they were when no task that brings them up to date moves.
LEMMA DomainStay ==
  ASSUME DomainInv, domains' = domains, \A d \in Domain : store'[d] = store[d],
         \A t \in TaskId : \/ task'[t] = task[t]
                           \/ task[t].at \notin DomainSteps /\ task'[t].at \notin DomainSteps
  PROVE  DomainInv'
<1>1. Resolving => Resolving'
  BY DEF Resolving, DomainSteps
<1>2. Stored(Domain)' = Stored(Domain)
  BY StoredSame
<1> QED
  BY <1>1, <1>2 DEF DomainInv, DomainSteps

\* When a change is written to storage, the rest of it brings what is served up to date.
LEMMA WriteStoreServes ==
  ASSUME TypeOK, IdInv, LogInv, TurnInv, WrittenInv, StoredInv, RouterInv, CodeInv, DomainInv,
         NEW t \in TaskId, WriteStore(t)
  PROVE  RouterInv' /\ CodeInv' /\ DomainInv'
<1> DEFINE k == task[t]  x == task[t].res
<1>e. k \in Task /\ x \in Resource /\ k.cmd \in {"put", "delete"} /\ NsOf[x] \in Namespace
  BY DEF TypeOK, Task
<1>1. /\ k.at = "store" /\ store' = [store EXCEPT ![x] = Effect(k.cmd, k.id)]
      /\ UNCHANGED <<calls, log, replay, routers, executor, domains>>
  BY DEF WriteStore, serving
<1>2. /\ \A u \in TaskId \ {t} : task'[u] = task[u]
      /\ task'[t].at = After(k.cmd, x) /\ task'[t].id = k.id /\ task'[t].cmd = k.cmd
      /\ task'[t].res = x
  <2>1. After(k.cmd, x) \in Steps
    BY <1>e, AfterType DEF Steps
  <2> QED BY <2>1, MovesType DEF WriteStore, TypeOK
<1>3. \A u \in TaskId \ {t} : task[u].at \notin Active
  BY <1>1, Solo DEF Active, Working
<1>s. /\ store'[x] = Effect(k.cmd, k.id) /\ \A y \in Resource \ {x} : store'[y] = store[y]
      /\ store' \in [Resource -> Version]
  BY <1>1, <1>e, EffectType DEF TypeOK, Task
<1>a. /\ x \in Namespace /\ k.cmd = "delete" => task'[t].at = "drop"
      /\ x \in Module => task'[t].at = "executor"
      /\ x \in Route \cup Service => task'[t].at = "namespace"
      /\ x \in Domain => task'[t].at = "domains"
      /\ task'[t].at = "drop" => x \in Namespace
      /\ task'[t].at \notin {"routes", "deps", "resolve"}
      /\ task'[t].at = "executor" => x \in Module
  BY <1>e, <1>2, KindsApart DEF After, Resource
<1>i. k.id \in Call /\ k.cmd = "put" => store'[x] # Absent
  <2>1. k.id \in Call
    BY <1>1 DEF WrittenInv, TypeOK
  <2> QED BY <2>1, <1>s DEF Effect, Absent, Call
<1>w. \A y \in Resource \ {x} : About(y, Unwritten') = About(y, Unwritten)
  BY WriteStoreStored
<1>n. \A u \in TaskId : task[u].at \notin RouterSteps \cup DomainSteps
  BY <1>1, <1>3 DEF Active, Working, RouterSteps, DomainSteps
<1>f. \A u \in TaskId : u # t => task'[u].at \notin RouterSteps \cup DomainSteps
  BY <1>n, <1>2
<1>k. k.id \in Call
  BY <1>1 DEF WrittenInv, TypeOK
<1> HIDE DEF k, x
<1>4. RouterInv'
  <2>1. ASSUME NEW n \in Namespace
        PROVE  routers'[n] = NoRouter \/ Rerouting(n)' \/ Sound(routers'[n]) = Sound(Compiled(n)')
    <3>1. routers[n] = NoRouter \/ Sound(routers[n]) = Sound(Compiled(n))
      BY <1>n DEF RouterInv, Rerouting, Reroutes, RouterSteps
    <3>2. CASE n = NsOf[x] /\ task'[t].at \in {"drop", "namespace"}
      BY <1>2, <3>2 DEF Rerouting, Reroutes, Ns
    <3>3. CASE n = NsOf[x] /\ task'[t].at = "executor" /\ ~(k.cmd = "put" /\ x \in Broken)
      BY <1>2, <3>3 DEF Rerouting, Reroutes, Ns, Uncompiled
    <3>4. CASE task'[t].at = "executor" /\ x \in Broken
      <4>1. Sound(Compiled(n)') = Sound(Compiled(n))
        BY <1>s, <3>4, SoundSame DEF Resource
      <4> QED BY <1>1, <3>1, <4>1
    <3>5. CASE n # NsOf[x] \/ x \notin Route \cup Service \cup Module
      <4>1. Compiled(n)' = Compiled(n)
        BY <1>s, <3>5, CompiledSame DEF Resource
      <4> QED BY <1>1, <3>1, <4>1
    <3> QED BY <1>a, <3>2, <3>3, <3>4, <3>5
  <2>2. ASSUME NEW n \in Namespace, store'[n] = Absent PROVE routers'[n] = NoRouter \/ Dropping(n)'
    <3>1. CASE n = x
      <4>1. k.cmd = "delete"
        BY <1>e, <1>i, <1>k, <2>2, <3>1 DEF k
      <4> QED BY <1>a, <1>2, <3>1, <4>1 DEF Dropping
    <3>2. CASE n # x
      <4>1. store[n] = Absent
        BY <1>s, <2>2, <3>2 DEF Resource
      <4> QED BY <1>1, <1>n, <4>1 DEF RouterInv, Dropping, RouterSteps
    <3> QED BY <3>1, <3>2
  <2>3. ASSUME NEW u \in TaskId
        PROVE  /\ task'[u].at = "drop" => task'[u].res \in Namespace
               /\ task'[u].at \notin {"routes", "deps"}
    BY <1>2, <1>a, <1>f DEF RouterSteps
  <2> QED BY <2>1, <2>2, <2>3 DEF RouterInv
<1>5. CodeInv'
  <2>1. ASSUME NEW u \in TaskId, task'[u].at = "executor"
        PROVE  store'[task'[u].res] = Effect(task'[u].cmd, task'[u].id)
    <3>1. u = t
      BY <1>f, <2>1 DEF RouterSteps
    <3> QED BY <1>2, <1>s, <3>1
  <2>2. ASSUME NEW m \in Module \ Broken
        PROVE  executor'[m] = store'[m] \/ About(m, Unwritten)' # {} \/ Decoding(m)'
    <3>1. CASE m = x
      BY <1>a, <1>2, <3>1 DEF Decoding
    <3>2. CASE m # x
      <4>1. store'[m] = store[m] /\ About(m, Unwritten)' = About(m, Unwritten)
        <5>1. m \in Resource \ {x}
          BY <3>2 DEF Resource
        <5>2. About(m, Unwritten') = About(m, Unwritten) /\ store'[m] = store[m]
          BY <5>1, <1>w, <1>s DEF x
        <5> QED BY <5>2, <1>1 DEF About
      <4>2. ~Decoding(m)
        BY <1>n DEF Decoding, RouterSteps
      <4> QED BY <1>1, <4>1, <4>2 DEF CodeInv
    <3> QED BY <3>1, <3>2
  <2> QED BY <2>1, <2>2 DEF CodeInv
<1>6. DomainInv'
  <2>1. \A u \in TaskId : task'[u].at # "resolve"
    BY <1>a, <1>f DEF DomainSteps
  <2>2. CASE x \in Domain
    BY <1>a, <2>1, <2>2 DEF DomainInv, Resolving
  <2>3. CASE x \notin Domain
    <3>1. Stored(Domain)' = Stored(Domain)
      BY <1>s, <2>3, StoredSame DEF Resource
    <3>2. ~Resolving
      BY <1>n DEF Resolving, DomainSteps
    <3> QED BY <1>1, <2>1, <3>1, <3>2 DEF DomainInv
  <2> QED BY <2>2, <2>3
<1> QED
  BY <1>4, <1>5, <1>6

\* A task's step but the writing leaves what is unwritten, and finds the other tasks idle.
LEMMA ElseFrame ==
  ASSUME TypeOK, IdInv, TurnInv, NEW t \in TaskId, Process(t), ~WriteStore(t)
  PROVE  /\ \A u \in TaskId \ {t} : task'[u] = task[u]
         /\ \A u \in TaskId \ {t} :
              task[u].at \notin RouterSteps \cup DomainSteps /\ task'[u].at \notin RouterSteps \cup DomainSteps
         /\ task'[t].id = task[t].id /\ task'[t].cmd = task[t].cmd /\ task'[t].res = task[t].res
         /\ Ns(t)' = Ns(t) /\ Ns(t) \in Namespace
         /\ store' = store /\ \A x : About(x, Unwritten)' = About(x, Unwritten)
         /\ \A n \in Namespace : Compiled(n)' = Compiled(n)
<1>1. /\ store' = store /\ task[t].at \in Working \ {"store"} /\ task'[t].cmd = task[t].cmd
      /\ task'[t].at \in (Working \cup {"failed"}) \ {"store"}
      /\ \A u \in TaskId \ {t} : task'[u] = task[u]
      /\ task'[t].id = task[t].id /\ task'[t].res = task[t].res
      /\ UNCHANGED <<calls, log, replay>>
  BY ProcessElse, ProcessFrame
<1>2. \A u \in TaskId \ {t} : task[u].at \notin Active
  BY <1>1, Solo DEF Active
<1>3. task[t].at \notin {"list", "store"} /\ task'[t].at \notin {"list", "store", "append"}
  BY <1>1 DEF Working
<1>4. Unwritten' = Unwritten
  BY <1>1, <1>3, UnwrittenSame DEF TaskId
<1>5. RouterSteps \cup DomainSteps \subseteq Active
  BY DEF RouterSteps, DomainSteps, Active, Working
<1>6. \A n \in Namespace : Compiled(n)' = Compiled(n)
  BY <1>1, CompiledSame
<1>7. Ns(t)' = Ns(t) /\ Ns(t) \in Namespace
  BY <1>1, NsType DEF Ns, TypeOK
<1> QED
  BY <1>1, <1>2, <1>4, <1>5, <1>6, <1>7 DEF About

\* The routers after a step of the one task that reroutes: its own namespace apart, all
\* routers were and stay compiled from what is stored.
LEMMA RouterElse ==
  ASSUME TypeOK, IdInv, TurnInv, RouterInv, NEW t \in TaskId, Process(t), ~WriteStore(t),
         \A n \in Namespace \ {Ns(t)} : routers'[n] = routers[n],
         \/ routers'[Ns(t)] = NoRouter \/ Reroutes(t)'
         \/ Sound(routers'[Ns(t)]) = Sound(Compiled(Ns(t))),
         store[Ns(t)] = Absent => routers'[Ns(t)] = NoRouter,
         task'[t].at # "drop",
         task'[t].at \in {"routes", "deps"} => store[Ns(t)] # Absent,
         task'[t].at = "deps" => task'[t].seen \cup Stored(task[t].todo)' = Compiled(Ns(t)),
         task[t].at = "drop" => task[t].res = Ns(t)
  PROVE  RouterInv'
<1>1. /\ \A u \in TaskId \ {t} : task'[u] = task[u]
      /\ \A u \in TaskId \ {t} : task[u].at \notin RouterSteps /\ task'[u].at \notin RouterSteps
      /\ Ns(t)' = Ns(t) /\ Ns(t) \in Namespace /\ store' = store
      /\ \A n \in Namespace : Compiled(n)' = Compiled(n)
  BY ElseFrame
<1>2. ASSUME NEW n \in Namespace
      PROVE  /\ routers'[n] = NoRouter \/ Rerouting(n)' \/ Sound(routers'[n]) = Sound(Compiled(n)')
             /\ store'[n] = Absent => routers'[n] = NoRouter \/ Dropping(n)'
  <2>1. CASE n = Ns(t)
    BY <1>1, <2>1 DEF Rerouting
  <2>2. CASE n # Ns(t)
    <3>1. ~Rerouting(n)
      BY <1>1, <2>2 DEF Rerouting, Reroutes, RouterSteps
    <3>2. ~Dropping(n)
      BY <1>1, <2>2 DEF Dropping, RouterSteps
    <3> QED BY <1>1, <2>2, <3>1, <3>2 DEF RouterInv
  <2> QED BY <2>1, <2>2
<1>3. ASSUME NEW u \in TaskId
      PROVE  /\ task'[u].at = "drop" => task'[u].res \in Namespace
             /\ task'[u].at \in {"routes", "deps"} => store'[Ns(u)'] # Absent
             /\ task'[u].at = "deps" =>
                  task'[u].seen \cup Stored(task[u].todo)' = Compiled(Ns(u))'
  <2>1. CASE u = t
    <3>1. Compiled(Ns(u))' = Compiled(Ns(t))
      BY <1>1, <2>1 DEF Compiled, Stored, Named, Version, Builtin
    <3>2. Stored(task[u].todo)' = Stored(task[t].todo)'
      BY <2>1
    <3>3. Ns(u)' = Ns(t)
      BY <1>1, <2>1
    <3> QED BY <1>1, <2>1, <3>1, <3>2, <3>3
  <2>2. CASE u # t
    BY <1>1, <2>2 DEF RouterSteps
  <2> QED BY <2>1, <2>2
<1> QED
  BY <1>2, <1>3 DEF RouterInv

\* The other steps of a change bring what is served up to date, one after the other.
LEMMA ElseServes ==
  ASSUME TypeOK, IdInv, TurnInv, ExecutorInv, RouterInv, CodeInv, DomainInv, NEW t \in TaskId, Process(t),
         ~WriteStore(t)
  PROVE  RouterInv' /\ CodeInv' /\ DomainInv'
<1>0. /\ \A u \in TaskId \ {t} : task'[u] = task[u]
      /\ \A u \in TaskId \ {t} :
           task[u].at \notin RouterSteps \cup DomainSteps /\ task'[u].at \notin RouterSteps \cup DomainSteps
      /\ task'[t].id = task[t].id /\ task'[t].cmd = task[t].cmd /\ task'[t].res = task[t].res
      /\ Ns(t)' = Ns(t) /\ Ns(t) \in Namespace
      /\ store' = store /\ \A x : About(x, Unwritten)' = About(x, Unwritten)
      /\ \A n \in Namespace : Compiled(n)' = Compiled(n)
  BY ElseFrame
<1>t. task[t] \in Task /\ DOMAIN routers = Namespace
  BY DEF TypeOK
<1>f. \A at \in Steps : Moves(t, at) => task'[t].at = at /\ task'[t].seen = task[t].seen
  BY MovesType DEF TypeOK
<1>g. Fails(t) => task'[t].at \in {"end", "failed"}
  BY <1>f DEF Fails, Steps, Ended
<1>r. ASSUME routers' = routers, task[t].at \notin RouterSteps, task'[t].at \notin RouterSteps
      PROVE  RouterInv'
  BY <1>r, <1>0, RoutesStay
<1>c. ASSUME executor' = executor, task[t].at # "executor", task'[t].at # "executor"
      PROVE  CodeInv'
  BY <1>c, <1>0, CodeStay
<1>d. ASSUME domains' = domains, task[t].at \notin DomainSteps, task'[t].at \notin DomainSteps
      PROVE  DomainInv'
  BY <1>d, <1>0, DomainStay
<1>1. CASE DropRouter(t)
  <2>1. /\ task[t].at = "drop" /\ task'[t].at = "end" /\ UNCHANGED <<executor, domains>>
        /\ routers' = [routers EXCEPT ![task[t].res] = NoRouter]
    BY <1>1, <1>f DEF DropRouter, Steps
  <2>2. task[t].res \in Namespace /\ task[t].res = Ns(t)
    BY <2>1 DEF RouterInv, Ns
  <2>3. routers'[Ns(t)] = NoRouter /\ \A n \in Namespace \ {Ns(t)} : routers'[n] = routers[n]
    BY <2>1, <2>2, <1>t
  <2>4. RouterInv'
    BY <2>1, <2>2, <2>3, RouterElse
  <2> QED BY <2>1, <2>4, <1>c, <1>d DEF DomainSteps
<1>2. CASE UpdateExecutor(t)
  <2>1. /\ task[t].at = "executor" /\ task[t].res \in Module
        /\ UNCHANGED <<routers, domains>>
    BY <1>2 DEF UpdateExecutor, ExecutorInv
  <2>2. CASE Uncompiled(t)
    <3>1. task'[t].at \in {"end", "failed"} /\ executor' = executor
      BY <1>2, <1>g, <2>2 DEF UpdateExecutor, Uncompiled
    <3>2. RouterInv'
      <4>1. \A u \in TaskId : ~Reroutes(u) /\ task[u].at # "drop"
        BY <1>0, <2>1, <2>2 DEF Reroutes, RouterSteps
      <4>2. /\ routers[Ns(t)] = NoRouter \/ Sound(routers[Ns(t)]) = Sound(Compiled(Ns(t)))
            /\ store[Ns(t)] = Absent => routers[Ns(t)] = NoRouter
        BY <1>0, <4>1 DEF RouterInv, Rerouting, Dropping
      <4> QED BY <2>1, <3>1, <4>2, RouterElse
    <3>3. CodeInv'
      <4>1. \A m \in Module \ Broken : ~Decoding(m)
        BY <1>0, <2>1, <2>2 DEF Decoding, Uncompiled, RouterSteps
      <4>2. \A u \in TaskId : task'[u].at # "executor"
        BY <1>0, <3>1 DEF RouterSteps
      <4> QED BY <1>0, <3>1, <4>1, <4>2 DEF CodeInv
    <3> QED BY <2>1, <3>1, <3>2, <3>3, <1>d DEF DomainSteps
  <2>3. CASE ~Uncompiled(t)
    <3>1. /\ task'[t].at = "namespace"
          /\ executor' = [executor EXCEPT ![task[t].res] = Effect(task[t].cmd, task[t].id)]
      BY <1>2, <1>f, <2>3 DEF UpdateExecutor, Uncompiled, Steps
    <3>2. RouterInv'
      <4>1. store[Ns(t)] = Absent => routers[Ns(t)] = NoRouter
        <5>1. ~Dropping(Ns(t))
          BY <1>0, <2>1 DEF Dropping, RouterSteps
        <5> QED BY <1>0, <5>1 DEF RouterInv
      <4>2. Reroutes(t)'
        BY <3>1 DEF Reroutes
      <4> QED BY <2>1, <3>1, <4>1, <4>2, RouterElse
    <3>3. CodeInv'
      <4>1. \A u \in TaskId : task'[u].at # "executor"
        BY <1>0, <3>1 DEF RouterSteps
      <4>2. store[task[t].res] = Effect(task[t].cmd, task[t].id)
        BY <2>1 DEF CodeInv
      <4>3. ASSUME NEW m \in Module \ Broken
            PROVE  executor'[m] = store'[m] \/ About(m, Unwritten)' # {}
        <5>1. CASE m = task[t].res
          BY <1>0, <3>1, <4>2, <5>1 DEF TypeOK
        <5>2. CASE m # task[t].res
          <6>1. ~Decoding(m)
            BY <1>0, <5>2 DEF Decoding, RouterSteps
          <6> QED BY <1>0, <3>1, <5>2, <6>1 DEF CodeInv, TypeOK
        <5> QED BY <5>1, <5>2
      <4> QED BY <4>1, <4>3 DEF CodeInv
    <3> QED BY <2>1, <3>1, <3>2, <3>3, <1>d DEF DomainSteps
  <2> QED BY <2>2, <2>3
<1>3. CASE ReadNamespace(t)
  <2>1. /\ task[t].at = "namespace" /\ UNCHANGED serving
        /\ \/ store[Ns(t)] = Absent /\ task'[t].at \in {"end", "failed"}
           \/ store[Ns(t)] # Absent /\ task'[t].at = "routes"
    BY <1>3, <1>f, <1>g DEF ReadNamespace, Steps
  <2>2. ~Dropping(Ns(t))
    BY <1>0, <2>1 DEF Dropping, RouterSteps
  <2>3. store[Ns(t)] = Absent => routers[Ns(t)] = NoRouter
    BY <1>0, <2>2 DEF RouterInv
  <2>4. task'[t].at = "routes" => Reroutes(t)'
    BY DEF Reroutes
  <2>5. RouterInv'
    BY <2>1, <2>3, <2>4, RouterElse DEF serving
  <2> QED BY <2>1, <2>5, <1>c, <1>d DEF DomainSteps, serving
<1>4. CASE ReadRoutes(t)
  <2> DEFINE found == Stored({r \in Route : NsOf[r] = Ns(t)})
  <2>1. /\ task[t].at = "routes" /\ UNCHANGED serving
        /\ task'[t].at = "deps" /\ task'[t].seen = found /\ task'[t].todo = Named(found)
    BY <1>4, <1>t DEF ReadRoutes, Task, TypeOK
  <2>2. store[Ns(t)] # Absent
    BY <2>1 DEF RouterInv
  <2>3. task'[t].seen \cup Stored(task[t].todo)' = Compiled(Ns(t))
    <3>1. Stored(task[t].todo)' = Stored(Named(found))
      <4> HIDE DEF found
      <4> QED BY <1>0, <2>1 DEF Stored
    <3> QED BY <2>1, <3>1 DEF Compiled
  <2>4. Reroutes(t)'
    BY <2>1 DEF Reroutes
  <2>5. RouterInv'
    BY <2>1, <2>2, <2>3, <2>4, RouterElse DEF serving
  <2> QED BY <2>1, <2>5, <1>c, <1>d DEF DomainSteps, serving
<1>5. ASSUME NEW x \in Resource, ReadDependency(t, x) PROVE RouterInv' /\ CodeInv' /\ DomainInv'
  <2>1. /\ task[t].at = "deps" /\ UNCHANGED serving /\ x \in task[t].todo
        /\ task'[t].at = "deps" /\ task'[t].seen = task[t].seen \cup Stored({x})
        /\ task'[t].todo = task[t].todo \ {x}
    BY <1>5, <1>t DEF ReadDependency, Task, TypeOK
  <2>2. store[Ns(t)] # Absent /\ task[t].seen \cup Stored(task[t].todo) = Compiled(Ns(t))
    BY <2>1 DEF RouterInv
  <2>3. Stored({x}) \cup Stored(task[t].todo)' = Stored(task[t].todo)
    BY <1>0, <2>1 DEF Stored
  <2>4. task'[t].seen \cup Stored(task[t].todo)' = Compiled(Ns(t))
    BY <2>1, <2>2, <2>3
  <2>5. Reroutes(t)'
    BY <2>1 DEF Reroutes
  <2>6. RouterInv'
    BY <2>1, <2>2, <2>4, <2>5, RouterElse DEF serving
  <2> QED BY <2>1, <2>6, <1>c, <1>d DEF DomainSteps, serving
<1>6. CASE InsertRouter(t)
  <2>1. /\ task[t].at = "deps" /\ task[t].todo = {} /\ UNCHANGED <<executor, domains>>
        /\ task'[t].at = "end" /\ routers' = [routers EXCEPT ![Ns(t)] = task[t].seen]
    BY <1>6, <1>f DEF InsertRouter, Steps
  <2>2. store[Ns(t)] # Absent /\ task[t].seen \cup Stored(task[t].todo) = Compiled(Ns(t))
    BY <2>1 DEF RouterInv
  <2>3. task[t].seen = Compiled(Ns(t))
    <3>1. Stored(task[t].todo) = {}
      BY <2>1 DEF Stored
    <3> QED BY <2>2, <3>1
  <2>4. /\ routers'[Ns(t)] = Compiled(Ns(t))
        /\ \A n \in Namespace \ {Ns(t)} : routers'[n] = routers[n]
    BY <1>0, <1>t, <2>1, <2>3
  <2>5. RouterInv'
    BY <2>1, <2>2, <2>4, RouterElse
  <2> QED BY <2>1, <2>5, <1>c, <1>d DEF DomainSteps
<1>7. CASE ReadDomains(t)
  <2>1. /\ task[t].at = "domains" /\ UNCHANGED serving
        /\ task'[t].at = "resolve" /\ task'[t].seen = Stored(Domain)
    BY <1>7, <1>t DEF ReadDomains, Task, TypeOK
  <2>2. DomainInv'
    <3>1. Stored(Domain)' = Stored(Domain)
      BY <1>0, StoredSame
    <3>2. Resolving'
      BY <2>1 DEF Resolving
    <3> QED BY <1>0, <2>1, <3>1, <3>2 DEF DomainInv, DomainSteps
  <2> QED BY <2>1, <2>2, <1>c, <1>r DEF RouterSteps, serving
<1>8. ASSUME NEW x \in Resource, Resolve(t, x) PROVE RouterInv' /\ CodeInv' /\ DomainInv'
  <2>1. /\ task[t].at = "resolve" /\ UNCHANGED serving
        /\ task'[t].at = "resolve" /\ task'[t].seen \subseteq task[t].seen
    BY <1>8, <1>t DEF Resolve, Task, TypeOK
  <2>2. DomainInv'
    <3>1. Stored(Domain)' = Stored(Domain)
      BY <1>0, StoredSame
    <3>2. Resolving'
      BY <2>1 DEF Resolving
    <3>3. task[t].seen \subseteq Stored(Domain)
      BY <2>1 DEF DomainInv
    <3> QED BY <1>0, <2>1, <3>1, <3>2, <3>3 DEF DomainInv, DomainSteps
  <2> QED BY <2>1, <2>2, <1>c, <1>r DEF RouterSteps, serving
<1>9. CASE InsertDomains(t)
  <2>1. /\ task[t].at = "resolve" /\ UNCHANGED <<routers, executor>>
        /\ task'[t].at = "end" /\ domains' = task[t].seen
    BY <1>9, <1>f DEF InsertDomains, Steps
  <2>2. DomainInv'
    <3>1. Stored(Domain)' = Stored(Domain)
      BY <1>0, StoredSame
    <3>2. task[t].seen \subseteq Stored(Domain)
      BY <2>1 DEF DomainInv
    <3> QED BY <1>0, <2>1, <3>1, <3>2 DEF DomainInv, DomainSteps
  <2> QED BY <2>1, <2>2, <1>c, <1>r DEF RouterSteps
<1> QED
  BY <1>1, <1>2, <1>3, <1>4, <1>5, <1>6, <1>7, <1>8, <1>9 DEF Process, Rebuild

\* What is served stays up to date over every step.
LEMMA ServesStep ==
  ASSUME OneAtATime, TypeOK, IdInv, LogInv, ExecutorInv, TurnInv, WrittenInv, StoredInv,
         RouterInv, CodeInv, DomainInv, StoredInv', [Next]_vars
  PROVE  RouterInv' /\ CodeInv' /\ DomainInv'
<1>b. /\ Boot \in TaskId /\ Call \subseteq TaskId /\ \A u \in TaskId : u = Boot \/ u \in Call
      /\ Boot \notin Call
  BY DEF TaskId, Boot, Call
<1>d. DOMAIN calls \subseteq Call /\ \A t \in TaskId : task[t] \in Task
  BY DEF TypeOK, Call
<1> DEFINE Steady == RouterSteps \cup DomainSteps
<1>s. ASSUME UNCHANGED <<store, serving>>,
             \A t \in TaskId : \/ task'[t] = task[t]
                               \/ task[t].at \notin Steady /\ task'[t].at \notin Steady,
             \A m \in Module : About(m, Unwritten) # {} => About(m, Unwritten)' # {}
      PROVE  RouterInv' /\ CodeInv' /\ DomainInv'
  <2>1. /\ UNCHANGED <<store, routers, executor, domains>>
        /\ \A t \in TaskId : \/ task'[t] = task[t]
                             \/ task[t].at # "executor" /\ task'[t].at # "executor"
        /\ \A t \in TaskId : \/ task'[t] = task[t]
                             \/ task[t].at \notin RouterSteps /\ task'[t].at \notin RouterSteps
        /\ \A t \in TaskId : \/ task'[t] = task[t]
                             \/ task[t].at \notin DomainSteps /\ task'[t].at \notin DomainSteps
    BY <1>s DEF serving, RouterSteps
  <2> QED BY <1>s, <2>1, RoutesStay, CodeStay, DomainStay
<1>q. \A at : at \in {"idle", "append", "store", "end", "done", "list", "next", "open", "up"} =>
        at \notin Steady
  BY DEF RouterSteps, DomainSteps
<1>1. ASSUME NEW cmd \in {"put", "delete"}, NEW x \in Resource, Begin(cmd, x)
      PROVE  RouterInv' /\ CodeInv' /\ DomainInv'
  <2> DEFINE c == Len(calls) + 1
  <2>1. /\ c \in Call /\ c \notin DOMAIN calls /\ UNCHANGED <<log, replay, store, serving>>
        /\ \A d \in DOMAIN calls : calls'[d] = calls[d]
    BY <1>1 DEF Begin, TypeOK, storage
  <2>2. /\ \A u \in TaskId \ {c} : task'[u] = task[u]
        /\ task'[c].at = "append"
    BY <1>1, <1>b, <1>d, <2>1 DEF Begin, TypeOK, Task
  <2>3. task[c].at = "idle" /\ c \in TaskId /\ c # Boot
    BY <1>b, <2>1 DEF IdInv
  <2> HIDE DEF c
  <2>4. Unwritten' = Unwritten
    BY <1>b, <2>1, <2>2, <2>3, UnwrittenSame
  <2>5. Unwritten \subseteq DOMAIN calls
    BY DEF Unwritten, LogInv, WrittenInv
  <2>6. \A m \in Module : About(m, Unwritten)' = About(m, Unwritten)
    BY <2>1, <2>4, <2>5 DEF About
  <2> HIDE DEF Steady
  <2> QED BY <2>1, <2>2, <2>3, <2>6, <1>q, <1>s
<1>2. ASSUME NEW c \in Call, AppendChangelog(c) PROVE RouterInv' /\ CodeInv' /\ DomainInv'
  <2>1. /\ task[c].at = "append" /\ task'[c].at = "store" /\ task'[c].id = task[c].id
        /\ \A u \in TaskId \ {c} : task'[u] = task[u]
        /\ UNCHANGED <<calls, store, serving, replay>>
    BY <1>2, <1>b, MovesType DEF AppendChangelog, TypeOK, Steps
  <2>2. task[Boot].at = "up" /\ replay = {} /\ \A u \in TaskId \ {c} : task[u].at \notin Active
    BY <1>2, <1>b, <2>1, Solo DEF Active
  <2>3. Unwritten = {}
    <3>1. \A u \in TaskId : task[u].at # "store"
      BY <2>1, <2>2 DEF Active, Working
    <3> QED BY <2>2, <3>1 DEF Unwritten
  <2>4. \A m \in Module : About(m, Unwritten) = {}
    BY <2>3 DEF About
  <2> HIDE DEF Steady
  <2> QED BY <2>1, <2>4, <1>q, <1>s
<1>3. ASSUME NEW c \in Call, Acknowledge(c) PROVE RouterInv' /\ CodeInv' /\ DomainInv'
  <2>1. /\ task[c].at = "end" /\ task'[c].at = "done"
        /\ \A u \in TaskId \ {c} : task'[u] = task[u]
        /\ UNCHANGED <<calls, log, store, replay, serving>>
    BY <1>3, <1>b, MovesType DEF Acknowledge, TypeOK, Steps, Ended, storage
  <2>2. Unwritten' = Unwritten
    BY <1>b, <2>1, UnwrittenSame
  <2>3. \A m \in Module : About(m, Unwritten)' = About(m, Unwritten)
    BY <2>1, <2>2 DEF About
  <2> HIDE DEF Steady
  <2> QED BY <2>1, <2>3, <1>q, <1>s
<1>4. ASSUME NEW t \in TaskId, Process(t) PROVE RouterInv' /\ CodeInv' /\ DomainInv'
  BY <1>4, WriteStoreServes, ElseServes
<1>5. CASE BootList
  <2>1. /\ task'[Boot].at = "next" /\ UNCHANGED <<calls, log, store, serving>>
        /\ \A u \in TaskId \ {Boot} : task'[u] = task[u]
        /\ task[Boot].at = "list" /\ replay' = log
    BY <1>5, <1>b, MovesType DEF BootList, TypeOK, Steps, storage
  <2>2. Unwritten \subseteq Unwritten'
    BY <1>b, <2>1 DEF Unwritten
  <2>3. \A m \in Module : About(m, Unwritten) # {} => About(m, Unwritten)' # {}
    BY <2>1, <2>2 DEF About
  <2> HIDE DEF Steady
  <2> QED BY <2>1, <2>3, <1>q, <1>s
<1>6. CASE BootReplayed \/ BootOpen
  <2>1. /\ task'[Boot].at \in {"open", "next", "up"} /\ UNCHANGED <<calls, log, store, replay, serving>>
        /\ \A u \in TaskId \ {Boot} : task'[u] = task[u]
        /\ task[Boot].at \in {"end", "open"}
    BY <1>6, <1>b, MovesType DEF BootReplayed, BootOpen, TypeOK, Steps, storage
  <2>2. Unwritten' = Unwritten
    BY <1>b, <2>1, UnwrittenSame
  <2>3. \A m \in Module : About(m, Unwritten)' = About(m, Unwritten)
    BY <2>1, <2>2 DEF About
  <2> HIDE DEF Steady
  <2> QED BY <2>1, <2>3, <1>q, <1>s
<1>7. CASE BootDefault
  <2>1. /\ task[Boot].at = "next" /\ UNCHANGED <<calls, log, replay, serving>>
        /\ \A u \in TaskId \ {Boot} : task'[u] = task[u]
        /\ \A y \in Resource \ Namespace : store'[y] = store[y]
        /\ task'[Boot].at \in {"open", "namespace"} /\ \A y \in Resource : store'[y] \in {store[y], Builtin}
        /\ store' = store \/ task'[Boot].at = "namespace"
        /\ task'[Boot].at = "open" => store' = store
    <3>1. CASE ~NoDefault /\ store[Default] = Absent
      <4>1. /\ task' = [task EXCEPT ![Boot].at = "namespace", ![Boot].id = Builtin,
                                    ![Boot].res = Default]
            /\ store' = [store EXCEPT ![Default] = Builtin]
        BY <1>7, <3>1 DEF BootDefault
      <4>2. task'[Boot].at = "namespace" /\ \A u \in TaskId \ {Boot} : task'[u] = task[u]
        BY <4>1, <1>b, <1>d DEF TypeOK, Task
      <4> QED BY <1>7, <4>1, <4>2 DEF BootDefault, TypeOK
    <3>2. CASE ~(~NoDefault /\ store[Default] = Absent)
      BY <1>7, <3>2, <1>b, MovesType DEF BootDefault, TypeOK, Steps, storage
    <3> QED BY <3>1, <3>2
  <2>2. Unwritten' = Unwritten
    BY <1>b, <2>1, UnwrittenSame
  <2>3. \A u \in TaskId : task[u].at \notin Active
    <3>1. task[Boot].at \notin Active /\ ~ready
      BY <2>1 DEF Active, Working, TurnInv
    <3> QED BY <1>b, <3>1, Solo
  <2>4. \A u \in TaskId : task[u].at \notin Steady /\ task'[u].at \notin Steady \ {"namespace"}
    BY <2>1, <2>3 DEF Active, Working, RouterSteps, DomainSteps
  <2>5. RouterInv'
    <3>1. ASSUME NEW n \in Namespace
          PROVE  /\ routers'[n] = NoRouter \/ Sound(routers'[n]) = Sound(Compiled(n)')
                 /\ store'[n] = Absent => routers'[n] = NoRouter
      <4>1. Compiled(n)' = Compiled(n)
        <5>1. \A x \in Route \cup Service \cup Module : x \in Resource \ Namespace
          BY KindsApart DEF Resource
        <5> QED BY <2>1, <5>1, CompiledSame
      <4>2. ~Rerouting(n) /\ ~Dropping(n)
        BY <2>4 DEF Rerouting, Reroutes, Dropping, RouterSteps
      <4>3. store'[n] = Absent => store[n] = Absent
        BY <2>1 DEF Resource, Builtin, Absent
      <4> QED BY <2>1, <4>1, <4>2, <4>3 DEF RouterInv, serving
    <3> QED BY <2>4, <3>1 DEF RouterInv, RouterSteps
  <2>6. CodeInv'
    <3>1. \A m \in Module : m \in Resource \ Namespace
      BY KindsApart DEF Resource
    <3>2. \A u \in TaskId : task'[u].at # "executor" /\ task[u].at # "executor"
      BY <2>4 DEF RouterSteps
    <3>3. \A m \in Module \ Broken : executor[m] = store[m] \/ About(m, Unwritten) # {}
      BY <3>2 DEF CodeInv, Decoding
    <3>4. \A m \in Module : store'[m] = store[m] /\ About(m, Unwritten)' = About(m, Unwritten)
      BY <2>1, <2>2, <3>1 DEF About
    <3> QED BY <2>1, <3>2, <3>3, <3>4 DEF CodeInv, serving
  <2>7. DomainInv'
    <3>1. \A y \in Domain : y \in Resource \ Namespace
      BY KindsApart DEF Resource
    <3>2. Stored(Domain)' = Stored(Domain)
      BY <2>1, <3>1, StoredSame
    <3> QED BY <2>1, <2>4, <3>2 DEF DomainInv, DomainSteps, serving, Resolving
  <2> QED BY <2>5, <2>6, <2>7
<1>8. ASSUME NEW c \in Call, BootReplay(c) PROVE RouterInv' /\ CodeInv' /\ DomainInv'
  <2>1. /\ task'[Boot].at = "store" /\ task'[Boot].id = c
        /\ \A u \in TaskId \ {Boot} : task'[u] = task[u]
        /\ task[Boot].at = "next" /\ UNCHANGED <<calls, log, store, serving>>
        /\ replay' = replay \ {c} /\ c \in replay
    BY <1>8, <1>b, <1>d DEF BootReplay, TypeOK, Task, storage
  <2>2. Unwritten \subseteq Unwritten'
    <3>1. \A u \in TaskId : task[u].at = "store" => task'[u].at = "store" /\ task'[u].id = task[u].id
      BY <2>1
    <3>2. c \in {task'[u].id : u \in {v \in TaskId : task'[v].at = "store"}}
      BY <1>b, <2>1
    <3>3. {task[u].id : u \in {v \in TaskId : task[v].at = "store"}}
            \subseteq {task'[u].id : u \in {v \in TaskId : task'[v].at = "store"}}
      BY <3>1
    <3> QED BY <2>1, <3>2, <3>3 DEF Unwritten
  <2>3. \A m \in Module : About(m, Unwritten) # {} => About(m, Unwritten)' # {}
    BY <2>1, <2>2 DEF About
  <2> HIDE DEF Steady
  <2> QED BY <2>1, <2>3, <1>q, <1>s
<1>9. CASE Crash
  <2>1. \A t \in TaskId : task'[t].at \in {"list"} \cup Ended \cup {"idle"}
    <3>1. \A t \in TaskId : \/ t = Boot /\ task'[t] = NewTask("list")
                            \/ task'[t] = [NewTask("lost") EXCEPT !.id = t]
                            \/ t \in Call /\ t \notin InFlight /\ task'[t] = task[t]
      BY <1>9, <1>b DEF Crash
    <3>2. \A t \in Call : t \notin InFlight => task[t].at \in Ended \cup {"idle"}
      BY DEF InFlight, IdInv
    <3>3. NewTask("list").at = "list" /\ \A t : [NewTask("lost") EXCEPT !.id = t].at = "lost"
      BY DEF NewTask
    <3>4. "lost" \in Ended
      BY DEF Ended
    <3>5. ASSUME NEW t \in TaskId PROVE task'[t].at \in {"list"} \cup Ended \cup {"idle"}
      <4>1. CASE task'[t] = task[t] /\ t \in Call /\ t \notin InFlight
        BY <3>2, <4>1
      <4>2. CASE task'[t] = [NewTask("lost") EXCEPT !.id = t]
        BY <3>3, <3>4, <4>2
      <4> QED BY <3>1, <3>3, <4>1, <4>2
    <3> QED BY <3>5
  <2>2. \A t \in TaskId : task'[t].at \notin Steady
    BY <2>1 DEF Ended, RouterSteps, DomainSteps
  <2>3. /\ \A n \in Namespace : routers'[n] = NoRouter
        /\ \A m \in Module : executor'[m] = Absent
        /\ domains' = {}
    BY <1>9 DEF Crash
  <2>4. RouterInv'
    BY <2>2, <2>3 DEF RouterInv, RouterSteps
  <2>5. CodeInv'
    <3>1. ASSUME NEW m \in Module, About(m, Unwritten)' = {} PROVE store'[m] = Absent
      <4>1. Unwritten' = log'
        <5>1. task'[Boot].at = "list"
          BY <1>9, <1>b DEF Crash, NewTask
        <5>2. \A t \in TaskId : task'[t].at # "store"
          BY <2>1 DEF Ended
        <5> QED BY <5>1, <5>2 DEF Unwritten
      <4>2. About(m, log)' = {} /\ m \in Resource /\ m # Default
        BY <3>1, <4>1, KindsApart DEF About, Resource
      <4> QED BY <3>1, <4>2 DEF StoredInv, ReplayLeaves
    <3> QED BY <2>2, <2>3, <3>1 DEF CodeInv, RouterSteps
  <2>6. DomainInv'
    BY <2>2, <2>3 DEF DomainInv, DomainSteps
  <2> QED BY <2>4, <2>5, <2>6
<1>10. CASE UNCHANGED vars
  <2>1. UNCHANGED <<calls, log, store, serving, task, replay>>
    BY <1>10 DEF vars, storage
  <2>2. \A m \in Module : About(m, Unwritten)' = About(m, Unwritten)
    BY <2>1 DEF Unwritten, About
  <2> HIDE DEF Steady
  <2> QED BY <2>1, <2>2, <1>s
<1> QED
  BY <1>1, <1>2, <1>3, <1>4, <1>5, <1>6, <1>7, <1>8, <1>9, <1>10, <1>b DEF Next, CallStep, BootStep

\* The initial state satisfies the invariant of calls that do not overlap.
LEMMA SerialInit == Init => SerialInv
<1> SUFFICES ASSUME Init PROVE SerialInv
  OBVIOUS
<1>1. /\ \A t \in TaskId : task[t].at \in {"list", "idle"}
      /\ task[Boot].at = "list" /\ Boot \in TaskId
      /\ DOMAIN calls = {} /\ log = {} /\ replay = {} /\ domains = {} /\ ~ready
      /\ \A n \in Namespace : routers[n] = NoRouter
      /\ \A m \in Module : executor[m] = Absent
      /\ \A x \in Resource : store[x] = Absent
  BY DEF Init, NewTask, TaskId
<1>2. Unwritten = {}
  BY <1>1 DEF Unwritten
<1>3. TurnInv
  BY <1>1 DEF TurnInv, BootAt, Working, InFlight
<1>4. WrittenInv /\ StoredInv
  BY <1>1, <1>2 DEF WrittenInv, StoredInv, ReplayLeaves, About
<1>5. RouterInv /\ CodeInv /\ DomainInv
  BY <1>1 DEF RouterInv, CodeInv, DomainInv, Resource
<1> QED
  BY <1>3, <1>4, <1>5 DEF SerialInv

\* Under calls that do not overlap the two invariants together are inductive.
LEMMA SerialInvariance ==
  ASSUME OneAtATime PROVE Spec => [](IInv /\ SerialInv)
<1>1. SerialInv /\ IInv /\ IInv' /\ [Next]_vars => SerialInv'
  <2> SUFFICES ASSUME SerialInv, IInv, IInv', [Next]_vars PROVE SerialInv'
    OBVIOUS
  <2> USE DEF IInv, SerialInv
  <2>1. TurnInv'
    BY TurnStep
  <2>2. WrittenInv' /\ StoredInv'
    BY StoredStep
  <2>3. RouterInv' /\ CodeInv' /\ DomainInv'
    BY <2>2, ServesStep
  <2> QED BY <2>1, <2>2, <2>3
<1>2. Init => SerialInv
  BY SerialInit
<1> QED
  BY <1>1, <1>2, Invariance, PTL DEF Spec

\* When all is quiet nothing is left to be written, and no task works.
LEMMA QuietIsDone ==
  ASSUME IdInv, TurnInv, Quiet
  PROVE  Unwritten = {} /\ \A t \in TaskId : task[t].at \notin Active
<1>1. \A t \in TaskId : task[t].at \notin Active
  <2>1. ASSUME NEW t \in TaskId, task[t].at \in Active PROVE FALSE
    <3>1. t = Boot \/ t \in Call
      BY DEF TaskId
    <3>2. t \in Call
      BY <2>1, <3>1, Solo DEF Quiet
    <3>3. t \in DOMAIN calls /\ task[t].at \notin Ended
      BY <2>1, <3>2, Solo DEF Active, Working, Ended
    <3> QED BY <3>3 DEF Quiet, InFlight
  <2> QED BY <2>1
<1>2. task[Boot].at = "up" /\ replay = {}
  BY DEF TurnInv, Quiet
<1> QED
  BY <1>1, <1>2 DEF Unwritten, Active, Working

\* Whatever is replayed, and wherever a restart falls: between calls that do not overlap,
\* storage holds what replaying the changelog table would leave.
THEOREM RestartChangesNothing ==
  ASSUME OneAtATime PROVE Spec => []StoreIsReplay
<1>1. IInv /\ SerialInv => StoreIsReplay
  <2> SUFFICES ASSUME IInv, SerialInv, Quiet, NEW x \in Resource
               PROVE  \/ store[x] = Replayed(x)
                      \/ x = Default /\ ~NoDefault /\ Replayed(x) = Absent /\ store[x] = Builtin
    BY DEF StoreIsReplay
  <2>1. About(x, Unwritten) = {}
    BY QuietIsDone DEF IInv, SerialInv, About
  <2>2. \A v : ReplayLeaves(x, v) => v = Replayed(x)
    <3> DEFINE S == About(x, log)
    <3> SUFFICES ASSUME NEW v, ReplayLeaves(x, v) PROVE v = Replayed(x)
      OBVIOUS
    <3>1. CASE S = {}
      BY <3>1 DEF ReplayLeaves, Replayed
    <3>2. CASE S # {}
      <4>1. PICK c \in S : v = Effect(calls[c].cmd, c) /\ \A d \in S : d <= c
        BY <3>2 DEF ReplayLeaves
      <4>2. S \subseteq Int
        <5>1. log \subseteq Call
          BY DEF IInv, TypeOK
        <5>2. Call \subseteq Int
          BY DEF Call
        <5> QED BY <5>1, <5>2 DEF About
      <4> HIDE DEF S
      <4> DEFINE m == CHOOSE e \in S : \A d \in S : d <= e
      <4>3. m \in S /\ \A d \in S : d <= m
        BY <4>1
      <4> HIDE DEF m
      <4>4. m = c
        BY <4>1, <4>2, <4>3
      <4>5. Replayed(x) = Effect(calls[m].cmd, m)
        BY <3>2 DEF Replayed, m, S
      <4> QED BY <4>1, <4>4, <4>5
    <3> QED BY <3>1, <3>2
  <2> QED BY <2>1, <2>2 DEF SerialInv, StoredInv
<1> QED
  BY <1>1, SerialInvariance, PTL

\* Between calls that do not overlap, every router, the executor and the domains follow
\* what is stored.
THEOREM ServesWhatIsStored ==
  ASSUME OneAtATime PROVE Spec => []ServingShowsStore
<1>1. IInv /\ SerialInv => ServingShowsStore
  <2> SUFFICES ASSUME IInv, SerialInv, Quiet PROVE ServingShowsStore
    BY DEF ServingShowsStore
  <2>1. Unwritten = {} /\ \A t \in TaskId : task[t].at \notin Active
    BY QuietIsDone DEF IInv, SerialInv
  <2>2. \A n \in Namespace : ~Rerouting(n)
    BY <2>1 DEF Rerouting, Reroutes, Active, Working
  <2>3. \A m \in Module : ~Decoding(m) /\ About(m, Unwritten) = {}
    BY <2>1 DEF Decoding, About, Active, Working
  <2>4. ~Resolving
    BY <2>1 DEF Resolving, Active, Working
  <2> QED BY <2>2, <2>3, <2>4 DEF SerialInv, RouterInv, CodeInv, DomainInv, ServingShowsStore
<1> QED
  BY <1>1, SerialInvariance, PTL
=============================================================================
