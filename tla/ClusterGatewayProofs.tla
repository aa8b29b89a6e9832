------------------------ MODULE ClusterGatewayProofs ------------------------
(***************************************************************************)
(* Proofs about module ClusterGateway, for any resources, either consensus *)
(* and either kind of storage, whatever early calls, replays, replicated   *)
(* changes, rebuilds, restarts and snapshots meet: the types; that a node  *)
(* stores and serves nothing but what it knows; that once every change is  *)
(* handled its routers show what is stored; and that under Raft all it     *)
(* serves does, and that no route runs for good without its module's code. *)
(***************************************************************************)
EXTENDS ClusterGateway, GatewayProofs

USE ConstantsOK

\* All versions a node may store or serve.
Source == log \cup decided \cup {Absent, Builtin}

\* The changes under way were decided by the cluster.
ChangesInv ==
  /\ decided \subseteq DOMAIN calls /\ applied \subseteq decided /\ sending \subseteq decided
  /\ queue \in Seq(decided)
  /\ handling \in {{}} \cup {{c} : c \in decided}

\* What a task works on and has read comes from there, too.
TasksInv ==
  /\ \A c \in Call \ DOMAIN calls : task[c].at = "idle" /\ task[c].seen = {}
  /\ \A t \in TaskId :
       /\ task[t].at \in Working => task[t].id \in Source
       /\ task[t].at \notin Ended => SeenFrom(task[t].seen, Source)

ClusterInv ==
  /\ ClusterTypeOK
  /\ OwnId /\ LogInv /\ ChangesInv /\ TasksInv
  /\ ServedFrom(Source)

LEMMA Ids ==
  /\ Boot \in TaskId /\ Call \subseteq TaskId /\ Boot \notin Call
  /\ Call \subseteq Version /\ Absent \in Version /\ Builtin \in Version
BY DEF TaskId, Boot, Call, Version, Absent, Builtin

\* Growing the sources keeps what comes from them.
LEMMA Grows ==
  ASSUME NEW K, NEW L, K \subseteq L
  PROVE  /\ ServedFrom(K) => ServedFrom(L)
         /\ \A V : SeenFrom(V, K) => SeenFrom(V, L)
BY DEF ServedFrom, SeenFrom

LEMMA SeqGrows == ASSUME NEW S, NEW T, S \subseteq T PROVE Seq(S) \subseteq Seq(T)
OBVIOUS

LEMMA ClusterInitial == ClusterInit => ClusterInv
<1> SUFFICES ASSUME ClusterInit PROVE ClusterInv OBVIOUS
<1>1. Init BY DEF ClusterInit
<1>2. TypeOK BY <1>1, TypeInit
<1>3. Facts BY <1>1, FactsInit
<1>4. calls = <<>> /\ log = {} /\ decided = {} /\ queue = <<>> /\ handling = {}
      /\ applied = {} /\ sending = {}
  BY DEF ClusterInit, Init
<1>5. ClusterTypeOK
  <2>1. queue \in Seq(Call) BY <1>4
  <2> QED BY <1>2, <1>4, <2>1 DEF ClusterInit, ClusterTypeOK
<1>6. \A t \in TaskId : task[t].at \in {"list", "idle"} /\ task[t].seen = {}
  BY <1>1 DEF Init, NewTask
<1>7. \A c \in Call : task[c].at = "idle"
  BY <1>1, Ids DEF Init, NewTask
<1>8. ChangesInv
  <2>1. queue \in Seq(decided) BY <1>4
  <2> QED BY <1>4, <2>1 DEF ChangesInv
<1>9. TasksInv BY <1>6, <1>7, Ids DEF TasksInv, Working, SeenFrom
<1>10. ServedFrom(Source)
  BY <1>1 DEF Init, ServedFrom, Source
<1>11. OwnId BY <1>7 DEF OwnId
<1> QED BY <1>3, <1>5, <1>8, <1>9, <1>10, <1>11 DEF ClusterInv, Facts

-----------------------------------------------------------------------------
(* The steps of module Gateway.                                             *)

\* The types are kept by the steps of module Gateway, and so are the changes.
LEMMA GatewayTypes ==
  ASSUME ClusterInv, Next, UNCHANGED <<mode, decided>>,
         cluster' \in {"off", "set", "on"}, applied' \subseteq decided,
         \/ UNCHANGED <<sending, queue, handling>>
         \/ sending' = {} /\ queue' = <<>> /\ handling' = {},
         DOMAIN calls \subseteq DOMAIN calls'
  PROVE  ClusterTypeOK' /\ ChangesInv'
<1>1. TypeOK' BY TypeStep DEF ClusterInv, ClusterTypeOK
<1>2. queue' \in Seq(Call) /\ queue' \in Seq(decided)
  <2>1. CASE queue' = queue BY <2>1 DEF ClusterInv, ClusterTypeOK, ChangesInv
  <2>2. CASE queue' = <<>> BY <2>2
  <2> QED BY <2>1, <2>2
<1>3. ClusterTypeOK'
  BY <1>1, <1>2 DEF ClusterInv, ClusterTypeOK, ChangesInv
<1>4. ChangesInv'
  BY <1>2 DEF ClusterInv, ChangesInv
<1> QED BY <1>3, <1>4

LEMMA ProcessKeeps ==
  ASSUME ClusterInv, NEW t \in TaskId, Process(t), UNCHANGED clusterVars
  PROVE  ClusterInv'
<1>1. TypeOK /\ OwnId /\ LogInv /\ TasksInv /\ ChangesInv /\ ServedFrom(Source)
  BY DEF ClusterInv, ClusterTypeOK
<1>2. /\ \A u \in TaskId \ {t} : task'[u] = task[u]
      /\ task[t].at \in Working /\ task'[t].at \in Working \cup {"failed"}
      /\ task'[t].id = task[t].id /\ UNCHANGED <<calls, log, replay>>
  BY <1>1, ProcessFrame
<1>3. TypeOK' BY <1>1, TypeProcess
<1>4. ClusterTypeOK' /\ ChangesInv'
  BY <1>2, <1>3 DEF ClusterInv, ClusterTypeOK, ChangesInv, clusterVars
<1>5. OwnId' /\ LogInv'
  BY <1>1, <1>2, Ids DEF OwnId, LogInv, Working
<1>6. task[t].id \in Source /\ Absent \in Source /\ SeenFrom(task[t].seen, Source) /\ Source' = Source
  BY <1>1, <1>2 DEF TasksInv, Source, Working, Ended, clusterVars
<1>7. SeenFrom(task'[t].seen, Source) BY <1>1, <1>6, ProcessReads
<1>8. TasksInv'
  <2>1. \A c \in Call \ DOMAIN calls : c # t /\ c \in TaskId
    BY <1>1, <1>2, Ids DEF TasksInv, Working
  <2>2. \A c \in Call \ DOMAIN calls : task'[c] = task[c] BY <1>2, <2>1
  <2>3. ASSUME NEW u \in TaskId
        PROVE  /\ task'[u].at \in Working => task'[u].id \in Source
               /\ task'[u].at \notin Ended => SeenFrom(task'[u].seen, Source)
    <3>1. CASE u = t BY <3>1, <1>2, <1>6, <1>7
    <3>2. CASE u # t BY <3>2, <1>1, <1>2 DEF TasksInv
    <3> QED BY <3>1, <3>2
  <2>4. \A u \in TaskId :
          /\ task'[u].at \in Working => task'[u].id \in Source'
          /\ task'[u].at \notin Ended => \A p \in task'[u].seen : p[2] \in Source'
    BY <2>3, <1>6 DEF SeenFrom
  <2> QED BY <1>1, <1>2, <2>2, <2>4 DEF TasksInv, SeenFrom
<1>9. ServedFrom(Source)'
  <2> DEFINE K == Source
  <2>1. ServedFrom(K) /\ SeenFrom(task[t].seen, K) /\ task[t].id \in K /\ Absent \in K
    BY <1>1, <1>6
  <2> HIDE DEF K
  <2>2. /\ \A x \in Resource : store'[x] \in K
        /\ \A m \in Module : executor'[m] \in K
        /\ \A n \in Namespace : routers'[n] # NoRouter => \A p \in routers'[n] : p[2] \in K
        /\ \A p \in domains' : p[2] \in K
    BY <1>1, <2>1, ProcessServes DEF ServedFrom
  <2> QED BY <2>2, <1>6 DEF ServedFrom, K
<1> QED BY <1>4, <1>5, <1>8, <1>9 DEF ClusterInv

\* A step that gives one task of its own its next work and serves nothing new.
LEMMA BetweenKeeps ==
  ASSUME ClusterInv, TypeOK', NEW t \in TaskId, UNCHANGED clusterVars,
         \A u \in TaskId \ {t} : task'[u] = task[u],
         task[t].at \notin Ended, task'[t].seen = task[t].seen,
         task'[t].at = "append" => t \in DOMAIN calls' /\ task'[t].id = t,
         task'[t].at \in Working => task'[t].id \in Source',
         t \in Call => t \in DOMAIN calls',
         DOMAIN calls \subseteq DOMAIN calls', log \subseteq log', log' \subseteq DOMAIN calls',
         replay' \subseteq log', UNCHANGED serving,
         \A x \in Resource : store'[x] \in {store[x], Builtin}
  PROVE  ClusterInv'
<1>1. TypeOK /\ OwnId /\ LogInv /\ TasksInv /\ ChangesInv /\ ServedFrom(Source)
  BY DEF ClusterInv, ClusterTypeOK
<1>2. Source \subseteq Source' /\ Builtin \in Source' BY DEF Source, clusterVars
<1>3. ClusterTypeOK' /\ ChangesInv'
  BY DEF ClusterInv, ClusterTypeOK, ChangesInv, clusterVars
<1>4. OwnId' /\ LogInv' BY <1>1, Ids DEF OwnId, LogInv
<1>5. TasksInv'
  <2>1. \A c \in Call \ DOMAIN calls' : c \in Call \ DOMAIN calls /\ task'[c] = task[c]
    BY Ids
  <2>2. \A c \in Call \ DOMAIN calls' : task'[c].at = "idle" /\ task'[c].seen = {}
    BY <1>1, <2>1 DEF TasksInv
  <2>3. ASSUME NEW u \in TaskId
        PROVE  /\ task'[u].at \in Working => task'[u].id \in Source'
               /\ task'[u].at \notin Ended => \A p \in task'[u].seen : p[2] \in Source'
    <3>1. CASE u = t BY <3>1, <1>1, <1>2 DEF TasksInv, SeenFrom
    <3>2. CASE u # t BY <3>2, <1>1, <1>2 DEF TasksInv, SeenFrom
    <3> QED BY <3>1, <3>2
  <2> QED BY <2>2, <2>3 DEF TasksInv, SeenFrom
<1>6. ServedFrom(Source)'
  BY <1>1, <1>2 DEF ServedFrom, serving
<1> QED BY <1>3, <1>4, <1>5, <1>6 DEF ClusterInv

LEMMA EarlyCallKeeps ==
  ASSUME ClusterInv, NEW cmd \in {"put", "delete"}, NEW x \in Resource, EarlyCall(cmd, x)
  PROVE  ClusterInv'
<1> DEFINE c == Len(calls) + 1
<1>1. TypeOK /\ OwnId /\ LogInv /\ TasksInv BY DEF ClusterInv, ClusterTypeOK
<1>2. Begin(cmd, x) /\ UNCHANGED clusterVars BY DEF EarlyCall
<1>3. TypeOK' BY <1>1, <1>2, TypeStep DEF Next
<1>4. c \in Call /\ c \in TaskId /\ c \notin DOMAIN calls /\ DOMAIN calls' = DOMAIN calls \cup {c}
  BY <1>1, <1>2, Ids DEF Begin, TypeOK
<1>5. task[c].at = "idle" /\ task[c] \in Task
  BY <1>1, <1>4 DEF TasksInv, TypeOK
<1>6. /\ task'[c].at = "append" /\ task'[c].id = c /\ task'[c].seen = task[c].seen
      /\ \A u \in TaskId \ {c} : task'[u] = task[u]
  BY <1>1, <1>2, <1>4, <1>5 DEF Begin, TypeOK, Task
<1>7. UNCHANGED <<log, store, serving, replay>> BY <1>2 DEF Begin, storage
<1> HIDE DEF c
<1> QED BY <1>1, <1>2, <1>3, <1>4, <1>5, <1>6, <1>7, BetweenKeeps DEF Working, Ended, LogInv

LEMMA EarlyStepKeeps ==
  ASSUME ClusterInv, NEW c \in Call, CallStep(c), UNCHANGED clusterVars
  PROVE  ClusterInv'
<1>1. TypeOK /\ OwnId /\ LogInv /\ TasksInv BY DEF ClusterInv, ClusterTypeOK
<1>2. TypeOK' BY <1>1, TypeStep DEF Next
<1>3. CASE Process(c) BY <1>3, ProcessKeeps, Ids
<1>4. ASSUME AppendChangelog(c) \/ Acknowledge(c), task[c].at \in {"append", "end"}
      PROVE  c \in DOMAIN calls
  BY <1>1, <1>4 DEF TasksInv
<1>5. CASE AppendChangelog(c)
  <2>1. /\ task'[c].at = "store" /\ task'[c].id = task[c].id /\ task'[c].seen = task[c].seen
        /\ \A u \in TaskId \ {c} : task'[u] = task[u]
    BY <1>5, <1>1, Ids, MovesType DEF AppendChangelog, TypeOK, Steps
  <2>2. /\ task[c].at = "append" /\ task[c].id = c /\ c \in DOMAIN calls
        /\ log' = log \cup {c}
    BY <1>1, <1>5 DEF AppendChangelog, OwnId
  <2>3. UNCHANGED <<calls, store, serving, replay>> BY <1>5 DEF AppendChangelog
  <2>4. task'[c].id \in Source' BY <2>1, <2>2 DEF Source
  <2> QED BY <1>1, <1>2, <2>1, <2>2, <2>3, <2>4, Ids, BetweenKeeps DEF Ended, LogInv
<1>6. CASE Acknowledge(c)
  <2>1. /\ task'[c].at = "done" /\ task'[c].seen = task[c].seen
        /\ \A u \in TaskId \ {c} : task'[u] = task[u]
    BY <1>6, <1>1, Ids, MovesType DEF Acknowledge, TypeOK, Steps, Ended
  <2>2. task[c].at = "end" /\ c \in DOMAIN calls BY <1>4, <1>6 DEF Acknowledge
  <2>3. UNCHANGED <<calls, log, store, serving, replay>> BY <1>6 DEF Acknowledge, storage
  <2> QED BY <1>1, <1>2, <2>1, <2>2, <2>3, Ids, BetweenKeeps DEF Ended, Working, LogInv
<1> QED BY <1>3, <1>5, <1>6 DEF CallStep

LEMMA BootKeeps ==
  ASSUME ClusterInv, BootStep, UNCHANGED clusterVars
  PROVE  ClusterInv'
<1>1. TypeOK /\ OwnId /\ LogInv /\ TasksInv BY DEF ClusterInv, ClusterTypeOK
<1>2. TypeOK' BY <1>1, TypeStep DEF Next
<1>3. CASE Process(Boot) BY <1>3, ProcessKeeps, Ids
<1>4. ASSUME NEW at \in Steps, Moves(Boot, at)
      PROVE  /\ task'[Boot].at = at /\ task'[Boot].id = task[Boot].id
             /\ task'[Boot].seen = task[Boot].seen
             /\ \A u \in TaskId \ {Boot} : task'[u] = task[u]
  BY <1>1, <1>4, Ids, MovesType DEF TypeOK
<1>5. CASE BootList
  <2>1. task[Boot].at = "list" /\ task'[Boot].at = "next" /\ task'[Boot].seen = task[Boot].seen
        /\ \A u \in TaskId \ {Boot} : task'[u] = task[u]
    BY <1>4, <1>5 DEF BootList, Steps
  <2>2. UNCHANGED <<calls, log, store, serving>> /\ replay' = log BY <1>5 DEF BootList, storage
  <2> QED BY <1>1, <1>2, <2>1, <2>2, Ids, BetweenKeeps DEF Ended, Working, LogInv
<1>6. CASE BootReplayed
  <2>1. task[Boot].at = "end" /\ task'[Boot].at \in {"open", "next"}
        /\ task'[Boot].seen = task[Boot].seen
        /\ \A u \in TaskId \ {Boot} : task'[u] = task[u]
    BY <1>4, <1>6 DEF BootReplayed, Steps
  <2>2. UNCHANGED <<calls, log, store, serving, replay>> BY <1>6 DEF BootReplayed, storage
  <2> QED BY <1>1, <1>2, <2>1, <2>2, Ids, BetweenKeeps DEF Ended, Working, LogInv
<1>7. CASE BootOpen
  <2>1. task[Boot].at = "open" /\ task'[Boot].at = "up" /\ task'[Boot].seen = task[Boot].seen
        /\ \A u \in TaskId \ {Boot} : task'[u] = task[u]
    BY <1>4, <1>7 DEF BootOpen, Steps
  <2>2. UNCHANGED <<calls, log, store, serving, replay>> BY <1>7 DEF BootOpen, storage
  <2> QED BY <1>1, <1>2, <2>1, <2>2, Ids, BetweenKeeps DEF Ended, Working, LogInv
<1>8. ASSUME NEW c \in Call, BootReplay(c) PROVE ClusterInv'
  <2>1. task[Boot] \in Task BY <1>1, Ids DEF TypeOK
  <2>2. /\ task[Boot].at = "next" /\ task'[Boot].at = "store" /\ task'[Boot].id = c
        /\ task'[Boot].seen = task[Boot].seen
        /\ \A u \in TaskId \ {Boot} : task'[u] = task[u]
    BY <1>1, <1>8, <2>1, Ids DEF BootReplay, TypeOK, Task
  <2>3. c \in replay /\ replay' = replay \ {c} /\ UNCHANGED <<calls, log, store, serving>>
    BY <1>8 DEF BootReplay, storage
  <2>4. c \in Source' BY <1>1, <2>3 DEF Source, LogInv
  <2> QED BY <1>1, <1>2, <2>2, <2>3, <2>4, Ids, BetweenKeeps DEF Ended, LogInv
<1>9. CASE BootDefault
  <2>1. task[Boot] \in Task BY <1>1, Ids DEF TypeOK
  <2>2. /\ task[Boot].at = "next" /\ task'[Boot].at \in {"namespace", "open"}
        /\ task'[Boot].at = "namespace" => task'[Boot].id = Builtin
        /\ task'[Boot].seen = task[Boot].seen
        /\ \A u \in TaskId \ {Boot} : task'[u] = task[u]
        /\ \A x \in Resource : store'[x] \in {store[x], Builtin}
    <3>1. CASE ~NoDefault /\ store[Default] = Absent
      BY <1>1, <1>9, <2>1, <3>1, Ids DEF BootDefault, TypeOK, Task
    <3>2. CASE ~(~NoDefault /\ store[Default] = Absent)
      BY <1>4, <1>9, <3>2 DEF BootDefault, Steps
    <3> QED BY <3>1, <3>2
  <2>3. UNCHANGED <<calls, log, serving, replay>> BY <1>9 DEF BootDefault
  <2>4. Builtin \in Source' BY DEF Source
  <2> QED BY <1>1, <1>2, <2>2, <2>3, <2>4, Ids, BetweenKeeps DEF Ended, Working, LogInv
<1> QED BY <1>3, <1>5, <1>6, <1>7, <1>8, <1>9 DEF BootStep

LEMMA NodeCrashKeeps == ASSUME ClusterInv, NodeCrash PROVE ClusterInv'
<1>1. TypeOK /\ OwnId /\ LogInv /\ TasksInv /\ ChangesInv /\ ServedFrom(Source)
  BY DEF ClusterInv, ClusterTypeOK
<1>2. Crash /\ UNCHANGED <<mode, decided>> BY DEF NodeCrash
<1>3. UNCHANGED calls /\ replay' = {} /\ log' \subseteq log BY <1>2 DEF Crash
<1>4. ClusterTypeOK' /\ ChangesInv'
  <2>1. applied' \subseteq decided BY <1>1 DEF NodeCrash, AllAgainUnderRaft, ChangesInv
  <2>2. /\ cluster' = "off" /\ sending' = {} /\ queue' = <<>> /\ handling' = {}
    BY DEF NodeCrash
  <2> QED BY <1>2, <1>3, <2>1, <2>2, GatewayTypes DEF Next
<1>5. \A t \in TaskId :
        \/ task'[t].at = "list" /\ task'[t].seen = {} /\ t = Boot
        \/ task'[t].at = "lost" /\ task'[t].seen = {} /\ t \in DOMAIN calls
        \/ task'[t] = task[t] /\ t \in Call /\ t \notin InFlight
  <2>1. \A t \in TaskId : t # Boot => t \in Call BY DEF TaskId
  <2> QED BY <1>2, <2>1 DEF Crash, NewTask, InFlight
<1>6. \A c \in Call : c \notin InFlight => c \notin DOMAIN calls \/ task[c].at \in Ended
  BY DEF InFlight
<1>7. OwnId' /\ LogInv'
  <2>1. ASSUME NEW c \in Call, task'[c].at = "append" PROVE FALSE
    BY <2>1, <1>1, <1>5, <1>6, Ids DEF TasksInv, Ended
  <2> QED BY <1>1, <1>3, <2>1 DEF OwnId, LogInv
<1>8. TasksInv'
  <2>1. ASSUME NEW c \in Call, c \notin DOMAIN calls
        PROVE  task'[c].at = "idle" /\ task'[c].seen = {}
    BY <2>1, <1>1, <1>5, Ids DEF TasksInv
  <2>2. ASSUME NEW t \in TaskId
        PROVE  task'[t].at \notin Working /\ (task'[t].at \notin Ended => task'[t].seen = {})
    BY <1>1, <1>5, <1>6 DEF TasksInv, Working, Ended
  <2> QED BY <1>3, <2>1, <2>2 DEF TasksInv, SeenFrom
<1>9. ServedFrom(Source)'
  <2>1. \A x \in Resource : store'[x] \in Source'
    <3>1. CASE Persistent BY <1>1, <1>2, <3>1 DEF Crash, ServedFrom, Source
    <3>2. CASE ~Persistent BY <1>2, <3>2 DEF Crash, Source
    <3> QED BY <3>1, <3>2
  <2>2. \A m \in Module : executor'[m] \in Source' BY <1>2 DEF Crash, Source
  <2>3. \A n \in Namespace : routers'[n] = NoRouter BY <1>2 DEF Crash
  <2>4. domains' = {} BY <1>2 DEF Crash
  <2> QED BY <2>1, <2>2, <2>3, <2>4 DEF ServedFrom
<1> QED BY <1>4, <1>7, <1>8, <1>9 DEF ClusterInv

-----------------------------------------------------------------------------
(* The steps of the cluster.                                                *)

\* Writing a change of the cluster.
LEMMA StoresKeeps ==
  ASSUME ClusterInv, NEW c \in Call, NEW cmd \in {"put", "delete"}, NEW x \in Resource,
         Stores(c, cmd, x), c \in decided', decided \subseteq decided',
         decided' \subseteq DOMAIN calls', calls' \in Seq(Change), Len(calls') <= MaxCalls,
         DOMAIN calls \subseteq DOMAIN calls'
  PROVE  ClusterInv'
<1>1. TypeOK /\ OwnId /\ LogInv /\ TasksInv /\ ChangesInv /\ ServedFrom(Source)
  BY DEF ClusterInv, ClusterTypeOK
<1>2. /\ store' = [store EXCEPT ![x] = Effect(cmd, c)]
      /\ applied' = applied \cup {c} /\ sending' = sending \cup {c}
      /\ UNCHANGED <<log, routers, executor, domains, task, lock, replay, ready, changeHash,
                     crashes, mode, cluster, queue, handling>>
  BY DEF Stores, serving
<1>3. Source \subseteq Source' /\ c \in Source' /\ Absent \in Source'
  BY <1>2 DEF Source
<1>4. Effect(cmd, c) \in Version /\ Effect(cmd, c) \in Source'
  BY <1>3, Ids, EffectType
<1>5. TypeOK'
  <2>1. store' \in [Resource -> Version] BY <1>1, <1>2, <1>4 DEF TypeOK
  <2> QED BY <1>1, <1>2, <2>1 DEF TypeOK
<1>6. DOMAIN calls' \subseteq Call BY DEF Call
<1>7. ClusterTypeOK'
  BY <1>1, <1>2, <1>5, <1>6 DEF ClusterInv, ClusterTypeOK
<1>8. ChangesInv'
  <2>1. queue \in Seq(decided') BY <1>1, SeqGrows DEF ChangesInv
  <2> QED BY <1>1, <1>2, <2>1 DEF ChangesInv
<1>9. OwnId' /\ LogInv' BY <1>1, <1>2 DEF OwnId, LogInv
<1>10. TasksInv' BY <1>1, <1>2, <1>3 DEF TasksInv, SeenFrom
<1>11. ServedFrom(Source)'
  <2>1. \A y \in Resource : store'[y] \in {store[y], Effect(cmd, c)} BY <1>1, <1>2 DEF TypeOK
  <2> QED BY <1>1, <1>2, <1>3, <1>4, <2>1 DEF ServedFrom
<1> QED BY <1>7, <1>8, <1>9, <1>10, <1>11 DEF ClusterInv

LEMMA ApplyDecidedKeeps ==
  ASSUME ClusterInv, NEW cmd \in {"put", "delete"}, NEW x \in Resource, ApplyDecided(cmd, x)
  PROVE  ClusterInv'
<1> DEFINE c == Len(calls) + 1
<1>1. TypeOK /\ ChangesInv BY DEF ClusterInv, ClusterTypeOK
<1>2. Len(calls) \in Nat /\ DOMAIN calls = 1..Len(calls) BY <1>1 DEF TypeOK
<1>3. c <= MaxCalls
  <2>1. IsFiniteSet(DOMAIN calls) BY <1>2, FS_Interval
  <2>2. IsFiniteSet(Local) /\ Cardinality(Local) \in Nat
    BY <2>1, FS_Subset, FS_CardinalityType DEF Local
  <2> QED BY <1>2, <2>2 DEF ApplyDecided, Load
<1>4. c \in Call BY <1>2, <1>3 DEF Call
<1>5. [cmd |-> cmd, res |-> x] \in Change BY DEF Change
<1>6. calls' = Append(calls, [cmd |-> cmd, res |-> x]) /\ decided' = decided \cup {c}
      /\ Stores(c, cmd, x)
  BY DEF ApplyDecided
<1>7. calls' \in Seq(Change) /\ DOMAIN calls' = DOMAIN calls \cup {c} /\ Len(calls') = c
  BY <1>1, <1>2, <1>5, <1>6 DEF TypeOK
<1>8. decided' \subseteq DOMAIN calls' BY <1>1, <1>6, <1>7 DEF ChangesInv
<1> HIDE DEF c
<1> QED BY <1>3, <1>4, <1>6, <1>7, <1>8, StoresKeeps

LEMMA ApplyAgainKeeps ==
  ASSUME ClusterInv, NEW c \in Call, ApplyAgain(c)
  PROVE  ClusterInv'
<1>1. TypeOK /\ ChangesInv BY DEF ClusterInv, ClusterTypeOK
<1>2. c \in decided /\ c \in DOMAIN calls BY <1>1 DEF ApplyAgain, ChangesInv
<1>3. calls[c] \in Change BY <1>1, <1>2 DEF TypeOK
<1>4. calls[c].cmd \in {"put", "delete"} /\ calls[c].res \in Resource BY <1>3 DEF Change
<1>5. Stores(c, calls[c].cmd, calls[c].res) /\ UNCHANGED <<calls, decided>> BY DEF ApplyAgain
<1> QED BY <1>1, <1>2, <1>4, <1>5, StoresKeeps DEF TypeOK, ChangesInv

\* The start of a snapshot touches nothing but what is applied.
LEMMA InstallFrame ==
  ASSUME InstallSnapshot
  PROVE  /\ UNCHANGED <<calls, log, store, routers, executor, domains, task, lock, replay, ready,
                        changeHash, mode, cluster, decided, sending, queue, handling>>
         /\ applied' = {} /\ crashes < MaxCrashes /\ crashes' = crashes + 1
BY DEF InstallSnapshot, storage, serving

LEMMA InstallKeeps == ASSUME ClusterInv, InstallSnapshot PROVE ClusterInv'
<1>1. /\ UNCHANGED <<calls, log, store, routers, executor, domains, task, lock, replay, ready,
                     changeHash, mode, cluster, decided, sending, queue, handling>>
      /\ applied' = {} /\ crashes < MaxCrashes /\ crashes' = crashes + 1
  BY InstallFrame
<1>2. crashes' \in 0..MaxCrashes BY <1>1 DEF ClusterInv, ClusterTypeOK, TypeOK, ConstantsOK
<1>3. ClusterTypeOK' BY <1>1, <1>2 DEF ClusterInv, ClusterTypeOK, TypeOK
<1>4. ChangesInv' BY <1>1 DEF ClusterInv, ChangesInv
<1>5. OwnId' /\ LogInv' /\ TasksInv' /\ ServedFrom(Source)'
  BY <1>1 DEF ClusterInv, OwnId, LogInv, TasksInv, ServedFrom, Source, SeenFrom
<1> QED BY <1>3, <1>4, <1>5 DEF ClusterInv

LEMMA SendChangeKeeps == ASSUME ClusterInv, NEW c \in Call, SendChange(c) PROVE ClusterInv'
<1>1. UNCHANGED <<calls, log, store, routers, executor, domains, task, lock, replay, ready,
                  changeHash, crashes, mode, cluster, decided, applied, handling>>
  BY DEF SendChange, vars, storage, serving
<1>2. c \in decided /\ sending' \subseteq sending /\ queue' = Append(queue, c)
  BY DEF SendChange, ClusterInv, ChangesInv
<1>3. queue' \in Seq(decided) /\ queue' \in Seq(Call)
  BY <1>2 DEF ClusterInv, ClusterTypeOK, ChangesInv
<1>4. ClusterTypeOK' /\ ChangesInv'
  BY <1>1, <1>2, <1>3 DEF ClusterInv, ClusterTypeOK, TypeOK, ChangesInv
<1>5. OwnId' /\ LogInv' /\ TasksInv' /\ ServedFrom(Source)'
  BY <1>1 DEF ClusterInv, OwnId, LogInv, TasksInv, ServedFrom, Source, SeenFrom
<1> QED BY <1>4, <1>5 DEF ClusterInv

\* A step of the processor gives task c what it works on next.
LEMMA HandlingKeeps ==
  ASSUME ClusterInv, NEW c \in decided, NEW k \in Task, task' = [task EXCEPT ![c] = k],
         k.seen = {}, k.at # "append", k.at \in Working => k.id = c,
         UNCHANGED <<calls, log, store, routers, domains, lock, replay, ready, crashes, mode,
                     cluster, decided, applied, sending>>,
         executor' \in [Module -> Version], \A m \in Module : executor'[m] \in Source,
         changeHash' \in Nat, queue' \in Seq(Call), queue' \in Seq(decided),
         handling' \in {{}, {c}}
  PROVE  ClusterInv'
<1>1. TypeOK /\ OwnId /\ LogInv /\ TasksInv /\ ChangesInv /\ ServedFrom(Source)
  BY DEF ClusterInv, ClusterTypeOK
<1>2. c \in DOMAIN calls /\ c \in Call /\ c \in TaskId
  BY <1>1, Ids DEF ChangesInv, TypeOK, Call
<1>3. task' \in [TaskId -> Task] /\ task'[c] = k /\ \A u \in TaskId \ {c} : task'[u] = task[u]
  BY <1>1, <1>2 DEF TypeOK
<1>4. TypeOK' BY <1>1, <1>3 DEF TypeOK
<1>5. ClusterTypeOK' /\ ChangesInv'
  BY <1>1, <1>2, <1>4 DEF ClusterInv, ClusterTypeOK, ChangesInv
<1>6. OwnId' /\ LogInv'
  BY <1>1, <1>3, Ids DEF OwnId, LogInv
<1>7. Source' = Source /\ c \in Source BY DEF Source
<1>8. TasksInv'
  <2>1. \A d \in Call \ DOMAIN calls : task'[d] = task[d] BY <1>2, <1>3, Ids
  <2>2. ASSUME NEW u \in TaskId
        PROVE  /\ task'[u].at \in Working => task'[u].id \in Source
               /\ task'[u].at \notin Ended => \A p \in task'[u].seen : p[2] \in Source
    <3>1. CASE u = c BY <3>1, <1>3, <1>7
    <3>2. CASE u # c BY <3>2, <1>1, <1>3 DEF TasksInv, SeenFrom
    <3> QED BY <3>1, <3>2
  <2> QED BY <1>1, <1>7, <2>1, <2>2 DEF TasksInv, SeenFrom
<1>9. ServedFrom(Source)' BY <1>1, <1>7 DEF ServedFrom
<1> QED BY <1>5, <1>6, <1>8, <1>9 DEF ClusterInv

LEMMA TakeChangeKeeps == ASSUME ClusterInv, TakeChange PROVE ClusterInv'
<1> DEFINE c == Head(queue)
           k == WorkOn(c)
<1>1. TypeOK /\ ChangesInv /\ ServedFrom(Source) /\ queue \in Seq(Call)
  BY DEF ClusterInv, ClusterTypeOK
<1>2. queue # <<>> /\ queue \in Seq(decided) BY <1>1 DEF TakeChange, ChangesInv
<1>3. c \in decided /\ Tail(queue) \in Seq(decided) /\ Tail(queue) \in Seq(Call) BY <1>1, <1>2
<1>4. calls[c] \in Change BY <1>1, <1>3 DEF ChangesInv, TypeOK
<1>5. FirstStep(calls[c].cmd, calls[c].res) \in {"namespace", "drop", "domains", "end"}
  BY DEF FirstStep
<1>6. k \in Task /\ k.seen = {} /\ k.at # "append" /\ k.id = c
  <2>1. c \in Version BY <1>1, <1>3, Ids DEF ChangesInv, TypeOK, Call
  <2>2. {} \in View /\ {} \in SUBSET Resource BY DEF View
  <2> HIDE DEF c
  <2> QED BY <1>4, <1>5, <2>1, <2>2 DEF WorkOn, Task, Steps, Change
<1>7. /\ task' = [task EXCEPT ![c] = k] /\ handling' = {c} /\ queue' = Tail(queue)
      /\ UNCHANGED <<calls, log, store, routers, executor, domains, lock, replay, ready,
                     changeHash, crashes, mode, cluster, decided, applied, sending>>
  BY DEF TakeChange, storage, serving
<1>8. executor' \in [Module -> Version] /\ \A m \in Module : executor'[m] \in Source
  BY <1>1, <1>7 DEF TypeOK, ServedFrom
<1>9. changeHash' \in Nat BY <1>1, <1>7 DEF TypeOK
<1> HIDE DEF k, c
<1> QED BY <1>3, <1>6, <1>7, <1>8, <1>9, HandlingKeeps

LEMMA FinishChangeKeeps == ASSUME ClusterInv, NEW c \in Call, FinishChange(c) PROVE ClusterInv'
<1> DEFINE k == NewTask("done")
<1>1. TypeOK /\ ChangesInv /\ TasksInv /\ ServedFrom(Source) /\ queue \in Seq(Call)
  BY DEF ClusterInv, ClusterTypeOK
<1>2. c \in decided /\ c \in TaskId BY <1>1, Ids DEF FinishChange, ChangesInv
<1>3. k \in Task /\ k.seen = {} /\ k.at # "append" /\ k.at \notin Working
  BY Ids DEF NewTask, Task, Steps, Ended, View, Resource, Working
<1>4. /\ task' = [task EXCEPT ![c] = k] /\ handling' = {} /\ changeHash' = changeHash + 1
      /\ UNCHANGED <<calls, log, store, routers, domains, lock, replay, ready, crashes, mode,
                     cluster, decided, applied, sending, queue>>
  BY DEF FinishChange, storage
<1>5. executor' \in [Module -> Version] /\ \A m \in Module : executor'[m] \in Source
  <2>1. CASE ToExecutor(c)
    <3>1. task[c] \in Task /\ task[c].at = "end" BY <1>1, <1>2, <2>1 DEF TypeOK, ToExecutor
    <3>2. task[c].id \in Source BY <1>1, <1>2, <3>1 DEF TasksInv, Working
    <3>3. c \in Version /\ c \in Source /\ Absent \in Source BY <1>2, Ids DEF Source
    <3>4. Effect(task[c].cmd, c) \in Version /\ Effect(task[c].cmd, c) \in Source
      BY <3>3, EffectType
    <3>5. executor' = ExecutorHas(c) BY <2>1 DEF FinishChange
    <3>6. executor' = executor \/ executor' = [executor EXCEPT ![task[c].res] = Effect(task[c].cmd, c)]
      BY <3>5 DEF ExecutorHas
    <3> QED BY <1>1, <3>4, <3>6 DEF TypeOK, ServedFrom
  <2>2. CASE ~ToExecutor(c)
    <3>1. executor' = executor BY <2>2 DEF FinishChange
    <3> QED BY <1>1, <3>1 DEF TypeOK, ServedFrom
  <2> QED BY <2>1, <2>2
<1>6. changeHash' \in Nat BY <1>1, <1>4 DEF TypeOK
<1>7. queue' \in Seq(Call) /\ queue' \in Seq(decided) BY <1>1, <1>4 DEF ChangesInv
<1> HIDE DEF k
<1> QED BY <1>2, <1>3, <1>4, <1>5, <1>6, <1>7, HandlingKeeps

LEMMA StartKeeps == ASSUME ClusterInv, SetCluster \/ SpawnProcessor PROVE ClusterInv'
<1>1. /\ UNCHANGED <<calls, log, store, routers, executor, domains, task, lock, replay, ready,
                     changeHash, crashes, mode, decided, applied, sending, queue, handling>>
      /\ cluster' \in {"off", "set", "on"}
  BY DEF SetCluster, SpawnProcessor, vars, storage, serving
<1> QED
  BY <1>1 DEF ClusterInv, ClusterTypeOK, TypeOK, OwnId, LogInv, ChangesInv, TasksInv,
              ServedFrom, Source, SeenFrom

LEMMA ClusterStutter == ASSUME ClusterInv, UNCHANGED allVars PROVE ClusterInv'
BY DEF allVars, vars, storage, serving, clusterVars, ClusterInv, ClusterTypeOK, TypeOK, OwnId,
       LogInv, ChangesInv, TasksInv, ServedFrom, Source, SeenFrom

\* What a node stores, serves and works on comes from the cluster's decisions
\* or its own changelog table (apply_changelog, process_cluster_changes,
\* restore_from_changelogs of proxy/mod.rs).
THEOREM ClusterInvariance == ClusterSpec => []ClusterInv
<1>1. ClusterInv /\ [ClusterNext]_allVars => ClusterInv'
  <2> SUFFICES ASSUME ClusterInv, [ClusterNext]_allVars PROVE ClusterInv' OBVIOUS
  <2>1. CASE UNCHANGED allVars BY <2>1, ClusterStutter
  <2>2. ASSUME NEW cmd \in {"put", "delete"}, NEW x \in Resource,
               EarlyCall(cmd, x) \/ ApplyDecided(cmd, x)
        PROVE  ClusterInv'
    BY <2>2, EarlyCallKeeps, ApplyDecidedKeeps
  <2>3. ASSUME NEW c \in Call, EarlyStep(c) \/ ApplyAgain(c) \/ SendChange(c)
        PROVE  ClusterInv'
    BY <2>3, EarlyStepKeeps, ApplyAgainKeeps, SendChangeKeeps DEF EarlyStep
  <2>4. CASE ProcessorStep
    <3>1. ASSUME NEW c \in Call, RebuildStep(c) PROVE ClusterInv'
      BY <3>1, ProcessKeeps, Ids DEF RebuildStep, Process
    <3> QED BY <2>4, <3>1, TakeChangeKeeps, FinishChangeKeeps DEF ProcessorStep
  <2>5. CASE MainStep BY <2>5, StartKeeps, BootKeeps DEF MainStep, StartStep
  <2>6. CASE NodeCrash BY <2>6, NodeCrashKeeps
  <2>7. CASE InstallSnapshot BY <2>7, InstallKeeps
  <2> QED BY <2>1, <2>2, <2>3, <2>4, <2>5, <2>6, <2>7 DEF ClusterNext
<1> QED BY <1>1, ClusterInitial, PTL DEF ClusterSpec

\* Every variable of a cluster node keeps its type.
THEOREM ClusterTypeCorrect == ClusterSpec => []ClusterTypeOK
<1>1. ClusterInv => ClusterTypeOK BY DEF ClusterInv
<1> QED BY <1>1, ClusterInvariance, PTL

\* Nothing is stored or served on a node that the cluster has not decided and
\* its changelog table does not hold, whatever runs beside what and whenever
\* the node restarts.
THEOREM ServedIsFromKnown == ClusterSpec => []ServedIsKnown
<1>1. ClusterInv => ServedIsKnown
  BY DEF ClusterInv, ServedFrom, Source, ServedIsKnown, Known
<1> QED BY <1>1, ClusterInvariance, PTL

-----------------------------------------------------------------------------
(* A namespace that only the cluster's changes touch: the invariant.        *)

\* Who works on what: early calls and the boot task on the resources of early
\* calls or the default namespace, the processor on the change it handles.
Owned(t) ==
  /\ t \in Call /\ task[t].at \in Active => t \in Local \cup handling
  /\ t \in Local /\ task[t].at \in Active => task[t].res = calls[t].res
  /\ t = Boot /\ task[t].at \in Working =>
       \/ \E c \in log : task[t].res = calls[c].res
       \/ task[t].res = Default /\ ~NoDefault
  /\ task[t].at \in DomainSteps => task[t].res \in Domain
  /\ t \in handling =>
       /\ task[t].res = calls[t].res /\ task[t].cmd = calls[t].cmd
       /\ task[t].at \in {"namespace", "routes", "deps", "failed", "drop", "end"} \cup DomainSteps
       /\ task[t].at \in {"namespace", "routes", "deps", "failed"} => task[t].res \in Compiling
       /\ task[t].at = "drop" => task[t].res \in Namespace /\ task[t].cmd = "delete"
       /\ task[t].at = "deps" => \A x \in task[t].todo : x \in Compiling /\ NsOf[x] = Ns(t)
OwnersInv == log \cap decided = {} /\ \A t \in TaskId : Owned(t)

\* The changes in line for the processor.
InLine == sending \cup {queue[i] : i \in DOMAIN queue}
DropComing(n) == \E c \in InLine : calls[c].res = n /\ calls[c].cmd = "delete"
Coming(n) ==
  \/ \E c \in InLine : calls[c].res \in Compiling /\ NsOf[calls[c].res] = n
  \/ DropComing(n)
HandlingAt(n, steps) == \E c \in handling : NsOf[calls[c].res] = n /\ task[c].at \in steps

\* A router that exists is current, or something is on its way that rebuilds it.
RoutedInv(n) ==
  /\ \/ routers[n] = NoRouter \/ routers[n] = Compiled(n) \/ Coming(n)
     \/ HandlingAt(n, {"drop", "namespace", "routes", "deps"})
  /\ store[n] = Absent => routers[n] = NoRouter \/ DropComing(n) \/ HandlingAt(n, {"drop"})
  /\ HandlingAt(n, {"routes", "deps"}) => store[n] # Absent \/ DropComing(n)
  /\ \A c \in handling : NsOf[calls[c].res] = n /\ task[c].at = "deps" =>
       Coming(n) \/ task[c].seen \cup Stored(task[c].todo) = Compiled(n)

SharedInv == \A n \in Namespace : Shared(n) => RoutedInv(n)

-----------------------------------------------------------------------------
(* Under Raft.                                                              *)

\* Changes are applied in the order decided, and sent one at a time.
OrderInv ==
  /\ \A a \in applied, d \in decided \ applied : a < d
  /\ \A s, z \in sending : s = z

\* As long as a change about a resource is in line or in work, what is stored came
\* with it or with one behind it.
Brings(c, x) == calls[c].res = x /\ store[x] = Effect(calls[c].cmd, c)
LineInv(n) ==
  \A x \in Resource : NsOf[x] = n =>
    /\ \A c \in sending : calls[c].res = x => Brings(c, x)
    /\ \A i \in DOMAIN queue : calls[queue[i]].res = x =>
         \/ \E c \in sending : Brings(c, x)
         \/ \E j \in DOMAIN queue : i <= j /\ Brings(queue[j], x)
    /\ \A c \in handling : calls[c].res = x =>
         Brings(c, x) \/ \E d \in InLine : Brings(d, x)

\* The last of a set of changes about x leaves v.
Last(x, S, v) ==
  \E l \in About(x, S) : v = Effect(calls[l].cmd, l) /\ \A d \in About(x, S) : d <= l

\* What is stored was put by a change: the last one applied since the start, or the
\* last snapshot, if any was.
ReplicaInv(n) ==
  \A x \in Resource : NsOf[x] = n =>
    /\ store[x] # Absent =>
         store[x] \in About(x, decided) /\ calls[store[x]].cmd = "put"
    /\ About(x, applied) # {} => Last(x, applied, store[x])

\* A namespace that was made before anything in it and is never deleted.
Clean(n) ==
  /\ Shared(n)
  /\ \A c \in About(n, decided) : calls[c].cmd = "put" /\ Earliest(c, Members(n))
  /\ Members(n) # {} => About(n, decided) # {}

\* Nothing is stored in such a namespace, nor handled, before itself.
MadeInv(n) ==
  store[n] = Absent =>
    /\ \A x \in Resource : NsOf[x] = n => store[x] = Absent
    /\ \A c \in Backlog : NsOf[calls[c].res] # n

\* The executor has the code that is stored, or a change that brings it is on its way.
HasCode(m) ==
  \/ executor[m] = store[m] \/ About(m, Backlog) # {}
  \/ executor[m] = Absent /\ store[m] \in decided \ applied

\* What is served with code the executor does not have has a change on its way.
Follows(V, n) ==
  \A p \in V : p[1] \in Module \ Broken =>
    /\ NsOf[p[1]] = n /\ p[2] \in About(p[1], decided) /\ calls[p[2]].cmd = "put"
    /\ executor[p[1]] = p[2] \/ p[2] \in Pending
Newest(V, c) == \A p \in V : p[1] = calls[c].res => p[2] = c \/ p[2] \in InLine

CodeOfInv(n) ==
  /\ ~HandlingAt(n, {"failed"})
  /\ \A m \in Module \ Broken : NsOf[m] = n => HasCode(m)
  /\ routers[n] # NoRouter => Follows(routers[n], n)
  /\ \A c \in handling : NsOf[calls[c].res] = n =>
       /\ task[c].at = "deps" => Follows(task[c].seen, n) /\ Newest(task[c].seen, c)
       /\ task[c].at = "end" /\ calls[c].res \in Module /\ routers[n] # NoRouter =>
            Newest(routers[n], c)

\* Once every change that calls for a router is applied, the router is current or
\* will be.
Calling(n) == {c \in decided : calls[c].res \in Compiling /\ NsOf[calls[c].res] = n}
Through(n) == Calling(n) # {} /\ Calling(n) \subseteq applied
BuiltInv(n) ==
  Through(n) =>
    routers[n] = Compiled(n) \/ Coming(n) \/ HandlingAt(n, {"namespace", "routes", "deps"})

\* A stored domain is resolved, or a change about it is on its way.
DomainComing(d) ==
  \E c \in (decided \ applied) \cup InLine : calls[c].res = d
ResolvedInv(n) ==
  \A d \in Domain : NsOf[d] = n /\ store[d] # Absent =>
    /\ \/ <<d, store[d]>> \in domains \/ DomainComing(d)
       \/ \E c \in handling : task[c].at \in DomainSteps
    /\ \A c \in handling : task[c].at = "resolve" =>
         <<d, store[d]>> \in task[c].seen \/ DomainComing(d)

RaftInv ==
  mode = "raft" =>
    /\ OrderInv
    /\ \A n \in Namespace : Shared(n) => ReplicaInv(n) /\ LineInv(n)
    /\ \A n \in Namespace : Clean(n) =>
         /\ MadeInv(n) /\ CodeOfInv(n) /\ BuiltInv(n)
         /\ SharedDomains => ResolvedInv(n)

-----------------------------------------------------------------------------
(* Who works on what.                                                       *)

\* A step of a change touches nothing outside the namespace of its resource but the domains.
LEMMA ProcessTouches ==
  ASSUME TypeOK, NEW t \in TaskId, Process(t)
  PROVE  /\ \A x \in Resource : NsOf[x] # Ns(t) => store'[x] = store[x]
         /\ \A n \in Namespace \ {Ns(t)} : routers'[n] = routers[n]
         /\ \A m \in Module : NsOf[m] # Ns(t) => executor'[m] = executor[m]
         /\ domains' = domains \/ task[t].at \in DomainSteps
         /\ task'[t].at \in DomainSteps => task[t].at \in DomainSteps \/ task[t].res \in Domain
<1> USE DEF TypeOK, storage, serving
<1>e. task[t] \in Task /\ task[t].res \in Resource /\ DOMAIN routers = Namespace
  BY DEF Task
<1>f. \A at \in Steps : Moves(t, at) => task'[t].at = at
  BY MovesType
<1>g. Fails(t) => task'[t].at \in {"end", "failed"}
  BY <1>f DEF Fails, Steps, Ended
<1>d. "end" \notin DomainSteps /\ "failed" \notin DomainSteps
  BY DEF DomainSteps
<1>1. CASE WriteStore(t)
  <2>1. store' = [store EXCEPT ![task[t].res] = Effect(task[t].cmd, task[t].id)]
        /\ UNCHANGED <<routers, executor, domains>>
    BY <1>1 DEF WriteStore
  <2>2. \A x \in Resource : NsOf[x] # Ns(t) => store'[x] = store[x]
    BY <2>1 DEF Ns
  <2>3. task'[t].at \in DomainSteps => task[t].res \in Domain
    <3>1. task'[t].at = After(task[t].cmd, task[t].res)
      <4>1. After(task[t].cmd, task[t].res) \in Steps
        BY <1>e, AfterType DEF Steps
      <4> QED BY <1>1, <1>f, <4>1 DEF WriteStore
    <3> QED BY <1>e, <3>1 DEF After, Resource, DomainSteps
  <2> QED BY <2>1, <2>2, <2>3
<1>2. CASE DropRouter(t)
  <2>1. /\ routers' = [routers EXCEPT ![task[t].res] = NoRouter] /\ task'[t].at = "end"
        /\ UNCHANGED <<store, executor, domains>>
    BY <1>2, <1>f DEF DropRouter, Steps
  <2>2. \A n \in Namespace \ {Ns(t)} : routers'[n] = routers[n]
    BY <1>e, <2>1 DEF Ns
  <2> QED BY <2>1, <2>2, <1>d
<1>3. CASE UpdateExecutor(t)
  <2>1. /\ \/ executor' = executor
           \/ executor' = [executor EXCEPT ![task[t].res] = Effect(task[t].cmd, task[t].id)]
        /\ UNCHANGED <<store, routers, domains>>
        /\ task'[t].at \in {"end", "failed", "namespace"}
    BY <1>3, <1>f, <1>g DEF UpdateExecutor, Steps
  <2>2. \A m \in Module : NsOf[m] # Ns(t) => executor'[m] = executor[m]
    BY <2>1 DEF Ns
  <2> QED BY <2>1, <2>2, <1>d DEF DomainSteps
<1>4. CASE ReadNamespace(t)
  <2>1. UNCHANGED <<store, routers, executor, domains>> /\ task'[t].at \in {"end", "failed", "routes"}
    BY <1>4, <1>f, <1>g DEF ReadNamespace, Steps
  <2> QED BY <2>1 DEF DomainSteps
<1>5. CASE ReadRoutes(t)
  <2>1. task'[t].at = "deps"
    BY <1>5, <1>e DEF ReadRoutes, Task
  <2> QED BY <1>5, <2>1 DEF ReadRoutes, DomainSteps
<1>6. ASSUME NEW x \in Resource, ReadDependency(t, x) \/ Resolve(t, x)
      PROVE  /\ UNCHANGED <<store, routers, executor, domains>>
             /\ task'[t].at = task[t].at
  BY <1>6, <1>e DEF ReadDependency, Resolve, Task
<1>7. CASE InsertRouter(t)
  <2>1. /\ routers' = [routers EXCEPT ![Ns(t)] = task[t].seen] /\ task'[t].at = "end"
        /\ UNCHANGED <<store, executor, domains>>
    BY <1>7, <1>f DEF InsertRouter, Steps
  <2>2. \A n \in Namespace \ {Ns(t)} : routers'[n] = routers[n]
    BY <1>e, <2>1
  <2> QED BY <2>1, <2>2, <1>d
<1>8. CASE ReadDomains(t)
  <2>1. task[t].at = "domains" /\ UNCHANGED <<store, routers, executor, domains>>
    BY <1>8 DEF ReadDomains
  <2> QED BY <2>1 DEF DomainSteps
<1>9. CASE InsertDomains(t)
  <2>1. task[t].at = "resolve" /\ UNCHANGED <<store, routers, executor>>
    BY <1>9 DEF InsertDomains
  <2> QED BY <2>1 DEF DomainSteps
<1> QED
  BY <1>1, <1>2, <1>3, <1>4, <1>5, <1>6, <1>7, <1>8, <1>9 DEF Process, Rebuild

\* What the processor does to its task.
LEMMA RebuildMoves ==
  ASSUME TypeOK, NEW t \in TaskId, DropRouter(t) \/ Rebuild(t),
         task[t].at \in {"namespace", "routes", "deps", "failed"} => task[t].res \in Compiling,
         task[t].at \in DomainSteps => task[t].res \in Domain,
         task[t].at = "deps" => \A x \in task[t].todo : x \in Compiling /\ NsOf[x] = Ns(t)
  PROVE  /\ task[t].at \in {"drop", "namespace", "routes", "deps"} \cup DomainSteps
         /\ task'[t].at \in {"namespace", "routes", "deps", "failed", "end"} \cup DomainSteps
         /\ task'[t].at \in {"namespace", "routes", "deps", "failed"} => task[t].res \in Compiling
         /\ task'[t].cmd = task[t].cmd
         /\ task'[t].at = "deps" => \A x \in task'[t].todo : x \in Compiling /\ NsOf[x] = Ns(t)
<1> USE DEF TypeOK, DomainSteps
<1>e. task[t] \in Task /\ Ns(t) \in Namespace
  BY NsType
<1>f. \A at \in Steps : Moves(t, at) => task'[t].at = at /\ task'[t].cmd = task[t].cmd
  BY MovesType
<1>g. Fails(t) => task'[t].at \in {"end", "failed"} /\ task'[t].cmd = task[t].cmd
  BY <1>f DEF Fails, Steps, Ended
<1>1. CASE DropRouter(t)
  BY <1>1, <1>f DEF DropRouter, Steps
<1>2. CASE ReadNamespace(t)
  BY <1>2, <1>f, <1>g DEF ReadNamespace, Steps
<1>3. CASE ReadRoutes(t)
  <2>1. /\ task[t].at = "routes" /\ task'[t].at = "deps" /\ task'[t].cmd = task[t].cmd
        /\ task'[t].todo = Named(Stored({r \in Route : NsOf[r] = Ns(t)}))
    BY <1>3, <1>e DEF ReadRoutes, Task
  <2> QED BY <1>e, <2>1, NamedOfNs DEF Compiling
<1>4. ASSUME NEW x \in Resource, ReadDependency(t, x) \/ Resolve(t, x)
      PROVE  /\ task[t].at \in {"deps", "resolve"} /\ task'[t].at = task[t].at
             /\ task'[t].cmd = task[t].cmd /\ task'[t].todo \subseteq task[t].todo
  BY <1>4, <1>e DEF ReadDependency, Resolve, Task
<1>5. CASE InsertRouter(t)
  BY <1>5, <1>f DEF InsertRouter, Steps
<1>6. CASE ReadDomains(t)
  <2>1. task[t].at = "domains" /\ task'[t].at = "resolve" /\ task'[t].cmd = task[t].cmd
    BY <1>6, <1>e DEF ReadDomains, Task
  <2> QED BY <2>1
<1>7. CASE InsertDomains(t)
  BY <1>7, <1>f DEF InsertDomains, Steps
<1> QED
  BY <1>1, <1>2, <1>3, <1>4, <1>5, <1>6, <1>7 DEF Rebuild

\* A task that does not move is owned as before.
LEMMA OwnedStays ==
  ASSUME LogInv, NEW u \in TaskId, Owned(u), task'[u] = task[u],
         \A c \in DOMAIN calls : calls'[c] = calls[c] /\ (c \in Local' <=> c \in Local),
         u \in Local' => u \in Local, log \subseteq log', u \in handling' <=> u \in handling,
         handling \subseteq DOMAIN calls
  PROVE  Owned(u)'
<1>1. u \in Local \cup handling => u \in Local' \cup handling'
  BY DEF Local
<1>2. u \in Local' \cup handling' => calls'[u] = calls[u]
  BY DEF Local
<1>3. (\E c \in log : task[u].res = calls[c].res) => \E c \in log' : task'[u].res = calls'[c].res
  BY DEF LogInv
<1>4. Ns(u)' = Ns(u)
  BY DEF Ns
<1> QED BY <1>1, <1>2, <1>3, <1>4 DEF Owned

LEMMA OwnersInit == ClusterInit => OwnersInv
<1> SUFFICES ASSUME ClusterInit PROVE OwnersInv OBVIOUS
<1>1. log = {} /\ handling = {} /\ calls = <<>>
  BY DEF ClusterInit, Init
<1>2. \A t \in TaskId : task[t].at \in {"list", "idle"}
  BY DEF ClusterInit, Init, NewTask
<1> QED BY <1>1, <1>2 DEF OwnersInv, Owned, Active, Working, DomainSteps

\* Steps that give no task anything to do.
LEMMA OwnersQuiet ==
  ASSUME ClusterInv, OwnersInv, UNCHANGED <<task, log, handling>>,
         \A c \in DOMAIN calls : calls'[c] = calls[c], Local' = Local, log \cap decided' = {}
  PROVE  OwnersInv'
<1>1. LogInv /\ handling \subseteq DOMAIN calls
  BY DEF ClusterInv, ChangesInv
<1>2. \A u \in TaskId : Owned(u)'
  BY <1>1, OwnedStays DEF OwnersInv
<1> QED BY <1>2 DEF OwnersInv

\* A step in which one task moves.
LEMMA OwnersOne ==
  ASSUME ClusterInv, OwnersInv, NEW t \in TaskId, Owned(t)', \A u \in TaskId \ {t} : task'[u] = task[u],
         \A c \in DOMAIN calls : calls'[c] = calls[c] /\ (c \in Local' <=> c \in Local),
         Local' \subseteq Local \cup {t}, log \subseteq log', log' \cap decided' = {},
         \A u \in TaskId \ {t} : u \in handling' <=> u \in handling
  PROVE  OwnersInv'
<1>1. LogInv /\ handling \subseteq DOMAIN calls
  BY DEF ClusterInv, ChangesInv
<1>2. ASSUME NEW u \in TaskId \ {t} PROVE Owned(u)'
  BY <1>1, <1>2, OwnedStays DEF OwnersInv
<1> QED BY <1>2 DEF OwnersInv

LEMMA OwnersEarlyCall ==
  ASSUME ClusterInv, OwnersInv, NEW cmd \in {"put", "delete"}, NEW x \in Resource, EarlyCall(cmd, x)
  PROVE  OwnersInv'
<1>0. SUFFICES ASSUME NEW c \in Call, c = Len(calls) + 1 PROVE OwnersInv'
  BY DEF EarlyCall, Begin
<1>1. TypeOK /\ ChangesInv /\ TasksInv BY DEF ClusterInv, ClusterTypeOK
<1>2. Begin(cmd, x) /\ UNCHANGED clusterVars BY DEF EarlyCall
<1>3. c \in Call /\ c \in TaskId /\ c # Boot /\ c \notin DOMAIN calls /\ DOMAIN calls' = DOMAIN calls \cup {c}
  BY <1>0, <1>1, <1>2, Ids DEF Begin, TypeOK
<1>4. task[c] \in Task BY <1>1, <1>3 DEF TypeOK
<1>5. /\ task'[c].at = "append" /\ task'[c].res = x
      /\ \A u \in TaskId \ {c} : task'[u] = task[u]
      /\ calls'[c].res = x /\ \A d \in DOMAIN calls : calls'[d] = calls[d]
  BY <1>0, <1>1, <1>2, <1>3, <1>4 DEF Begin, TypeOK, Task
<1>6. UNCHANGED <<log, decided, handling>> /\ log \cap decided = {}
  BY <1>2 DEF Begin, storage, clusterVars, OwnersInv
<1>7. Local' = Local \cup {c} /\ c \notin handling
  BY <1>1, <1>3, <1>6 DEF Local, ChangesInv
<1>8. Owned(c)'
  BY <1>3, <1>5, <1>6, <1>7 DEF Owned, Active, Working, DomainSteps
<1>9. \A d \in DOMAIN calls : d \in Local' <=> d \in Local
  BY <1>3, <1>7
<1> QED BY <1>3, <1>5, <1>6, <1>7, <1>8, <1>9, OwnersOne

LEMMA OwnersEarlyStep ==
  ASSUME ClusterInv, OwnersInv, NEW c \in Call, EarlyStep(c)
  PROVE  OwnersInv'
<1>1. TypeOK /\ ChangesInv /\ TasksInv /\ OwnId BY DEF ClusterInv, ClusterTypeOK
<1>2. CallStep(c) /\ c \notin decided /\ c \notin handling /\ c \in TaskId /\ c # Boot
      /\ UNCHANGED <<decided, handling>> /\ log \cap decided = {}
  BY <1>1, Ids DEF EarlyStep, ChangesInv, clusterVars, OwnersInv
<1>3. Owned(c) BY <1>2 DEF OwnersInv
<1>4. ASSUME UNCHANGED calls, \A u \in TaskId \ {c} : task'[u] = task[u], log \subseteq log',
             log' \subseteq log \cup {c}, task'[c].res = task[c].res, 
             task'[c].at \in Active => task[c].at \in Active,
             task'[c].at \in DomainSteps => task[c].res \in Domain
      PROVE  OwnersInv'
  <2>1. Local' = Local BY <1>2, <1>4 DEF Local
  <2>2. Owned(c)' BY <1>2, <1>3, <1>4, <2>1 DEF Owned
  <2> QED BY <1>2, <1>4, <2>1, <2>2, OwnersOne
<1>5. CASE AppendChangelog(c)
  <2>1. task[c].at = "append" /\ task[c].id = c BY <1>1, <1>5 DEF AppendChangelog, OwnId
  <2>2. /\ task'[c].at = "store" /\ task'[c].res = task[c].res
        /\ \A u \in TaskId \ {c} : task'[u] = task[u]
    BY <1>1, <1>2, <1>5, MovesType DEF AppendChangelog, TypeOK, Steps
  <2>3. UNCHANGED calls /\ log' = log \cup {c} BY <1>5, <2>1 DEF AppendChangelog
  <2> QED BY <1>4, <2>1, <2>2, <2>3 DEF Active, Working, DomainSteps
<1>6. CASE Process(c)
  <2>1. task[c].at \in Working /\ task'[c].res = task[c].res /\ UNCHANGED <<calls, log>>
        /\ \A u \in TaskId \ {c} : task'[u] = task[u]
    BY <1>1, <1>2, <1>6, ProcessFrame
  <2>2. task'[c].at \in DomainSteps => task[c].res \in Domain
    BY <1>1, <1>2, <1>3, <1>6, ProcessTouches DEF Owned
  <2> QED BY <1>4, <2>1, <2>2 DEF Active
<1>7. CASE Acknowledge(c)
  <2>1. /\ task'[c].at = "done" /\ task'[c].res = task[c].res
        /\ \A u \in TaskId \ {c} : task'[u] = task[u]
    BY <1>1, <1>2, <1>7, MovesType DEF Acknowledge, TypeOK, Steps, Ended
  <2>2. UNCHANGED <<calls, log>> BY <1>7 DEF Acknowledge, storage
  <2> QED BY <1>4, <2>1, <2>2 DEF Active, Working, DomainSteps
<1> QED BY <1>2, <1>5, <1>6, <1>7 DEF CallStep

LEMMA OwnersBoot ==
  ASSUME ClusterInv, OwnersInv, BootStep, UNCHANGED clusterVars
  PROVE  OwnersInv'
<1>1. TypeOK /\ ChangesInv /\ LogInv BY DEF ClusterInv, ClusterTypeOK
<1>2. Boot \in TaskId /\ Boot \notin Call /\ Boot \notin handling /\ Boot \notin Local
      /\ UNCHANGED <<decided, handling>> /\ task[Boot] \in Task /\ log \cap decided = {}
  BY <1>1, Ids DEF OwnersInv, ClusterInv, ClusterTypeOK, clusterVars, Local, TypeOK, Call
<1>3. Owned(Boot) BY <1>2 DEF OwnersInv
<1>4. ASSUME UNCHANGED <<calls, log>>, \A u \in TaskId \ {Boot} : task'[u] = task[u],
             task'[Boot].at \in Working =>
               \/ \E d \in log : task'[Boot].res = calls[d].res
               \/ task'[Boot].res = Default /\ ~NoDefault,
             task'[Boot].at \in DomainSteps => task'[Boot].res \in Domain
      PROVE  OwnersInv'
  <2>1. Local' = Local BY <1>2, <1>4 DEF Local
  <2>2. Owned(Boot)' BY <1>2, <1>4, <2>1 DEF Owned
  <2> QED BY <1>2, <1>4, <2>1, <2>2, OwnersOne
<1>5. ASSUME NEW at \in Steps, Moves(Boot, at)
      PROVE  task'[Boot].at = at /\ \A u \in TaskId \ {Boot} : task'[u] = task[u]
  BY <1>1, <1>2, <1>5, MovesType DEF TypeOK
<1>6. CASE BootList \/ BootReplayed \/ BootOpen
  <2>1. UNCHANGED <<calls, log>> /\ \E at \in {"next", "open", "up"} : Moves(Boot, at)
    BY <1>6 DEF BootList, BootReplayed, BootOpen, storage
  <2> QED BY <1>4, <1>5, <2>1 DEF Steps, Working, DomainSteps
<1>7. CASE BootDefault
  <2>1. UNCHANGED <<calls, log>> BY <1>7 DEF BootDefault
  <2>2. CASE ~NoDefault /\ store[Default] = Absent
    <3>1. task' = [task EXCEPT ![Boot].at = "namespace", ![Boot].id = Builtin, ![Boot].res = Default]
      BY <1>7, <2>2 DEF BootDefault
    <3>2. task'[Boot].res = Default /\ task'[Boot].at = "namespace"
          /\ \A u \in TaskId \ {Boot} : task'[u] = task[u]
      BY <1>1, <1>2, <3>1 DEF TypeOK, Task
    <3> QED BY <1>4, <2>1, <2>2, <3>2 DEF DomainSteps
  <2>3. CASE ~(~NoDefault /\ store[Default] = Absent)
    <3>1. Moves(Boot, "open") BY <1>7, <2>3 DEF BootDefault
    <3> QED BY <1>4, <1>5, <2>1, <3>1 DEF Steps, Working, DomainSteps
  <2> QED BY <2>2, <2>3
<1>8. CASE Process(Boot)
  <2>1. task[Boot].at \in Working /\ task'[Boot].res = task[Boot].res /\ UNCHANGED <<calls, log>>
        /\ \A u \in TaskId \ {Boot} : task'[u] = task[u]
    BY <1>1, <1>2, <1>8, ProcessFrame
  <2>2. task'[Boot].at \in DomainSteps => task[Boot].res \in Domain
    BY <1>1, <1>2, <1>3, <1>8, ProcessTouches DEF Owned
  <2>3. \/ \E d \in log : task'[Boot].res = calls[d].res
        \/ task'[Boot].res = Default /\ ~NoDefault
    BY <1>3, <2>1 DEF Owned
  <2> QED BY <1>4, <2>1, <2>2, <2>3
<1>9. ASSUME NEW c \in Call, BootReplay(c) PROVE OwnersInv'
  <2>1. c \in log /\ UNCHANGED <<calls, log>> BY <1>1, <1>9 DEF BootReplay, LogInv, storage
  <2>2. /\ task'[Boot].at = "store" /\ task'[Boot].res = calls[c].res
        /\ \A u \in TaskId \ {Boot} : task'[u] = task[u]
    BY <1>1, <1>2, <1>9 DEF BootReplay, TypeOK, Task
  <2> QED BY <1>4, <2>1, <2>2 DEF DomainSteps
<1> QED BY <1>6, <1>7, <1>8, <1>9 DEF BootStep

\* A change is decided by the cluster and applied, or applied again.
LEMMA DecidedFrame ==
  ASSUME ClusterInv, NEW cmd \in {"put", "delete"}, NEW x \in Resource, ApplyDecided(cmd, x)
  PROVE  \E c \in Call :
           /\ c \notin DOMAIN calls /\ \A d \in DOMAIN calls : d < c
           /\ DOMAIN calls' = DOMAIN calls \cup {c}
           /\ calls'[c] = [cmd |-> cmd, res |-> x] /\ \A d \in DOMAIN calls : calls'[d] = calls[d]
           /\ decided' = decided \cup {c} /\ InTurn(c) /\ Local' = Local
           /\ Stores(c, cmd, x)
<1> DEFINE c == Len(calls) + 1
<1>1. TypeOK /\ ChangesInv BY DEF ClusterInv, ClusterTypeOK
<1>2. Len(calls) \in Nat /\ DOMAIN calls = 1..Len(calls) BY <1>1 DEF TypeOK
<1>3. c <= MaxCalls
  <2>1. IsFiniteSet(DOMAIN calls) BY <1>2, FS_Interval
  <2>2. IsFiniteSet(Local) /\ Cardinality(Local) \in Nat
    BY <2>1, FS_Subset, FS_CardinalityType DEF Local
  <2> QED BY <1>2, <2>2 DEF ApplyDecided, Load
<1>4. c \in Call /\ c \notin DOMAIN calls /\ \A d \in DOMAIN calls : d < c
  BY <1>2, <1>3 DEF Call
<1>5. calls' = Append(calls, [cmd |-> cmd, res |-> x]) /\ decided' = decided \cup {c}
      /\ Stores(c, cmd, x) /\ InTurn(c)
  BY DEF ApplyDecided
<1>6. /\ DOMAIN calls' = DOMAIN calls \cup {c}
      /\ calls'[c] = [cmd |-> cmd, res |-> x] /\ \A d \in DOMAIN calls : calls'[d] = calls[d]
  BY <1>1, <1>2, <1>5 DEF TypeOK
<1> HIDE DEF c
<1>7. Local' = Local
  BY <1>4, <1>5, <1>6 DEF Local
<1> QED BY <1>4, <1>5, <1>6, <1>7

LEMMA OwnersApply ==
  ASSUME ClusterInv, OwnersInv, NEW cmd \in {"put", "delete"}, NEW x \in Resource, ApplyDecided(cmd, x)
  PROVE  OwnersInv'
<1>1. PICK c \in Call :
        /\ c \notin DOMAIN calls /\ \A d \in DOMAIN calls : calls'[d] = calls[d]
        /\ decided' = decided \cup {c} /\ Local' = Local /\ Stores(c, cmd, x)
  BY DecidedFrame
<1>2. UNCHANGED <<task, log, handling>> BY <1>1 DEF Stores
<1>3. log \cap decided' = {} BY <1>1 DEF OwnersInv, ClusterInv, LogInv
<1> QED BY <1>1, <1>2, <1>3, OwnersQuiet

LEMMA OwnersAgain ==
  ASSUME ClusterInv, OwnersInv, \/ \E c \in Call : ApplyAgain(c) \/ SendChange(c)
                                \/ SetCluster \/ SpawnProcessor
                                \/ InstallSnapshot \/ UNCHANGED allVars
  PROVE  OwnersInv'
<1>1. UNCHANGED <<calls, task, log, handling, decided>>
  BY InstallFrame
     DEF ApplyAgain, Stores, SendChange, SetCluster, SpawnProcessor, allVars, vars, clusterVars, storage
<1>2. Local' = Local /\ log \cap decided = {} BY <1>1 DEF Local, OwnersInv
<1> QED BY <1>1, <1>2, OwnersQuiet

LEMMA OwnersTake == ASSUME ClusterInv, OwnersInv, TakeChange PROVE OwnersInv'
<1>1. TypeOK /\ ChangesInv BY DEF ClusterInv, ClusterTypeOK
<1>2. SUFFICES ASSUME NEW c \in decided, c = Head(queue) PROVE OwnersInv'
  BY <1>1 DEF TakeChange, ChangesInv
<1>3. c \in DOMAIN calls /\ c \in Call /\ c \in TaskId /\ c # Boot /\ c \notin Local
      /\ calls[c] \in Change
  BY <1>1, Ids DEF ChangesInv, TypeOK, Call, Local
<1>4. /\ task' = [task EXCEPT ![c] = WorkOn(c)] /\ handling' = {c} /\ handling = {}
      /\ UNCHANGED <<calls, log, decided>>
  BY <1>2 DEF TakeChange, storage
<1>5. task'[c] = WorkOn(c) /\ \A u \in TaskId \ {c} : task'[u] = task[u]
  BY <1>1, <1>3, <1>4 DEF TypeOK
<1>6. Local' = Local BY <1>4 DEF Local
<1>7. /\ task'[c].at = FirstStep(calls[c].cmd, calls[c].res)
      /\ task'[c].res = calls[c].res /\ task'[c].cmd = calls[c].cmd
  BY <1>5 DEF WorkOn
<1>8. /\ task'[c].at \in {"namespace", "drop", "domains", "end"}
      /\ task'[c].at = "namespace" => calls[c].res \in Compiling
      /\ task'[c].at = "drop" => calls[c].res \in Namespace /\ calls[c].cmd = "delete"
      /\ task'[c].at = "domains" => calls[c].res \in Domain
  BY <1>7 DEF FirstStep
<1>9. Owned(c)'
  BY <1>3, <1>4, <1>6, <1>7, <1>8 DEF Owned, DomainSteps
<1>10. log \cap decided = {} BY DEF OwnersInv
<1> QED BY <1>3, <1>4, <1>5, <1>6, <1>9, <1>10, OwnersOne

\* A rebuilding step of the processor.
LEMMA RebuildFrame ==
  ASSUME ClusterInv, OwnersInv, NEW c \in Call, RebuildStep(c)
  PROVE  /\ c \in TaskId /\ c \in decided /\ c \in DOMAIN calls /\ c # Boot /\ c \notin Local
         /\ handling = {c} /\ Process(c) /\ (DropRouter(c) \/ Rebuild(c))
         /\ task[c].res = calls[c].res /\ task[c].cmd = calls[c].cmd /\ Ns(c) = NsOf[calls[c].res]
         /\ task'[c].res = task[c].res /\ task'[c].cmd = task[c].cmd /\ Ns(c)' = Ns(c)
         /\ \A u \in TaskId \ {c} : task'[u] = task[u]
         /\ UNCHANGED <<calls, log, replay, ready>> /\ UNCHANGED clusterVars /\ Local' = Local
         /\ task[c].at \in {"drop", "namespace", "routes", "deps"} \cup DomainSteps
         /\ task'[c].at \in {"namespace", "routes", "deps", "failed", "end"} \cup DomainSteps
         /\ task'[c].at \in {"namespace", "routes", "deps", "failed"} => task[c].res \in Compiling
         /\ task'[c].at = "deps" => \A x \in task'[c].todo : x \in Compiling /\ NsOf[x] = Ns(c)
         /\ task'[c].at \in DomainSteps => task[c].res \in Domain
         /\ Ns(c) \in Namespace /\ task[c].res \in Resource
<1>1. TypeOK /\ ChangesInv BY DEF ClusterInv, ClusterTypeOK
<1>2. /\ c \in TaskId /\ c \in decided /\ c \in DOMAIN calls /\ c # Boot /\ c \notin Local
      /\ handling = {c}
  BY <1>1, Ids DEF RebuildStep, ChangesInv, Local
<1>3. Owned(c) BY <1>2 DEF OwnersInv
<1>4. Process(c) /\ (DropRouter(c) \/ Rebuild(c)) /\ UNCHANGED clusterVars
  BY DEF RebuildStep, Process
<1>5. /\ task[c].res = calls[c].res /\ task[c].cmd = calls[c].cmd /\ Ns(c) = NsOf[calls[c].res]
      /\ task[c].at \in {"namespace", "routes", "deps", "failed"} => task[c].res \in Compiling
      /\ task[c].at = "deps" => \A x \in task[c].todo : x \in Compiling /\ NsOf[x] = Ns(c)
      /\ task[c].at \in DomainSteps => task[c].res \in Domain
  BY <1>2, <1>3 DEF Owned, Ns
<1>6. /\ task'[c].res = task[c].res /\ UNCHANGED <<calls, log, replay, ready>>
      /\ \A u \in TaskId \ {c} : task'[u] = task[u]
  BY <1>1, <1>2, <1>4, ProcessFrame
<1>7. Local' = Local /\ Ns(c)' = Ns(c) BY <1>4, <1>6 DEF Local, clusterVars, Ns
<1>8. /\ task[c].at \in {"drop", "namespace", "routes", "deps"} \cup DomainSteps
      /\ task'[c].at \in {"namespace", "routes", "deps", "failed", "end"} \cup DomainSteps
      /\ task'[c].at \in {"namespace", "routes", "deps", "failed"} => task[c].res \in Compiling
      /\ task'[c].cmd = task[c].cmd
      /\ task'[c].at = "deps" => \A x \in task'[c].todo : x \in Compiling /\ NsOf[x] = Ns(c)
  BY <1>1, <1>2, <1>4, <1>5, RebuildMoves
<1>9. task'[c].at \in DomainSteps => task[c].res \in Domain
  BY <1>1, <1>2, <1>4, <1>5, ProcessTouches
<1>10. Ns(c) \in Namespace /\ task[c].res \in Resource
  BY <1>1, <1>2, NsType DEF TypeOK, Task
<1> QED BY <1>2, <1>4, <1>5, <1>6, <1>7, <1>8, <1>9, <1>10

LEMMA OwnersRebuild ==
  ASSUME ClusterInv, OwnersInv, NEW c \in Call, RebuildStep(c) PROVE OwnersInv'
<1>1. UNCHANGED <<decided, handling>> BY DEF RebuildStep, clusterVars
<1>2. Owned(c)' BY <1>1, RebuildFrame DEF Owned, DomainSteps
<1>3. log \cap decided = {} BY DEF OwnersInv
<1> QED BY <1>1, <1>2, <1>3, RebuildFrame, OwnersOne

LEMMA OwnersFinish ==
  ASSUME ClusterInv, OwnersInv, NEW c \in Call, FinishChange(c) PROVE OwnersInv'
<1>1. TypeOK /\ ChangesInv BY DEF ClusterInv, ClusterTypeOK
<1>2. c \in TaskId /\ c # Boot /\ handling = {c} /\ c \in decided
  BY <1>1, Ids DEF FinishChange, ChangesInv
<1>3. task' = [task EXCEPT ![c] = NewTask("done")] /\ handling' = {} /\ UNCHANGED <<calls, log, decided>>
  BY DEF FinishChange, storage
<1>4. task'[c].at = "done" /\ \A u \in TaskId \ {c} : task'[u] = task[u]
  BY <1>1, <1>2, <1>3 DEF TypeOK, NewTask
<1>5. Local' = Local /\ log \cap decided = {} BY <1>3 DEF Local, OwnersInv
<1>6. Owned(c)' BY <1>2, <1>3, <1>4 DEF Owned, Active, Working, DomainSteps
<1> QED BY <1>2, <1>3, <1>4, <1>5, <1>6, OwnersOne

LEMMA OwnersCrash == ASSUME ClusterInv, OwnersInv, NodeCrash PROVE OwnersInv'
<1>1. TypeOK /\ TasksInv BY DEF ClusterInv, ClusterTypeOK
<1>2. Crash /\ handling' = {} /\ log' \subseteq log /\ decided' = decided
  BY DEF NodeCrash, Crash
<1>3. ASSUME NEW t \in TaskId PROVE task'[t].at \notin Active
  <2>1. \A u \in TaskId : u # Boot => u \in Call BY DEF TaskId
  <2> QED BY <1>1, <1>2, <2>1 DEF Crash, NewTask, InFlight, TasksInv, Active, Working, Ended
<1>4. \A t \in TaskId : Owned(t)' BY <1>2, <1>3 DEF Owned, Active, Working, DomainSteps
<1> QED BY <1>2, <1>4 DEF OwnersInv

LEMMA OwnersStep == ASSUME ClusterInv, OwnersInv, [ClusterNext]_allVars PROVE OwnersInv'
<1>1. CASE UNCHANGED allVars BY <1>1, OwnersAgain
<1>2. ASSUME NEW cmd \in {"put", "delete"}, NEW x \in Resource,
             EarlyCall(cmd, x) \/ ApplyDecided(cmd, x)
      PROVE  OwnersInv'
  BY <1>2, OwnersEarlyCall, OwnersApply
<1>3. ASSUME NEW c \in Call, EarlyStep(c) \/ ApplyAgain(c) \/ SendChange(c)
      PROVE  OwnersInv'
  BY <1>3, OwnersEarlyStep, OwnersAgain
<1>4. CASE ProcessorStep BY <1>4, OwnersTake, OwnersRebuild, OwnersFinish DEF ProcessorStep
<1>5. CASE MainStep BY <1>5, OwnersAgain, OwnersBoot DEF MainStep, StartStep
<1>6. CASE NodeCrash BY <1>6, OwnersCrash
<1>7. CASE InstallSnapshot BY <1>7, OwnersAgain
<1> QED BY <1>1, <1>2, <1>3, <1>4, <1>5, <1>6, <1>7 DEF ClusterNext

-----------------------------------------------------------------------------
(* Steps that leave a shared namespace alone.                               *)

Untouched(n) ==
  /\ \A x \in Resource : NsOf[x] = n => store'[x] = store[x]
  /\ \A m \in Module : NsOf[m] = n => executor'[m] = executor[m]
  /\ routers'[n] = routers[n]

\* Steps of clients' early calls, of main and of the boot task.
Alien ==
  \/ \E cmd \in {"put", "delete"}, x \in Resource : EarlyCall(cmd, x)
  \/ \E c \in Call : EarlyStep(c)
  \/ MainStep
  \/ UNCHANGED allVars

\* What is shared after a step was shared before it.
LEMMA SharedBack ==
  ASSUME Local \subseteq Local', \A c \in DOMAIN calls : calls'[c] = calls[c]
  PROVE  /\ \A n \in Namespace : Shared(n)' => Shared(n)
         /\ SharedDomains' => SharedDomains
<1>1. Local \subseteq DOMAIN calls BY DEF Local
<1> QED BY <1>1 DEF Shared, SharedDomains

\* A task that works on a resource of early calls, or on the default namespace.
LEMMA ForeignFrame ==
  ASSUME ClusterInv, OwnersInv, NEW t \in TaskId, Process(t), t \in Local \/ t = Boot
  PROVE  /\ \A n \in Namespace : Shared(n) => Untouched(n)
         /\ SharedDomains => domains' = domains
<1>1. TypeOK /\ LogInv BY DEF ClusterInv, ClusterTypeOK
<1>2. task[t].at \in Working BY <1>1, ProcessFrame
<1>3. \/ \E c \in Local : task[t].res = calls[c].res
      \/ task[t].res = Default /\ ~NoDefault
  BY <1>1, <1>2 DEF OwnersInv, Owned, Active, LogInv, Local
<1>4. ASSUME NEW n \in Namespace, Shared(n) PROVE Ns(t) # n
  <2>1. NsOf[Default] = Default BY DEF ConstantsOK
  <2> QED BY <1>3, <1>4, <2>1 DEF Shared, Ns
<1>5. ASSUME NEW n \in Namespace, Shared(n) PROVE Untouched(n)
  BY <1>1, <1>4, <1>5, ProcessTouches DEF Untouched
<1>6. ASSUME SharedDomains PROVE domains' = domains
  <2>1. task[t].at \in DomainSteps => task[t].res \in Domain BY DEF OwnersInv, Owned
  <2>2. task[t].res \notin Domain
    BY <1>3, <1>6, KindsApart DEF SharedDomains
  <2> QED BY <1>1, <2>1, <2>2, ProcessTouches
<1> QED BY <1>5, <1>6

LEMMA AlienFrame ==
  ASSUME ClusterInv, OwnersInv, Alien
  PROVE  /\ UNCHANGED <<mode, decided, applied, sending, queue, handling>>
         /\ \A c \in DOMAIN calls : calls'[c] = calls[c]
         /\ Local \subseteq Local'
         /\ \A c \in handling : task'[c] = task[c]
         /\ \A n \in Namespace : Shared(n) => Untouched(n)
         /\ SharedDomains => domains' = domains
<1> DEFINE P == /\ UNCHANGED <<mode, decided, applied, sending, queue, handling>>
                /\ \A c \in DOMAIN calls : calls'[c] = calls[c]
                /\ Local \subseteq Local'
                /\ \A c \in handling : task'[c] = task[c]
                /\ \A n \in Namespace : Shared(n) => Untouched(n)
                /\ SharedDomains => domains' = domains
<1>0. SUFFICES P OBVIOUS
<1>1. TypeOK /\ ChangesInv /\ TasksInv /\ handling \subseteq DOMAIN calls /\ handling \subseteq decided
      /\ handling \subseteq TaskId /\ Boot \notin handling
  <2>1. TypeOK /\ ChangesInv /\ TasksInv BY DEF ClusterInv, ClusterTypeOK
  <2>2. handling \subseteq Call BY DEF ClusterInv, ClusterTypeOK
  <2> QED BY <2>1, <2>2, Ids DEF ChangesInv
<1>2. ASSUME NEW cmd \in {"put", "delete"}, NEW x \in Resource, EarlyCall(cmd, x) PROVE P
  <2>1. Begin(cmd, x) /\ UNCHANGED clusterVars BY <1>2 DEF EarlyCall
  <2>2. PICK c \in Call : c = Len(calls) + 1 BY <2>1 DEF Begin
  <2>3. c \notin DOMAIN calls /\ DOMAIN calls' = DOMAIN calls \cup {c}
        /\ \A d \in DOMAIN calls : calls'[d] = calls[d]
    BY <1>1, <2>1, <2>2 DEF Begin, TypeOK
  <2>4. \A u \in TaskId \ {c} : task'[u] = task[u]
    BY <1>1, <2>1, <2>2 DEF Begin, TypeOK
  <2>5. UNCHANGED <<store, executor, routers, domains>> BY <2>1 DEF Begin, storage, serving
  <2> QED BY <1>1, <2>1, <2>3, <2>4, <2>5 DEF clusterVars, Local, Untouched
<1>3. ASSUME UNCHANGED clusterVars, UNCHANGED calls, NEW t \in TaskId, t \notin handling,
             \A u \in TaskId \ {t} : task'[u] = task[u],
             UNCHANGED <<store, executor, routers, domains>> \/ (Process(t) /\ (t \in Local \/ t = Boot))
      PROVE  P
  <2>1. /\ \A n \in Namespace : Shared(n) => Untouched(n)
        /\ SharedDomains => domains' = domains
    <3>1. CASE UNCHANGED <<store, executor, routers, domains>> BY <3>1 DEF Untouched
    <3> QED BY <1>3, <3>1, ForeignFrame
  <2> QED BY <1>1, <1>3, <2>1 DEF clusterVars, Local
<1>4. ASSUME NEW c \in Call, EarlyStep(c) PROVE P
  <2>1. CallStep(c) /\ UNCHANGED clusterVars /\ c \notin handling /\ c \in TaskId /\ c \notin decided
    BY <1>1, <1>4, Ids DEF EarlyStep
  <2>2. CASE AppendChangelog(c) \/ Acknowledge(c)
    <3>1. UNCHANGED <<calls, store, executor, routers, domains>> /\ \E at \in {"store", "done"} : Moves(c, at)
      BY <2>2 DEF AppendChangelog, Acknowledge, storage, serving
    <3>2. \A u \in TaskId \ {c} : task'[u] = task[u]
      BY <1>1, <2>1, <3>1, MovesType DEF TypeOK, Steps, Ended
    <3> QED BY <1>3, <2>1, <3>1, <3>2
  <2>3. CASE Process(c)
    <3>1. UNCHANGED calls /\ task[c].at \in Working /\ \A u \in TaskId \ {c} : task'[u] = task[u]
      BY <1>1, <2>1, <2>3, ProcessFrame
    <3>2. c \in Local BY <1>1, <2>1, <3>1 DEF OwnersInv, Owned, Active
    <3> QED BY <1>3, <2>1, <2>3, <3>1, <3>2
  <2> QED BY <2>1, <2>2, <2>3 DEF CallStep
<1>5. CASE SetCluster \/ SpawnProcessor \/ UNCHANGED allVars
  <2>1. UNCHANGED <<calls, store, executor, routers, domains, task, mode, decided, applied, sending, queue, handling>>
    BY <1>5 DEF SetCluster, SpawnProcessor, allVars, vars, clusterVars, storage, serving
  <2> QED BY <2>1 DEF Local, Untouched
<1>6. ASSUME BootStep, UNCHANGED clusterVars PROVE P
  <2>b. Boot \in TaskId BY Ids
  <2>1. CASE BootList \/ BootReplayed \/ BootOpen
    <3>1. UNCHANGED <<calls, store, executor, routers, domains>>
          /\ \E at \in {"next", "open", "up"} : Moves(Boot, at)
      BY <2>1 DEF BootList, BootReplayed, BootOpen, storage, serving
    <3>2. \A u \in TaskId \ {Boot} : task'[u] = task[u]
      BY <1>1, <2>b, <3>1, MovesType DEF TypeOK, Steps, Ended
    <3> QED BY <1>1, <1>3, <1>6, <2>b, <3>1, <3>2
  <2>2. ASSUME NEW c \in Call, BootReplay(c) PROVE P
    <3>1. UNCHANGED <<calls, store, executor, routers, domains>> BY <2>2 DEF BootReplay, storage, serving
    <3>2. \A u \in TaskId \ {Boot} : task'[u] = task[u]
      BY <1>1, <2>b, <2>2 DEF TypeOK, BootReplay
    <3> QED BY <1>1, <1>3, <1>6, <2>b, <3>1, <3>2
  <2>3. CASE Process(Boot)
    <3>1. UNCHANGED calls /\ \A u \in TaskId \ {Boot} : task'[u] = task[u]
      BY <1>1, <2>b, <2>3, ProcessFrame
    <3> QED BY <1>1, <1>3, <1>6, <2>b, <2>3, <3>1
  <2>4. CASE BootDefault
    <3>1. UNCHANGED <<calls, executor, routers, domains>> BY <2>4 DEF BootDefault, serving
    <3>2. /\ \A u \in TaskId \ {Boot} : task'[u] = task[u]
          /\ store' = store \/ (~NoDefault /\ store' = [store EXCEPT ![Default] = Builtin])
      BY <1>1, <2>b, <2>4, MovesType DEF TypeOK, BootDefault, Steps
    <3>3. ASSUME NEW n \in Namespace, Shared(n) PROVE Untouched(n)
      <4>1. NsOf[Default] = Default BY DEF ConstantsOK
      <4> QED BY <1>1, <3>1, <3>2, <3>3, <4>1 DEF Shared, Untouched, TypeOK
    <3> QED BY <1>1, <1>6, <3>1, <3>2, <3>3 DEF clusterVars, Local
  <2> QED BY <1>6, <2>1, <2>2, <2>3, <2>4 DEF BootStep
<1> HIDE DEF P
<1>7. CASE MainStep BY <1>5, <1>6, <1>7 DEF MainStep, StartStep
<1> QED BY <1>2, <1>4, <1>5, <1>7 DEF Alien

-----------------------------------------------------------------------------
(* Routers of shared namespaces.                                            *)

\* The processor handles the same changes of a namespace, at the same steps.
HandlesSame(n) ==
  /\ \A c \in handling : NsOf[calls[c].res] = n =>
       c \in handling' /\ calls'[c] = calls[c] /\ task'[c] = task[c]
  /\ \A c \in handling' : NsOf[calls'[c].res] = n => c \in handling /\ calls'[c] = calls[c]

LEMMA RoutedStays ==
  ASSUME NEW n \in Namespace, RoutedInv(n), HandlesSame(n), routers'[n] = routers[n],
         \A x \in Compiling : NsOf[x] = n => store'[x] = store[x],
         store'[n] = Absent => store[n] = Absent,
         Coming(n) => Coming(n)', DropComing(n) => DropComing(n)',
         \A c \in handling : NsOf[calls[c].res] = n /\ task[c].at = "deps" =>
           \A x \in task[c].todo : x \in Compiling /\ NsOf[x] = n
  PROVE  RoutedInv(n)'
<1>1. Compiled(n)' = Compiled(n) BY CompiledSame DEF Compiling
<1>2. \A steps : HandlingAt(n, steps) <=> HandlingAt(n, steps)'
  BY DEF HandlingAt, HandlesSame
<1>3. ASSUME NEW c \in handling', NsOf[calls'[c].res] = n, task'[c].at = "deps"
      PROVE  Coming(n)' \/ task'[c].seen \cup Stored(task[c].todo)' = Compiled(n)'
  <2>1. c \in handling /\ calls'[c] = calls[c] /\ task'[c] = task[c] BY <1>3 DEF HandlesSame
  <2>2. Coming(n) \/ task[c].seen \cup Stored(task[c].todo) = Compiled(n)
    BY <1>3, <2>1 DEF RoutedInv
  <2> DEFINE D == task[c].todo
  <2>3. D' = D /\ \A x \in D : store'[x] = store[x]
    BY <1>3, <2>1
  <2> HIDE DEF D
  <2>4. Stored(D)' = Stored(D)
    <3>1. {<<x, store[x]>> : x \in {y \in D : store[y] # Absent}}'
            = {<<x, store[x]>> : x \in {y \in D : store[y] # Absent}}
      BY <2>3
    <3> QED BY <3>1 DEF Stored
  <2>5. Stored(task[c].todo)' = Stored(task[c].todo) BY <2>4 DEF D
  <2> QED BY <1>1, <2>1, <2>2, <2>5
<1>4. \/ routers'[n] = NoRouter \/ routers'[n] = Compiled(n)' \/ Coming(n)'
      \/ HandlingAt(n, {"drop", "namespace", "routes", "deps"})'
  BY <1>1, <1>2 DEF RoutedInv
<1>5. store'[n] = Absent => routers'[n] = NoRouter \/ DropComing(n)' \/ HandlingAt(n, {"drop"})'
  BY <1>2 DEF RoutedInv
<1>6. HandlingAt(n, {"routes", "deps"})' => store'[n] # Absent \/ DropComing(n)'
  BY <1>2 DEF RoutedInv
<1> QED BY <1>3, <1>4, <1>5, <1>6 DEF RoutedInv

\* What the processor has read and will read is of the namespace it works on.
LEMMA TodoOfNs ==
  ASSUME ClusterInv, OwnersInv, NEW n \in Namespace, NEW c \in handling,
         NsOf[calls[c].res] = n, task[c].at = "deps"
  PROVE  \A x \in task[c].todo : x \in Compiling /\ NsOf[x] = n
<1>1. c \in TaskId BY Ids DEF ClusterInv, ClusterTypeOK
<1> QED BY <1>1 DEF OwnersInv, Owned, Ns

LEMMA RoutedAlien ==
  ASSUME ClusterInv, OwnersInv, Alien, NEW n \in Namespace, Shared(n), RoutedInv(n)
  PROVE  RoutedInv(n)'
<1>1. /\ UNCHANGED <<sending, queue, handling>> /\ \A c \in DOMAIN calls : calls'[c] = calls[c]
      /\ \A c \in handling : task'[c] = task[c] /\ Untouched(n)
  BY AlienFrame
<1>2. handling \subseteq DOMAIN calls /\ InLine \subseteq DOMAIN calls
  BY DEF ClusterInv, ChangesInv, InLine
<1>3. HandlesSame(n) BY <1>1, <1>2 DEF HandlesSame
<1>4. Untouched(n) BY AlienFrame
<1>5. InLine' = InLine BY <1>1 DEF InLine
<1>6. (Coming(n) => Coming(n)') /\ (DropComing(n) => DropComing(n)')
  BY <1>1, <1>2, <1>5 DEF Coming, DropComing
<1>7. n \in Resource /\ NsOf[n] = n /\ Compiling \subseteq Resource BY DEF Resource, Compiling, ConstantsOK
<1> QED BY <1>3, <1>4, <1>6, <1>7, TodoOfNs, RoutedStays DEF Untouched

\* A change of the cluster is applied: written and put in line.
LEMMA RoutedWrite ==
  ASSUME ClusterInv, OwnersInv, NEW c \in Call, NEW cmd \in {"put", "delete"}, NEW x \in Resource,
         Stores(c, cmd, x), calls'[c] = [cmd |-> cmd, res |-> x],
         \A d \in DOMAIN calls : calls'[d] = calls[d],
         NEW n \in Namespace, RoutedInv(n)
  PROVE  RoutedInv(n)'
<1>1. TypeOK /\ handling \subseteq DOMAIN calls /\ InLine \subseteq DOMAIN calls
  BY DEF ClusterInv, ClusterTypeOK, ChangesInv, InLine
<1>2. /\ store' = [store EXCEPT ![x] = Effect(cmd, c)]
      /\ UNCHANGED <<routers, task, queue, handling>> /\ sending' = sending \cup {c}
  BY DEF Stores, serving
<1>3. HandlesSame(n) BY <1>1, <1>2 DEF HandlesSame
<1>4. InLine \subseteq InLine' /\ c \in InLine' BY <1>2 DEF InLine
<1>5. (Coming(n) => Coming(n)') /\ (DropComing(n) => DropComing(n)')
  BY <1>1, <1>4 DEF Coming, DropComing
<1>6. \A steps : HandlingAt(n, steps) <=> HandlingAt(n, steps)'
  BY <1>3 DEF HandlingAt, HandlesSame
<1>7. calls'[c].cmd = cmd /\ calls'[c].res = x OBVIOUS
<1>n. n \in Resource /\ NsOf[n] = n /\ n \notin Compiling /\ Compiling \subseteq Resource
  BY KindsApart DEF Resource, Compiling, ConstantsOK
<1>8. CASE x \in Compiling /\ NsOf[x] = n
  <2>1. Coming(n)' BY <1>4, <1>7, <1>8 DEF Coming
  <2>2. store'[n] = store[n] BY <1>1, <1>2, <1>8, <1>n DEF TypeOK
  <2>3. store'[n] = Absent => routers'[n] = NoRouter \/ DropComing(n)' \/ HandlingAt(n, {"drop"})'
    BY <1>2, <1>5, <1>6, <2>2 DEF RoutedInv
  <2>4. HandlingAt(n, {"routes", "deps"})' => store'[n] # Absent \/ DropComing(n)'
    BY <1>5, <1>6, <2>2 DEF RoutedInv
  <2> QED BY <2>1, <2>3, <2>4 DEF RoutedInv
<1>9. CASE x = n /\ cmd = "delete"
  <2>1. DropComing(n)' BY <1>4, <1>7, <1>9 DEF DropComing
  <2>2. Coming(n)' BY <2>1 DEF Coming
  <2> QED BY <2>1, <2>2 DEF RoutedInv
<1>10. CASE ~(x \in Compiling /\ NsOf[x] = n) /\ ~(x = n /\ cmd = "delete")
  <2>1. \A y \in Compiling : NsOf[y] = n => store'[y] = store[y]
    BY <1>1, <1>2, <1>10, <1>n DEF TypeOK
  <2>2. store'[n] = Absent => store[n] = Absent
    <3>1. CASE x = n
      BY <1>1, <1>2, <1>10, <1>n, <3>1 DEF TypeOK, Effect, Call, Absent
    <3>2. CASE x # n BY <1>1, <1>2, <1>n, <3>2 DEF TypeOK
    <3> QED BY <3>1, <3>2
  <2> QED BY <1>2, <1>3, <1>5, <2>1, <2>2, TodoOfNs, RoutedStays
<1> QED BY <1>8, <1>9, <1>10

LEMMA RoutedSend ==
  ASSUME ClusterInv, OwnersInv, NEW c \in Call, SendChange(c), NEW n \in Namespace, RoutedInv(n)
  PROVE  RoutedInv(n)'
<1>1. UNCHANGED <<calls, store, routers, task, handling>> /\ queue \in Seq(Call)
      /\ sending' = sending \ {c} /\ c \in sending /\ queue' = Append(queue, c)
  BY DEF SendChange, vars, storage, serving, ClusterInv, ClusterTypeOK
<1>2. InLine \subseteq InLine'
  <2>1. ASSUME NEW i \in DOMAIN queue PROVE i \in DOMAIN queue' /\ queue'[i] = queue[i]
    BY <1>1, <2>1
  <2>2. Len(queue') \in DOMAIN queue' /\ queue'[Len(queue')] = c
    BY <1>1
  <2> QED BY <1>1, <2>1, <2>2 DEF InLine
<1>3. (Coming(n) => Coming(n)') /\ (DropComing(n) => DropComing(n)')
  BY <1>1, <1>2 DEF Coming, DropComing
<1>4. HandlesSame(n) BY <1>1 DEF HandlesSame
<1> QED BY <1>1, <1>3, <1>4, TodoOfNs, RoutedStays

\* The line after its head is taken.
LEMMA TakeLine ==
  ASSUME ClusterInv, TakeChange
  PROVE  LET c == Head(queue) IN
         /\ c \in decided /\ c \in InLine
         /\ InLine \subseteq InLine' \cup {c} /\ InLine' \subseteq InLine
<1>1. queue \in Seq(decided) /\ queue # <<>> /\ queue' = Tail(queue) /\ UNCHANGED sending
  BY DEF ClusterInv, ChangesInv, TakeChange
<1>2. Head(queue) \in decided /\ 1 \in DOMAIN queue /\ Head(queue) = queue[1]
  BY <1>1
<1>3. ASSUME NEW i \in DOMAIN queue PROVE i = 1 \/ (i - 1 \in DOMAIN queue' /\ queue'[i - 1] = queue[i])
  BY <1>1, <1>3
<1>4. ASSUME NEW i \in DOMAIN queue' PROVE i + 1 \in DOMAIN queue /\ queue'[i] = queue[i + 1]
  BY <1>1, <1>4
<1>5. InLine \subseteq InLine' \cup {Head(queue)} BY <1>1, <1>2, <1>3 DEF InLine
<1>6. InLine' \subseteq InLine BY <1>1, <1>4 DEF InLine
<1>7. Head(queue) \in InLine BY <1>2 DEF InLine
<1> QED BY <1>2, <1>5, <1>6, <1>7

\* The processor begins work on a change.
LEMMA TakeFrame ==
  ASSUME ClusterInv, TakeChange
  PROVE  LET c == Head(queue) IN
         /\ c \in decided /\ c \in DOMAIN calls /\ c \in Call /\ c \in TaskId /\ calls[c] \in Change
         /\ handling = {} /\ handling' = {c}
         /\ UNCHANGED <<calls, log, store, routers, executor, domains, mode, decided, applied, sending>>
         /\ task'[c] = WorkOn(c) /\ task'[c].at = FirstStep(calls[c].cmd, calls[c].res)
         /\ task'[c].seen = {}
         /\ InLine \subseteq InLine' \cup {c} /\ InLine' \subseteq InLine /\ c \in InLine
<1> DEFINE c == Head(queue)
<1>1. TypeOK /\ ChangesInv BY DEF ClusterInv, ClusterTypeOK
<1>2. /\ c \in decided /\ c \in InLine /\ InLine \subseteq InLine' \cup {c} /\ InLine' \subseteq InLine
  BY TakeLine
<1>3. /\ handling = {} /\ handling' = {c} /\ task' = [task EXCEPT ![c] = WorkOn(c)]
      /\ UNCHANGED <<calls, log, store, routers, executor, domains, mode, decided, applied, sending>>
  BY DEF TakeChange, storage, serving
<1> HIDE DEF c
<1>4. c \in DOMAIN calls /\ c \in Call /\ c \in TaskId /\ calls[c] \in Change
  BY <1>1, <1>2, Ids DEF ChangesInv, TypeOK, Call
<1>5. task'[c] = WorkOn(c) BY <1>1, <1>3, <1>4 DEF TypeOK
<1>6. task'[c].at = FirstStep(calls[c].cmd, calls[c].res) /\ task'[c].seen = {}
  BY <1>5 DEF WorkOn
<1> QED BY <1>2, <1>3, <1>4, <1>5, <1>6 DEF c

LEMMA FirstSteps ==
  ASSUME NEW cmd, NEW x
  PROVE  /\ x \in Compiling => FirstStep(cmd, x) = "namespace"
         /\ x \in Namespace /\ cmd = "delete" => FirstStep(cmd, x) = "drop"
         /\ x \in Domain => FirstStep(cmd, x) = "domains"
         /\ FirstStep(cmd, x) \in {"namespace", "drop", "domains", "end"}
         /\ FirstStep(cmd, x) = "domains" => x \in Domain
         /\ FirstStep(cmd, x) = "namespace" => x \in Compiling
<1>1. Compiling \cap (Namespace \cup Domain) = {} /\ Namespace \cap Domain = {}
  BY KindsApart DEF Compiling
<1>2. CASE x \in Compiling BY <1>1, <1>2 DEF FirstStep
<1>3. CASE x \in Namespace /\ cmd = "delete" BY <1>1, <1>3 DEF FirstStep
<1>4. CASE x \in Domain BY <1>1, <1>4 DEF FirstStep
<1>5. CASE ~(x \in Compiling \/ x \in Domain \/ (x \in Namespace /\ cmd = "delete"))
  BY <1>5 DEF FirstStep
<1> QED BY <1>2, <1>3, <1>4, <1>5

LEMMA RoutedTake ==
  ASSUME ClusterInv, OwnersInv, TakeChange, NEW n \in Namespace, RoutedInv(n)
  PROVE  RoutedInv(n)'
<1>1. SUFFICES ASSUME NEW c, c = Head(queue) PROVE RoutedInv(n)' OBVIOUS
<1>2. /\ calls[c] \in Change /\ handling = {} /\ handling' = {c} /\ UNCHANGED <<calls, store, routers>>
      /\ task'[c].at = FirstStep(calls[c].cmd, calls[c].res)
      /\ InLine \subseteq InLine' \cup {c}
  BY <1>1, TakeFrame
<1>3. DropComing(n) => DropComing(n)' \/ (calls[c].res = n /\ calls[c].cmd = "delete")
  BY <1>2 DEF DropComing
<1>4. Coming(n) => \/ Coming(n)' \/ (calls[c].res \in Compiling /\ NsOf[calls[c].res] = n)
                   \/ (calls[c].res = n /\ calls[c].cmd = "delete")
  BY <1>2, <1>3 DEF Coming
<1>n. NsOf[n] = n /\ n \notin Compiling BY KindsApart DEF Compiling, ConstantsOK
<1>5. CASE NsOf[calls[c].res] = n /\ calls[c].res \in Compiling
  <2>1. task'[c].at = "namespace" BY <1>2, <1>5, FirstSteps
  <2>2. HandlingAt(n, {"drop", "namespace", "routes", "deps"})' BY <1>2, <1>5, <2>1 DEF HandlingAt
  <2>3. ~HandlingAt(n, {"routes", "deps"})' BY <1>2, <2>1 DEF HandlingAt
  <2>4. ~HandlingAt(n, {"drop"}) BY <1>2 DEF HandlingAt
  <2>5. DropComing(n) => DropComing(n)' BY <1>3, <1>5, <1>n
  <2>6. store'[n] = Absent => routers'[n] = NoRouter \/ DropComing(n)'
    BY <1>2, <2>4, <2>5 DEF RoutedInv
  <2> QED BY <1>2, <2>1, <2>2, <2>3, <2>6 DEF RoutedInv
<1>6. CASE calls[c].res = n /\ calls[c].cmd = "delete"
  <2>1. task'[c].at = "drop" BY <1>2, <1>6, <1>n, FirstSteps
  <2>2. HandlingAt(n, {"drop", "namespace", "routes", "deps"})' /\ HandlingAt(n, {"drop"})'
    BY <1>2, <1>6, <1>n, <2>1 DEF HandlingAt
  <2>3. ~HandlingAt(n, {"routes", "deps"})' BY <1>2, <2>1 DEF HandlingAt
  <2> QED BY <1>2, <2>1, <2>2, <2>3 DEF RoutedInv
<1>7. CASE /\ ~(NsOf[calls[c].res] = n /\ calls[c].res \in Compiling)
           /\ ~(calls[c].res = n /\ calls[c].cmd = "delete")
  <2>1. (Coming(n) => Coming(n)') /\ (DropComing(n) => DropComing(n)') BY <1>3, <1>4, <1>7
  <2>2. Compiled(n)' = Compiled(n) BY <1>2, CompiledSame
  <2>3. task'[c].at \notin {"routes", "deps"} BY <1>2, FirstSteps
  <2>4. ~HandlingAt(n, {"routes", "deps"})' BY <1>2, <2>3 DEF HandlingAt
  <2>5. \A steps : ~HandlingAt(n, steps) BY <1>2 DEF HandlingAt
  <2>6. \/ routers'[n] = NoRouter \/ routers'[n] = Compiled(n)' \/ Coming(n)'
    BY <1>2, <2>1, <2>2, <2>5 DEF RoutedInv
  <2>7. store'[n] = Absent => routers'[n] = NoRouter \/ DropComing(n)'
    BY <1>2, <2>1, <2>5 DEF RoutedInv
  <2> QED BY <1>2, <2>3, <2>4, <2>6, <2>7 DEF RoutedInv
<1> QED BY <1>5, <1>6, <1>7

\* The line stays as it is while the processor works.
LEMMA LineSame ==
  ASSUME UNCHANGED <<calls, sending, queue>>
  PROVE  /\ InLine' = InLine
         /\ \A n \in Namespace : (Coming(n)' <=> Coming(n)) /\ (DropComing(n)' <=> DropComing(n))
<1>1. InLine' = InLine BY DEF InLine
<1> QED BY <1>1 DEF Coming, DropComing

\* The processor rebuilds the router of the namespace.
LEMMA RoutedRebuild ==
  ASSUME ClusterInv, OwnersInv, NEW c \in Call, RebuildStep(c), NEW n \in Namespace, RoutedInv(n)
  PROVE  RoutedInv(n)'
<1>1. /\ c \in TaskId /\ handling = {c} /\ handling' = {c} /\ Process(c) /\ (DropRouter(c) \/ Rebuild(c))
      /\ Ns(c) = NsOf[calls[c].res] /\ task[c].res = calls[c].res
      /\ UNCHANGED <<calls, sending, queue>>
      /\ task[c].at \in {"drop", "namespace", "routes", "deps"} \cup DomainSteps
      /\ task'[c].at \in {"namespace", "routes", "deps", "failed", "end"} \cup DomainSteps
      /\ Ns(c) \in Namespace
  BY RebuildFrame DEF clusterVars
<1>2. TypeOK /\ task[c] \in Task BY <1>1 DEF ClusterInv, ClusterTypeOK, TypeOK
<1>3. (Coming(n)' <=> Coming(n)) /\ (DropComing(n)' <=> DropComing(n))
  BY <1>1, LineSame
<1>4. UNCHANGED store /\ Compiled(n)' = Compiled(n)
  <2>1. UNCHANGED store
    BY <1>1 DEF DropRouter, Rebuild, ReadNamespace, ReadRoutes, InsertRouter, ReadDomains, InsertDomains,
                ReadDependency, Resolve, storage
  <2> QED BY <2>1, CompiledSame
<1>5. CASE Ns(c) # n
  <2>1. routers'[n] = routers[n] BY <1>1, <1>2, <1>5, ProcessTouches
  <2>2. HandlesSame(n) BY <1>1, <1>5 DEF HandlesSame
  <2> QED BY <1>3, <1>4, <2>1, <2>2, TodoOfNs, RoutedStays
<1>6. ASSUME Ns(c) = n PROVE RoutedInv(n)'
  <2>h. \A steps : /\ HandlingAt(n, steps) <=> task[c].at \in steps
                   /\ HandlingAt(n, steps)' <=> task'[c].at \in steps
    BY <1>1, <1>6 DEF HandlingAt
  <2>f. \A at \in Steps : Moves(c, at) => task'[c].at = at
    BY <1>1, <1>2, MovesType DEF TypeOK
  <2> DEFINE G == /\ \/ routers'[n] = NoRouter \/ routers'[n] = Compiled(n) \/ Coming(n)
                     \/ task'[c].at \in {"drop", "namespace", "routes", "deps"}
                  /\ store[n] = Absent => routers'[n] = NoRouter \/ DropComing(n) \/ task'[c].at = "drop"
                  /\ task'[c].at \in {"routes", "deps"} => store[n] # Absent \/ DropComing(n)
                  /\ task'[c].at = "deps" => \/ Coming(n)
                                             \/ task'[c].seen \cup Stored(task[c].todo)' = Compiled(n)
  <2>s. SUFFICES G
    BY <1>1, <1>3, <1>4, <2>h DEF RoutedInv
  <2>r. /\ \/ routers[n] = NoRouter \/ routers[n] = Compiled(n) \/ Coming(n)
           \/ task[c].at \in {"drop", "namespace", "routes", "deps"}
        /\ store[n] = Absent => routers[n] = NoRouter \/ DropComing(n) \/ task[c].at = "drop"
        /\ task[c].at \in {"routes", "deps"} => store[n] # Absent \/ DropComing(n)
        /\ task[c].at = "deps" => Coming(n) \/ task[c].seen \cup Stored(task[c].todo) = Compiled(n)
    BY <1>1, <1>6, <2>h DEF RoutedInv
  <2>1. CASE DropRouter(c)
    <3>1. task[c].res = n
      BY <1>1, <1>6, <2>1 DEF DropRouter, OwnersInv, Owned, ConstantsOK, Ns
    <3>2. routers'[n] = NoRouter /\ task'[c].at = "end"
      BY <1>2, <2>1, <2>f, <3>1 DEF DropRouter, TypeOK, Steps
    <3> QED BY <3>2
  <2>2. CASE ReadNamespace(c)
    <3>1. task[c].at = "namespace" /\ routers' = routers BY <2>2 DEF ReadNamespace, serving
    <3>2. CASE store[n] = Absent
      <4>1. task'[c].at \in {"end", "failed"}
        BY <1>6, <2>2, <2>f, <3>2 DEF ReadNamespace, Fails, Steps, Ended
      <4>2. DropComing(n) => Coming(n) BY DEF Coming
      <4> QED BY <2>r, <3>1, <3>2, <4>1, <4>2
    <3>3. CASE store[n] # Absent
      <4>1. task'[c].at = "routes"
        BY <1>6, <2>2, <2>f, <3>3 DEF ReadNamespace, Steps
      <4> QED BY <3>1, <3>3, <4>1
    <3> QED BY <3>2, <3>3
  <2>3. CASE ReadRoutes(c)
    <3>1. /\ task[c].at = "routes" /\ routers' = routers /\ task'[c].at = "deps"
          /\ task'[c].seen = Stored({r \in Route : NsOf[r] = n})
          /\ task'[c].todo = Named(Stored({r \in Route : NsOf[r] = n}))
      BY <1>1, <1>2, <1>6, <2>3 DEF ReadRoutes, Task, TypeOK, serving
    <3>2. task'[c].seen \cup Stored(task'[c].todo) = Compiled(n)
      BY <3>1 DEF Compiled
    <3>3. Stored(task[c].todo)' = Stored(task'[c].todo)
      BY <1>4 DEF Stored
    <3> QED BY <2>r, <3>1, <3>2, <3>3
  <2>4. ASSUME NEW x \in Resource, ReadDependency(c, x) PROVE G
    <3>1. /\ task[c].at = "deps" /\ routers' = routers /\ task'[c].at = "deps" /\ x \in task[c].todo
          /\ task'[c].seen = task[c].seen \cup Stored({x})
          /\ task'[c].todo = task[c].todo \ {x}
      BY <1>1, <1>2, <2>4 DEF ReadDependency, Task, TypeOK, serving
    <3>2. task'[c].seen \cup Stored(task'[c].todo) = task[c].seen \cup Stored(task[c].todo)
      BY <3>1 DEF Stored
    <3>3. Stored(task[c].todo)' = Stored(task'[c].todo)
      BY <1>4 DEF Stored
    <3> QED BY <2>r, <3>1, <3>2, <3>3
  <2>5. CASE InsertRouter(c)
    <3>1. /\ task[c].at = "deps" /\ task[c].todo = {} /\ routers'[n] = task[c].seen /\ task'[c].at = "end"
      BY <1>2, <1>6, <2>5, <2>f DEF InsertRouter, TypeOK, Steps
    <3>2. Stored({}) = {} BY DEF Stored
    <3> QED BY <2>r, <3>1, <3>2
  <2>6. ASSUME task[c].at \in DomainSteps, routers' = routers,
               task'[c].at \in DomainSteps \cup {"end"}
        PROVE  G
    BY <2>r, <2>6 DEF DomainSteps
  <2>7. CASE ReadDomains(c)
    BY <1>1, <1>2, <2>6, <2>7 DEF ReadDomains, TypeOK, Task, DomainSteps, serving
  <2>8. ASSUME NEW x \in Resource, Resolve(c, x) PROVE G
    BY <1>1, <1>2, <2>6, <2>8 DEF Resolve, TypeOK, Task, DomainSteps, serving
  <2>9. CASE InsertDomains(c)
    BY <2>6, <2>9, <2>f DEF InsertDomains, DomainSteps, Steps
  <2> QED BY <1>1, <2>1, <2>2, <2>3, <2>4, <2>5, <2>7, <2>8, <2>9 DEF Rebuild
<1> QED BY <1>5, <1>6

\* The processor is through with a change.
LEMMA FinishFrame ==
  ASSUME ClusterInv, OwnersInv, NEW c \in Call, FinishChange(c)
  PROVE  /\ c \in decided /\ c \in DOMAIN calls /\ c \in TaskId /\ handling = {c} /\ handling' = {}
         /\ task[c].at \in {"end", "failed"} /\ task[c].res = calls[c].res /\ task[c].cmd = calls[c].cmd
         /\ task[c].at = "failed" => task[c].res \in Compiling
         /\ UNCHANGED <<calls, log, store, routers, domains, ready, mode, decided, applied, sending, queue>>
         /\ Local' = Local
<1>1. TypeOK /\ ChangesInv BY DEF ClusterInv, ClusterTypeOK
<1>2. c \in decided /\ c \in DOMAIN calls /\ c \in TaskId /\ handling = {c}
  BY <1>1, Ids DEF FinishChange, ChangesInv
<1>3. /\ UNCHANGED <<calls, log, store, routers, domains, ready, mode, decided, applied, sending, queue>>
      /\ handling' = {} /\ task[c].at \in {"end", "failed"}
  BY DEF FinishChange, storage
<1>4. Local' = Local BY <1>3 DEF Local
<1> QED BY <1>2, <1>3, <1>4 DEF OwnersInv, Owned

LEMMA RoutedFinish ==
  ASSUME ClusterInv, OwnersInv, NEW c \in Call, FinishChange(c), NEW n \in Namespace, RoutedInv(n)
  PROVE  RoutedInv(n)'
<1>1. /\ handling = {c} /\ handling' = {} /\ task[c].at \in {"end", "failed"}
      /\ UNCHANGED <<calls, store, routers, sending, queue>>
  BY FinishFrame
<1>2. (Coming(n)' <=> Coming(n)) /\ (DropComing(n)' <=> DropComing(n))
  BY <1>1, LineSame
<1>3. Compiled(n)' = Compiled(n) BY <1>1, CompiledSame
<1>4. /\ ~HandlingAt(n, {"drop", "namespace", "routes", "deps"}) /\ ~HandlingAt(n, {"drop"})
      /\ \A steps : ~HandlingAt(n, steps)'
  BY <1>1 DEF HandlingAt
<1> QED BY <1>1, <1>2, <1>3, <1>4 DEF RoutedInv

LEMMA RoutedCrash ==
  ASSUME NodeCrash, NEW n \in Namespace
  PROVE  RoutedInv(n)'
<1>1. handling' = {} /\ routers'[n] = NoRouter BY DEF NodeCrash, Crash
<1>2. \A steps : ~HandlingAt(n, steps)' BY <1>1 DEF HandlingAt
<1> QED BY <1>1, <1>2 DEF RoutedInv

LEMMA RoutedInstall ==
  ASSUME InstallSnapshot, NEW n \in Namespace, RoutedInv(n)
  PROVE  RoutedInv(n)'
<1>1. UNCHANGED <<calls, store, routers, task, sending, queue, handling>> BY InstallFrame
<1>2. (Coming(n)' <=> Coming(n)) /\ (DropComing(n)' <=> DropComing(n)) BY <1>1, LineSame
<1>3. Compiled(n)' = Compiled(n) BY <1>1, CompiledSame
<1>4. \A steps : HandlingAt(n, steps)' <=> HandlingAt(n, steps) BY <1>1 DEF HandlingAt
<1>5. \A D : Stored(D)' = Stored(D) BY <1>1 DEF Stored
<1> QED BY <1>1, <1>2, <1>3, <1>4, <1>5 DEF RoutedInv

\* Early calls only take namespaces away from those that are shared.
LEMMA LocalGrows ==
  ASSUME ClusterInv, OwnersInv, [ClusterNext]_allVars
  PROVE  Local \subseteq Local' /\ \A c \in DOMAIN calls : calls'[c] = calls[c]
<1>1. CASE Alien BY <1>1, AlienFrame
<1>2. ASSUME NEW cmd \in {"put", "delete"}, NEW x \in Resource, ApplyDecided(cmd, x)
      PROVE  Local \subseteq Local' /\ \A c \in DOMAIN calls : calls'[c] = calls[c]
  BY <1>2, DecidedFrame
<1>3. ASSUME UNCHANGED <<calls, decided>>
      PROVE  Local \subseteq Local' /\ \A c \in DOMAIN calls : calls'[c] = calls[c]
  BY <1>3 DEF Local
<1>4. ASSUME NEW c \in Call, ApplyAgain(c) \/ SendChange(c) \/ FinishChange(c)
      PROVE  UNCHANGED <<calls, decided>>
  BY <1>4 DEF ApplyAgain, SendChange, FinishChange, vars
<1>5. ASSUME NEW c \in Call, RebuildStep(c) PROVE UNCHANGED <<calls, decided>>
  BY <1>5, RebuildFrame DEF clusterVars
<1>6. TakeChange \/ NodeCrash \/ InstallSnapshot => UNCHANGED <<calls, decided>>
  BY InstallFrame DEF TakeChange, NodeCrash, Crash
<1> QED BY <1>1, <1>2, <1>3, <1>4, <1>5, <1>6 DEF ClusterNext, Alien, ProcessorStep

LEMMA SharedStep ==
  ASSUME ClusterInv, OwnersInv, SharedInv, [ClusterNext]_allVars
  PROVE  SharedInv'
<1> SUFFICES ASSUME NEW n \in Namespace, Shared(n)' PROVE RoutedInv(n)'
  BY DEF SharedInv
<1>1. Shared(n) /\ RoutedInv(n) BY LocalGrows, SharedBack DEF SharedInv
<1>2. CASE Alien BY <1>1, <1>2, RoutedAlien
<1>3. ASSUME NEW cmd \in {"put", "delete"}, NEW x \in Resource, ApplyDecided(cmd, x)
      PROVE  RoutedInv(n)'
  <2>1. PICK c \in Call :
          /\ calls'[c] = [cmd |-> cmd, res |-> x] /\ \A d \in DOMAIN calls : calls'[d] = calls[d]
          /\ Stores(c, cmd, x)
    BY <1>3, DecidedFrame
  <2> QED BY <1>1, <2>1, RoutedWrite
<1>4. ASSUME NEW c \in Call, ApplyAgain(c) PROVE RoutedInv(n)'
  <2>1. c \in DOMAIN calls /\ Stores(c, calls[c].cmd, calls[c].res) /\ calls' = calls
    BY <1>4 DEF ApplyAgain, ClusterInv, ChangesInv
  <2>2. calls[c] \in Change BY <2>1 DEF ClusterInv, ClusterTypeOK, TypeOK
  <2>3. /\ calls[c].cmd \in {"put", "delete"} /\ calls[c].res \in Resource
        /\ calls'[c] = [cmd |-> calls[c].cmd, res |-> calls[c].res]
    BY <2>1, <2>2 DEF Change
  <2> QED BY <1>1, <2>1, <2>3, RoutedWrite
<1>5. ASSUME NEW c \in Call, SendChange(c) PROVE RoutedInv(n)'
  BY <1>1, <1>5, RoutedSend
<1>6. CASE ProcessorStep
  BY <1>1, <1>6, RoutedTake, RoutedRebuild, RoutedFinish DEF ProcessorStep
<1>7. CASE NodeCrash BY <1>7, RoutedCrash
<1>8. CASE InstallSnapshot BY <1>1, <1>8, RoutedInstall
<1> QED BY <1>2, <1>3, <1>4, <1>5, <1>6, <1>7, <1>8 DEF ClusterNext, Alien

LEMMA SharedInit == ClusterInit => SharedInv
<1> SUFFICES ASSUME ClusterInit, NEW n \in Namespace PROVE RoutedInv(n)
  BY DEF SharedInv
<1>1. handling = {} /\ routers[n] = NoRouter BY DEF ClusterInit, Init
<1> QED BY <1>1 DEF RoutedInv, HandlingAt

LEMMA SharedInvariance == ClusterSpec => [](ClusterInv /\ OwnersInv /\ SharedInv)
<1>1. ClusterInit => OwnersInv /\ SharedInv BY OwnersInit, SharedInit
<1>2. ClusterInv /\ OwnersInv /\ SharedInv /\ [ClusterNext]_allVars => OwnersInv' /\ SharedInv'
  BY OwnersStep, SharedStep
<1> QED BY <1>1, <1>2, ClusterInvariance, PTL DEF ClusterSpec

\* When every change is handled, the routers of the namespaces that no early
\* call and no boot task writes in were compiled from just what is stored,
\* although each rebuild read storage piece by piece while further changes
\* were written (rebuild_router under process_cluster_changes).
THEOREM HandledMeansCurrent == ClusterSpec => []HandledShowsStore
<1>1. SharedInv => HandledShowsStore
  <2> SUFFICES ASSUME SharedInv, Pending = {}, NEW n \in Namespace, Shared(n), routers[n] # NoRouter
               PROVE  routers[n] = Compiled(n)
    BY DEF HandledShowsStore
  <2>1. InLine = {} /\ handling = {} BY DEF Pending, Backlog, InLine
  <2>2. ~Coming(n) BY <2>1 DEF Coming, DropComing
  <2>3. \A steps : ~HandlingAt(n, steps) BY <2>1 DEF HandlingAt
  <2> QED BY <2>2, <2>3 DEF SharedInv, RoutedInv
<1> QED BY <1>1, SharedInvariance, PTL

-----------------------------------------------------------------------------
(* The order of the changes under Raft.                                     *)

\* A change is applied, for the first time or again, in its turn.
Writes(c, cmd, x) ==
  /\ Stores(c, cmd, x) /\ InTurn(c)
  /\ \A a \in applied : a < c
  /\ c \in decided \/ \A d \in decided : d < c
  /\ decided' = decided \cup {c} /\ c \in DOMAIN calls'
  /\ calls'[c] = [cmd |-> cmd, res |-> x]
  /\ \A d \in DOMAIN calls : d \in DOMAIN calls' /\ calls'[d] = calls[d]
  /\ Local' = Local

LEMMA WriteFrame ==
  ASSUME ClusterInv, OrderInv,
         \/ \E cmd \in {"put", "delete"}, x \in Resource : ApplyDecided(cmd, x)
         \/ \E c \in Call : ApplyAgain(c)
  PROVE  \E c \in Call, cmd \in {"put", "delete"}, x \in Resource : Writes(c, cmd, x)
<1>1. ASSUME NEW cmd \in {"put", "delete"}, NEW x \in Resource, ApplyDecided(cmd, x)
      PROVE  \E c \in Call : Writes(c, cmd, x)
  <2>1. PICK c \in Call :
           /\ c \notin DOMAIN calls /\ \A d \in DOMAIN calls : d < c
           /\ DOMAIN calls' = DOMAIN calls \cup {c}
           /\ calls'[c] = [cmd |-> cmd, res |-> x] /\ \A d \in DOMAIN calls : calls'[d] = calls[d]
           /\ decided' = decided \cup {c} /\ InTurn(c) /\ Local' = Local
           /\ Stores(c, cmd, x)
    BY <1>1, DecidedFrame
  <2>2. applied \subseteq DOMAIN calls /\ decided \subseteq DOMAIN calls BY DEF ClusterInv, ChangesInv
  <2> QED BY <2>1, <2>2 DEF Writes
<1>2. ASSUME NEW c \in Call, ApplyAgain(c)
      PROVE  \E cmd \in {"put", "delete"}, x \in Resource : Writes(c, cmd, x)
  <2>1. /\ c \in decided \ applied /\ InTurn(c) /\ c \in DOMAIN calls
        /\ Stores(c, calls[c].cmd, calls[c].res) /\ UNCHANGED <<calls, decided>>
    BY <1>2 DEF ApplyAgain, ClusterInv, ChangesInv
  <2>2. calls[c] \in Change BY <2>1 DEF ClusterInv, ClusterTypeOK, TypeOK
  <2>3. /\ calls[c].cmd \in {"put", "delete"} /\ calls[c].res \in Resource
        /\ calls'[c] = [cmd |-> calls[c].cmd, res |-> calls[c].res]
    BY <2>1, <2>2 DEF Change
  <2>4. \A a \in applied : a < c BY <2>1 DEF OrderInv
  <2>5. Local' = Local BY <2>1 DEF Local
  <2> QED BY <2>1, <2>3, <2>4, <2>5 DEF Writes
<1> QED BY <1>1, <1>2

\* All changes on the way are calls, which are numbers.
LEMMA ChangesAreCalls ==
  ASSUME ClusterInv
  PROVE  /\ decided \subseteq Call /\ applied \subseteq decided /\ Backlog \subseteq decided
         /\ InLine \subseteq decided /\ handling \subseteq decided /\ decided \subseteq DOMAIN calls
         /\ Backlog = InLine \cup handling /\ sending \subseteq InLine
         /\ \A i \in DOMAIN queue : queue[i] \in decided /\ queue[i] \in InLine
         /\ Call \subseteq Nat
<1>1. /\ decided \subseteq DOMAIN calls /\ applied \subseteq decided /\ sending \subseteq decided
      /\ queue \in Seq(decided) /\ handling \subseteq decided /\ decided \subseteq Call
  BY DEF ClusterInv, ClusterTypeOK, ChangesInv
<1>2. \A i \in DOMAIN queue : queue[i] \in decided BY <1>1
<1>3. Backlog = InLine \cup handling /\ sending \subseteq InLine
  BY DEF Backlog, InLine
<1>4. InLine \subseteq decided BY <1>1, <1>2 DEF InLine
<1>5. \A i \in DOMAIN queue : queue[i] \in InLine BY DEF InLine
<1> QED BY <1>1, <1>2, <1>3, <1>4, <1>5 DEF Call

LEMMA OrderSame ==
  ASSUME OrderInv, UNCHANGED <<decided, applied, sending, queue, handling>>
  PROVE  OrderInv' /\ Backlog' = Backlog /\ Pending' = Pending /\ InLine' = InLine
<1>1. Backlog' = Backlog /\ InLine' = InLine BY DEF Backlog, InLine
<1>2. Pending' = Pending BY <1>1 DEF Pending
<1> QED BY <1>1, <1>2 DEF OrderInv

LEMMA OrderWrite ==
  ASSUME ClusterInv, mode = "raft", OrderInv, NEW c \in Call, NEW cmd, NEW x, Writes(c, cmd, x)
  PROVE  /\ OrderInv' /\ Backlog' = Backlog \cup {c} /\ Pending' = Pending \cup {c}
         /\ InLine' = InLine \cup {c} /\ handling' = handling /\ c \notin applied
         /\ sending = {} /\ sending' = {c} /\ queue' = queue
<1>1. /\ sending = {} /\ \A d \in decided \ applied : c <= d
      /\ \A a \in applied : a < c
      /\ applied' = applied \cup {c} /\ sending' = {c} /\ decided' = decided \cup {c}
      /\ UNCHANGED <<queue, handling>>
  BY DEF Writes, InTurn, Stores
<1>2. InLine' = InLine \cup {c} /\ Backlog' = Backlog \cup {c}
  BY <1>1 DEF InLine, Backlog
<1>3. c \notin applied BY <1>1, ChangesAreCalls
<1>4. Pending' = Pending \cup {c} BY <1>1, <1>2, <1>3 DEF Pending
<1>5. \A a \in applied', d \in decided' \ applied' : a < d
  BY <1>1, ChangesAreCalls DEF OrderInv
<1> QED BY <1>1, <1>2, <1>3, <1>4, <1>5 DEF OrderInv

LEMMA OrderSend ==
  ASSUME ClusterInv, OrderInv, NEW c \in Call, SendChange(c)
  PROVE  /\ OrderInv' /\ Backlog' = Backlog /\ Pending' = Pending /\ InLine' = InLine
         /\ sending = {c} /\ sending' = {}
         /\ DOMAIN queue' = DOMAIN queue \cup {Len(queue) + 1} /\ queue'[Len(queue) + 1] = c
         /\ \A i \in DOMAIN queue : i \in Nat /\ queue'[i] = queue[i] /\ i <= Len(queue) + 1
<1>1. /\ c \in sending /\ sending' = sending \ {c} /\ queue' = Append(queue, c)
      /\ UNCHANGED <<decided, applied, handling>> /\ queue \in Seq(Call)
  BY DEF SendChange, ClusterInv, ClusterTypeOK
<1>2. sending' = {} /\ sending = {c} BY <1>1 DEF OrderInv
<1>3. /\ DOMAIN queue' = DOMAIN queue \cup {Len(queue) + 1}
      /\ \A i \in DOMAIN queue : i \in Nat /\ queue'[i] = queue[i] /\ i <= Len(queue) + 1
      /\ queue'[Len(queue) + 1] = c
  BY <1>1
<1>4. InLine' = InLine BY <1>2, <1>3 DEF InLine
<1>5. Backlog' = Backlog BY <1>1, <1>4 DEF Backlog, InLine
<1>6. Pending' = Pending BY <1>1, <1>5 DEF Pending
<1> QED BY <1>1, <1>2, <1>3, <1>4, <1>5, <1>6 DEF OrderInv

LEMMA OrderTake ==
  ASSUME ClusterInv, OrderInv, TakeChange
  PROVE  OrderInv' /\ Backlog' = Backlog /\ Pending' = Pending
<1>1. handling' = {Head(queue)} /\ handling = {} /\ UNCHANGED <<decided, applied, sending>>
  BY DEF TakeChange
<1>2. Backlog' = Backlog
  <2>1. InLine \subseteq InLine' \cup {Head(queue)} /\ InLine' \subseteq InLine /\ Head(queue) \in InLine
    BY TakeLine
  <2>2. Backlog' = InLine' \cup handling' /\ Backlog = InLine \cup handling
    BY DEF Backlog, InLine
  <2> QED BY <1>1, <2>1, <2>2
<1>3. Pending' = Pending BY <1>1, <1>2 DEF Pending
<1> QED BY <1>1, <1>2, <1>3 DEF OrderInv

LEMMA OrderFinish ==
  ASSUME ClusterInv, OwnersInv, OrderInv, NEW c \in Call, FinishChange(c)
  PROVE  /\ OrderInv' /\ InLine' = InLine /\ Backlog' = InLine /\ Backlog = InLine \cup {c}
         /\ Pending \ {c} \subseteq Pending' /\ InLine \subseteq Pending'
<1>1. handling = {c} /\ handling' = {} /\ UNCHANGED <<decided, applied, sending, queue>>
  BY FinishFrame
<1>2. InLine' = InLine /\ Backlog' = InLine /\ Backlog = InLine \cup {c}
  BY <1>1 DEF InLine, Backlog
<1>3. Pending \ {c} \subseteq Pending' /\ InLine \subseteq Pending' BY <1>1, <1>2 DEF Pending
<1> QED BY <1>1, <1>2, <1>3 DEF OrderInv

LEMMA OrderCrash ==
  ASSUME mode = "raft", NodeCrash
  PROVE  /\ OrderInv' /\ Backlog' = {} /\ applied' = {} /\ sending' = {} /\ queue' = <<>>
         /\ handling' = {} /\ UNCHANGED <<calls, decided>>
<1>1. /\ applied' = {} /\ sending' = {} /\ queue' = <<>> /\ handling' = {}
      /\ UNCHANGED <<calls, decided>>
  BY DEF NodeCrash, AllAgainUnderRaft, Crash
<1>2. Backlog' = {} BY <1>1 DEF Backlog
<1> QED BY <1>1, <1>2 DEF OrderInv

LEMMA OrderInstall ==
  ASSUME OrderInv, InstallSnapshot
  PROVE  OrderInv' /\ Backlog' = Backlog /\ Pending \subseteq Pending' /\ InLine' = InLine
<1>1. UNCHANGED <<decided, sending, queue, handling>> /\ applied' = {} BY InstallFrame
<1>2. Backlog' = Backlog /\ InLine' = InLine BY <1>1 DEF Backlog, InLine
<1>3. Pending \subseteq Pending' BY <1>1, <1>2 DEF Pending
<1> QED BY <1>1, <1>2, <1>3 DEF OrderInv

-----------------------------------------------------------------------------
(* What a replica stores.                                                   *)

\* A step that leaves the changes S about x as they were.
LEMMA LastSame ==
  ASSUME NEW x, NEW S, NEW T, NEW v, {c \in T : calls'[c].res = x} = About(x, S),
         \A c \in S : calls'[c] = calls[c], Last(x, S, v)
  PROVE  \E l \in {c \in T : calls'[c].res = x} :
           v = Effect(calls'[l].cmd, l) /\ \A d \in {c \in T : calls'[c].res = x} : d <= l
<1>1. PICK l \in About(x, S) : v = Effect(calls[l].cmd, l) /\ \A d \in About(x, S) : d <= l
  BY DEF Last
<1>2. calls'[l] = calls[l] BY <1>1 DEF About
<1> QED BY <1>1, <1>2

LEMMA ReplicaSame ==
  ASSUME ClusterInv, NEW n \in Namespace, ReplicaInv(n), UNCHANGED applied, decided \subseteq decided',
         \A x \in Resource : NsOf[x] = n => store'[x] = store[x],
         \A c \in DOMAIN calls : calls'[c] = calls[c]
  PROVE  ReplicaInv(n)'
<1> SUFFICES ASSUME NEW x \in Resource, NsOf[x] = n
             PROVE  /\ store'[x] # Absent => store'[x] \in About(x, decided)' /\ calls'[store'[x]].cmd = "put"
                    /\ About(x, applied)' # {} => Last(x, applied, store[x])'
  BY DEF ReplicaInv
<1>1. decided \subseteq DOMAIN calls /\ applied \subseteq decided BY ChangesAreCalls
<1>2. store'[x] = store[x] OBVIOUS
<1>3. \A c \in decided : calls'[c] = calls[c] BY <1>1
<1>4. store'[x] # Absent => store'[x] \in About(x, decided)' /\ calls'[store'[x]].cmd = "put"
  BY <1>2, <1>3 DEF ReplicaInv, About
<1>5. {c \in applied' : calls'[c].res = x} = About(x, applied) BY <1>1, <1>3 DEF About
<1>6. ASSUME About(x, applied)' # {} PROVE Last(x, applied, store[x])'
  <2>1. Last(x, applied, store[x]) BY <1>5, <1>6 DEF ReplicaInv, About
  <2>2. \A c \in applied : calls'[c] = calls[c] BY <1>1
  <2>3. \E l \in {c \in applied' : calls'[c].res = x} :
           store[x] = Effect(calls'[l].cmd, l) /\ \A d \in {c \in applied' : calls'[c].res = x} : d <= l
    BY <1>5, <2>1, <2>2, LastSame
  <2> QED BY <1>2, <2>3 DEF Last, About
<1> QED BY <1>4, <1>6

LEMMA ReplicaWrite ==
  ASSUME ClusterInv, NEW n \in Namespace, ReplicaInv(n),
         NEW c \in Call, NEW cmd \in {"put", "delete"}, NEW y \in Resource, Writes(c, cmd, y)
  PROVE  ReplicaInv(n)'
<1> SUFFICES ASSUME NEW x \in Resource, NsOf[x] = n
             PROVE  /\ store'[x] # Absent => store'[x] \in About(x, decided)' /\ calls'[store'[x]].cmd = "put"
                    /\ About(x, applied)' # {} => Last(x, applied, store[x])'
  BY DEF ReplicaInv
<1>1. decided \subseteq DOMAIN calls /\ applied \subseteq decided BY ChangesAreCalls
<1>2. /\ store' = [store EXCEPT ![y] = Effect(cmd, c)] /\ applied' = applied \cup {c}
      /\ decided' = decided \cup {c} /\ calls'[c].res = y /\ calls'[c].cmd = cmd
      /\ \A a \in applied : a < c
      /\ \A d \in DOMAIN calls : calls'[d] = calls[d]
  BY DEF Writes, Stores
<1>3. CASE x = y
  <2>1. store'[x] = Effect(cmd, c) BY <1>2, <1>3 DEF ClusterInv, ClusterTypeOK, TypeOK
  <2>2. c \in About(x, applied)' /\ c \in About(x, decided)' BY <1>2, <1>3 DEF About
  <2>3. store'[x] # Absent => store'[x] = c /\ cmd = "put" BY <2>1 DEF Effect
  <2>4. \A d \in About(x, applied)' : d <= c
    <3>1. c <= c BY DEF Call
    <3>2. \A d \in applied' : d \in applied \/ d = c BY <1>2
    <3>3. \A a \in applied : a <= c BY <1>1, <1>2, ChangesAreCalls
    <3> QED BY <3>1, <3>2, <3>3 DEF About
  <2>5. Last(x, applied, store[x])' BY <1>2, <2>1, <2>2, <2>4 DEF Last
  <2> QED BY <1>2, <2>2, <2>3, <2>5
<1>4. CASE x # y
  <2>1. store'[x] = store[x] BY <1>2, <1>4 DEF ClusterInv, ClusterTypeOK, TypeOK
  <2>2. store'[x] # Absent => store'[x] \in About(x, decided)' /\ calls'[store'[x]].cmd = "put"
    BY <1>1, <1>2, <2>1 DEF ReplicaInv, About
  <2>3. {d \in applied' : calls'[d].res = x} = About(x, applied)
    BY <1>1, <1>2, <1>4 DEF About
  <2>4. ASSUME About(x, applied)' # {} PROVE Last(x, applied, store[x])'
    <3>1. Last(x, applied, store[x]) BY <2>3, <2>4 DEF ReplicaInv, About
    <3>2. \A d \in applied : calls'[d] = calls[d] BY <1>1, <1>2
    <3>3. \E l \in {d \in applied' : calls'[d].res = x} :
             store[x] = Effect(calls'[l].cmd, l) /\ \A d \in {e \in applied' : calls'[e].res = x} : d <= l
      BY <2>3, <3>1, <3>2, LastSame
    <3> QED BY <2>1, <3>3 DEF Last, About
  <2> QED BY <2>2, <2>4
<1> QED BY <1>3, <1>4

\* A crash, or the start of a snapshot.
LEMMA ReplicaAgain ==
  ASSUME NEW n \in Namespace, ReplicaInv(n), applied' = {}, UNCHANGED <<calls, decided>>,
         \A x \in Resource : store'[x] \in {store[x], Absent}
  PROVE  ReplicaInv(n)'
<1>1. \A x \in Resource : About(x, applied)' = {} BY DEF About
<1>2. ASSUME NEW x \in Resource, NsOf[x] = n, store'[x] # Absent
      PROVE  store'[x] \in About(x, decided)' /\ calls'[store'[x]].cmd = "put"
  BY <1>2 DEF ReplicaInv, About
<1> QED BY <1>1, <1>2 DEF ReplicaInv

-----------------------------------------------------------------------------
(* What the line brings.                                                    *)

BringsThen(c, x) == calls'[c].res = x /\ store'[x] = Effect(calls'[c].cmd, c)

\* A change that goes on bringing what is stored.
LEMMA BringsStays ==
  ASSUME NEW x, NEW c, Brings(c, x), calls'[c] = calls[c], store'[x] = store[x]
  PROVE  BringsThen(c, x)
BY DEF Brings, BringsThen

\* Steps that add nothing to the line and take nothing out of it.
LEMMA LineKept ==
  ASSUME ClusterInv, NEW n \in Namespace, LineInv(n),
         UNCHANGED <<sending, queue>>, handling' \subseteq handling,
         \A x \in Resource : NsOf[x] = n => store'[x] = store[x],
         \A c \in DOMAIN calls : calls'[c] = calls[c]
  PROVE  LineInv(n)'
<1>1. /\ sending \subseteq DOMAIN calls /\ handling \subseteq DOMAIN calls /\ InLine \subseteq DOMAIN calls
      /\ \A i \in DOMAIN queue : queue[i] \in DOMAIN calls
  BY ChangesAreCalls
<1>2. InLine' = InLine BY DEF InLine
<1> SUFFICES ASSUME NEW x \in Resource, NsOf[x] = n
             PROVE  /\ \A c \in sending : calls'[c].res = x => BringsThen(c, x)
                    /\ \A i \in DOMAIN queue : calls'[queue[i]].res = x =>
                         \/ \E c \in sending : BringsThen(c, x)
                         \/ \E j \in DOMAIN queue : i <= j /\ BringsThen(queue[j], x)
                    /\ \A c \in handling' : calls'[c].res = x =>
                         BringsThen(c, x) \/ \E d \in InLine : BringsThen(d, x)
  BY <1>2 DEF LineInv, Brings, BringsThen
<1>3. \A c \in DOMAIN calls : Brings(c, x) => BringsThen(c, x) BY BringsStays
<1>4. /\ \A c \in sending : calls[c].res = x => Brings(c, x)
      /\ \A i \in DOMAIN queue : calls[queue[i]].res = x =>
           \/ \E c \in sending : Brings(c, x)
           \/ \E j \in DOMAIN queue : i <= j /\ Brings(queue[j], x)
      /\ \A c \in handling : calls[c].res = x =>
           Brings(c, x) \/ \E d \in InLine : Brings(d, x)
  BY DEF LineInv
<1>5. \A c \in sending : calls'[c].res = x => BringsThen(c, x) BY <1>1, <1>3, <1>4
<1>6. ASSUME NEW i \in DOMAIN queue, calls'[queue[i]].res = x
      PROVE  \/ \E c \in sending : BringsThen(c, x)
             \/ \E j \in DOMAIN queue : i <= j /\ BringsThen(queue[j], x)
  <2>1. calls[queue[i]].res = x BY <1>1, <1>6
  <2> QED BY <1>1, <1>3, <1>4, <2>1
<1>7. ASSUME NEW c \in handling', calls'[c].res = x
      PROVE  BringsThen(c, x) \/ \E d \in InLine : BringsThen(d, x)
  <2>1. c \in handling /\ calls[c].res = x BY <1>1, <1>7
  <2> QED BY <1>1, <1>3, <1>4, <2>1
<1> QED BY <1>5, <1>6, <1>7

\* A change is applied: what is stored of its resource came with it.
LEMMA LineWrite ==
  ASSUME ClusterInv, mode = "raft", OrderInv, NEW n \in Namespace, LineInv(n),
         NEW c \in Call, NEW cmd \in {"put", "delete"}, NEW y \in Resource, Writes(c, cmd, y)
  PROVE  LineInv(n)'
<1>1. /\ store' = [store EXCEPT ![y] = Effect(cmd, c)]
      /\ calls'[c].res = y /\ calls'[c].cmd = cmd
      /\ \A d \in DOMAIN calls : calls'[d] = calls[d]
  BY DEF Writes, Stores
<1>2. sending = {} /\ sending' = {c} /\ UNCHANGED <<queue, handling>> /\ InLine' = InLine \cup {c}
  BY OrderWrite
<1>3. /\ handling \subseteq DOMAIN calls /\ InLine \subseteq DOMAIN calls
      /\ \A i \in DOMAIN queue : queue[i] \in DOMAIN calls
  BY ChangesAreCalls
<1>4. store \in [Resource -> Version] BY DEF ClusterInv, ClusterTypeOK, TypeOK
<1> SUFFICES ASSUME NEW x \in Resource, NsOf[x] = n
             PROVE  /\ calls'[c].res = x => BringsThen(c, x)
                    /\ \A i \in DOMAIN queue : calls'[queue[i]].res = x =>
                         \/ BringsThen(c, x)
                         \/ \E j \in DOMAIN queue : i <= j /\ BringsThen(queue[j], x)
                    /\ \A d \in handling : calls'[d].res = x =>
                         BringsThen(d, x) \/ \E e \in InLine \cup {c} : BringsThen(e, x)
  BY <1>2 DEF LineInv, Brings, BringsThen
<1>5. CASE x = y
  <2>1. BringsThen(c, x) BY <1>1, <1>4, <1>5 DEF BringsThen
  <2> QED BY <2>1
<1>6. CASE x # y
  <2>1. store'[x] = store[x] BY <1>1, <1>4, <1>6
  <2>2. \A d \in DOMAIN calls : Brings(d, x) => BringsThen(d, x) BY <1>1, <2>1, BringsStays
  <2>3. ASSUME NEW i \in DOMAIN queue, calls'[queue[i]].res = x
        PROVE  \E j \in DOMAIN queue : i <= j /\ BringsThen(queue[j], x)
    <3>1. calls[queue[i]].res = x BY <1>1, <1>3, <2>3
    <3>2. PICK j \in DOMAIN queue : i <= j /\ Brings(queue[j], x)
      BY <1>2, <3>1 DEF LineInv
    <3> QED BY <1>3, <2>2, <3>2
  <2>4. ASSUME NEW d \in handling, calls'[d].res = x
        PROVE  BringsThen(d, x) \/ \E e \in InLine \cup {c} : BringsThen(e, x)
    <3>1. calls[d].res = x BY <1>1, <1>3, <2>4
    <3>2. Brings(d, x) \/ \E e \in InLine : Brings(e, x) BY <3>1 DEF LineInv
    <3> QED BY <1>3, <2>2, <3>2
  <2> QED BY <1>1, <1>6, <2>3, <2>4
<1> QED BY <1>5, <1>6

\* The change that is sent comes last in the queue.
LEMMA LineSend ==
  ASSUME ClusterInv, OrderInv, NEW n \in Namespace, LineInv(n), NEW c \in Call, SendChange(c)
  PROVE  LineInv(n)'
<1>1. UNCHANGED <<calls, store, handling>> BY DEF SendChange, vars, storage
<1>2. /\ sending = {c} /\ sending' = {} /\ InLine' = InLine
      /\ DOMAIN queue' = DOMAIN queue \cup {Len(queue) + 1} /\ queue'[Len(queue) + 1] = c
      /\ \A i \in DOMAIN queue : i \in Nat /\ queue'[i] = queue[i] /\ i <= Len(queue) + 1
  BY OrderSend
<1>3. Len(queue) + 1 \in Nat BY DEF ClusterInv, ClusterTypeOK
<1> SUFFICES ASSUME NEW x \in Resource, NsOf[x] = n
             PROVE  /\ \A i \in DOMAIN queue' : calls[queue'[i]].res = x =>
                         \E j \in DOMAIN queue' : i <= j /\ Brings(queue'[j], x)
                    /\ \A d \in handling : calls[d].res = x =>
                         Brings(d, x) \/ \E e \in InLine : Brings(e, x)
  BY <1>1, <1>2 DEF LineInv, Brings
<1>4. Brings(c, x) =>
        \A i \in DOMAIN queue' : \E j \in DOMAIN queue' : i <= j /\ Brings(queue'[j], x)
  BY <1>2, <1>3
<1>5. ASSUME NEW i \in DOMAIN queue', calls[queue'[i]].res = x, ~Brings(c, x)
      PROVE  \E j \in DOMAIN queue' : i <= j /\ Brings(queue'[j], x)
  <2>1. calls[c].res # x BY <1>2, <1>5 DEF LineInv
  <2>2. i \in DOMAIN queue /\ queue'[i] = queue[i] BY <1>2, <1>5, <2>1
  <2>3. PICK j \in DOMAIN queue : i <= j /\ Brings(queue[j], x)
    BY <1>2, <1>5, <2>2 DEF LineInv
  <2> QED BY <1>2, <2>3
<1>6. \A d \in handling : calls[d].res = x => Brings(d, x) \/ \E e \in InLine : Brings(e, x)
  BY DEF LineInv
<1> QED BY <1>4, <1>5, <1>6

\* The processor takes the first change.
LEMMA LineTake ==
  ASSUME ClusterInv, NEW n \in Namespace, LineInv(n), TakeChange
  PROVE  LineInv(n)'
<1>1. /\ queue \in Seq(decided) /\ queue # <<>> /\ queue' = Tail(queue) /\ handling' = {queue[1]}
      /\ UNCHANGED <<calls, store, sending>>
  BY DEF TakeChange, ClusterInv, ChangesInv, storage
<1>2. 1 \in DOMAIN queue /\ \A j \in DOMAIN queue : j \in Nat /\ 1 <= j BY <1>1
<1>3. \A i \in DOMAIN queue' : i \in Nat /\ i + 1 \in DOMAIN queue /\ queue'[i] = queue[i + 1]
  BY <1>1
<1>4. \A j \in DOMAIN queue \ {1} : j - 1 \in DOMAIN queue' /\ queue'[j - 1] = queue[j]
  BY <1>1
<1> SUFFICES ASSUME NEW x \in Resource, NsOf[x] = n
             PROVE  /\ \A c \in sending : calls[c].res = x => Brings(c, x)
                    /\ \A i \in DOMAIN queue' : calls[queue'[i]].res = x =>
                         \/ \E c \in sending : Brings(c, x)
                         \/ \E j \in DOMAIN queue' : i <= j /\ Brings(queue'[j], x)
                    /\ \A c \in handling' : calls[c].res = x =>
                         Brings(c, x) \/ \E d \in InLine' : Brings(d, x)
  BY <1>1 DEF LineInv, Brings
<1>5. \A c \in sending : calls[c].res = x => Brings(c, x) BY DEF LineInv
<1>6. ASSUME NEW i \in DOMAIN queue, calls[queue[i]].res = x, ~\E c \in sending : Brings(c, x)
      PROVE  \E j \in DOMAIN queue : i <= j /\ Brings(queue[j], x)
  BY <1>6 DEF LineInv
<1>7. ASSUME NEW i \in DOMAIN queue', calls[queue'[i]].res = x, ~\E c \in sending : Brings(c, x)
      PROVE  \E j \in DOMAIN queue' : i <= j /\ Brings(queue'[j], x)
  <2>1. i \in Nat /\ i + 1 \in DOMAIN queue /\ calls[queue[i + 1]].res = x BY <1>3, <1>7
  <2>2. PICK j \in DOMAIN queue : i + 1 <= j /\ Brings(queue[j], x) BY <1>6, <1>7, <2>1
  <2>3. j \in Nat /\ j # 1 /\ i <= j - 1
    <3>1. i >= 1 BY <1>1, <1>7
    <3> QED BY <1>2, <2>1, <2>2, <3>1
  <2> QED BY <1>4, <2>2, <2>3
<1>8. ASSUME calls[queue[1]].res = x, ~Brings(queue[1], x) PROVE \E d \in InLine' : Brings(d, x)
  <2>1. CASE \E c \in sending : Brings(c, x) BY <1>1, <2>1 DEF InLine
  <2>2. CASE ~\E c \in sending : Brings(c, x)
    <3>1. PICK j \in DOMAIN queue : Brings(queue[j], x) BY <1>2, <1>6, <1>8, <2>2
    <3>2. j \in DOMAIN queue \ {1} BY <1>8, <3>1
    <3>3. queue[j] \in InLine' BY <1>4, <3>2 DEF InLine
    <3> QED BY <3>1, <3>3
  <2> QED BY <2>1, <2>2
<1> QED BY <1>1, <1>5, <1>7, <1>8

LEMMA LineCrash ==
  ASSUME mode = "raft", NodeCrash, NEW n \in Namespace
  PROVE  LineInv(n)'
BY OrderCrash DEF LineInv

-----------------------------------------------------------------------------
(* Namespaces that are made first and never deleted.                        *)

LEMMA CleanBack ==
  ASSUME ClusterInv, OwnersInv, [ClusterNext]_allVars, NEW n \in Namespace, Clean(n)'
  PROVE  Clean(n)
<1>1. /\ Local \subseteq Local' /\ \A c \in DOMAIN calls : calls'[c] = calls[c]
      /\ decided \subseteq DOMAIN calls /\ decided \subseteq Call /\ Call \subseteq Nat
  BY LocalGrows, ChangesAreCalls
<1>2. Shared(n) BY <1>1, SharedBack DEF Clean
<1>3. decided' = decided \/ \E c \in Call : decided' = decided \cup {c} /\ \A d \in decided : d < c
  <2>1. CASE Alien BY <2>1, AlienFrame
  <2>2. ASSUME NEW cmd \in {"put", "delete"}, NEW x \in Resource, ApplyDecided(cmd, x)
        PROVE  \E c \in Call : decided' = decided \cup {c} /\ \A d \in decided : d < c
    BY <1>1, <2>2, DecidedFrame
  <2>3. ASSUME NEW c \in Call, ApplyAgain(c) \/ SendChange(c) \/ FinishChange(c) PROVE decided' = decided
    BY <2>3 DEF ApplyAgain, SendChange, FinishChange
  <2>4. ASSUME NEW c \in Call, RebuildStep(c) PROVE decided' = decided
    BY <2>4 DEF RebuildStep, clusterVars
  <2>5. TakeChange \/ NodeCrash \/ InstallSnapshot => decided' = decided
    BY InstallFrame DEF TakeChange, NodeCrash
  <2> QED BY <2>1, <2>2, <2>3, <2>4, <2>5 DEF ClusterNext, Alien, ProcessorStep
<1>4. /\ decided \subseteq decided' /\ About(n, decided) \subseteq About(n, decided)'
      /\ Members(n) \subseteq Members(n)'
  BY <1>1, <1>3 DEF About, Members
<1>5. ASSUME NEW c \in About(n, decided) PROVE calls[c].cmd = "put" /\ Earliest(c, Members(n))
  <2>1. calls'[c] = calls[c] BY <1>1 DEF About
  <2> QED BY <1>4, <2>1 DEF Clean, Earliest
<1>6. ASSUME Members(n) # {} PROVE About(n, decided) # {}
  <2>1. PICK m \in Members(n) : TRUE BY <1>6
  <2>2. PICK c \in About(n, decided)' : TRUE BY <1>4, <2>1 DEF Clean
  <2>3. c <= m BY <1>4, <2>1, <2>2 DEF Clean, Earliest
  <2>4. c \in decided
    <3>1. c \in decided' /\ m \in decided /\ m \in Nat BY <1>1, <2>1, <2>2 DEF About, Members
    <3>2. ASSUME NEW d \in Call, decided' = decided \cup {d}, \A e \in decided : e < d PROVE c # d
      BY <1>1, <2>3, <3>1, <3>2
    <3> QED BY <1>3, <3>1, <3>2
  <2> QED BY <1>1, <2>2, <2>4 DEF About
<1> QED BY <1>2, <1>5, <1>6 DEF Clean

\* Once a change of the namespace is applied, the namespace is stored.
LEMMA NsIsStored ==
  ASSUME ClusterInv, OrderInv, NEW n \in Namespace, Clean(n), ReplicaInv(n),
         NEW c \in applied, NsOf[calls[c].res] = n
  PROVE  store[n] # Absent
<1>1. applied \subseteq decided /\ decided \subseteq Call /\ Call \subseteq Nat /\ n \in Resource /\ NsOf[n] = n
  BY ChangesAreCalls DEF Resource, ConstantsOK
<1>2. \E o \in About(n, decided) : o <= c
  <2>1. CASE calls[c].res = n
    <3>1. c \in About(n, decided) /\ c <= c BY <1>1, <2>1 DEF About
    <3> QED BY <3>1
  <2>2. CASE calls[c].res # n
    <3>1. c \in Members(n) BY <1>1, <2>2 DEF Members
    <3> QED BY <3>1 DEF Clean, Earliest
  <2> QED BY <2>1, <2>2
<1>3. PICK o \in About(n, decided) : o <= c BY <1>2
<1>4. o \in applied
  <2>1. o \in decided /\ o \in Nat /\ c \in Nat BY <1>1 DEF About
  <2> QED BY <1>3, <2>1 DEF OrderInv
<1>5. o \in About(n, applied) BY <1>4 DEF About
<1>6. PICK l \in About(n, applied) : store[n] = Effect(calls[l].cmd, l)
  BY <1>1, <1>5 DEF ReplicaInv, Last
<1>7. l \in About(n, decided) /\ l \in Call BY <1>1 DEF About
<1>8. calls[l].cmd = "put" BY <1>7 DEF Clean
<1> QED BY <1>6, <1>7, <1>8 DEF Effect, Call, Absent

LEMMA MadeKept ==
  ASSUME ClusterInv, NEW n \in Namespace, MadeInv(n), Backlog' \subseteq Backlog,
         \A x \in Resource : NsOf[x] = n => store'[x] = store[x],
         \A c \in DOMAIN calls : calls'[c] = calls[c]
  PROVE  MadeInv(n)'
<1>1. Backlog \subseteq DOMAIN calls /\ n \in Resource /\ NsOf[n] = n
  BY ChangesAreCalls DEF Resource, ConstantsOK
<1> QED BY <1>1 DEF MadeInv

LEMMA MadeWrite ==
  ASSUME ClusterInv, mode = "raft", OrderInv, NEW n \in Namespace, ReplicaInv(n), MadeInv(n),
         Clean(n), Clean(n)',
         NEW c \in Call, NEW cmd \in {"put", "delete"}, NEW y \in Resource, Writes(c, cmd, y)
  PROVE  MadeInv(n)'
<1>1. /\ store' = [store EXCEPT ![y] = Effect(cmd, c)]
      /\ decided' = decided \cup {c} /\ calls'[c].res = y /\ calls'[c].cmd = cmd
      /\ \A d \in DOMAIN calls : calls'[d] = calls[d]
  BY DEF Writes, Stores
<1>2. Backlog' = Backlog \cup {c} BY OrderWrite
<1>3. Backlog \subseteq DOMAIN calls /\ decided \subseteq Call /\ Call \subseteq Nat
  BY ChangesAreCalls
<1>4. n \in Resource /\ NsOf[n] = n /\ store \in [Resource -> Version]
  BY DEF Resource, ConstantsOK, ClusterInv, ClusterTypeOK, TypeOK
<1>5. CASE NsOf[y] = n
  <2>1. CASE y = n
    <3>1. c \in About(n, decided)' BY <1>1, <2>1 DEF About
    <3>2. cmd = "put" BY <1>1, <3>1 DEF Clean
    <3>3. store'[n] = c BY <1>1, <1>4, <2>1, <3>2 DEF Effect
    <3> QED BY <3>3 DEF MadeInv, Call, Absent
  <2>2. CASE y # n
    <3>1. c \in Members(n)' BY <1>1, <1>5, <2>2 DEF Members
    <3>2. PICK o \in About(n, decided)' : o <= c BY <3>1 DEF Clean, Earliest
    <3>3. o \in decided /\ calls[o].res = n
      BY <1>1, <2>2, <3>2, ChangesAreCalls DEF About
    <3>4. o \in applied
      <4>1. o # c BY <1>1, <2>2, <3>2 DEF About
      <4>2. \A d \in decided \ applied : c <= d BY DEF Writes, InTurn
      <4> QED BY <1>3, <3>2, <3>3, <4>1, <4>2
    <3>5. store[n] # Absent BY <1>4, <3>3, <3>4, NsIsStored
    <3>6. store'[n] = store[n] BY <1>1, <1>4, <2>2
    <3> QED BY <3>5, <3>6 DEF MadeInv
  <2> QED BY <2>1, <2>2
<1>6. CASE NsOf[y] # n
  <2>1. \A x \in Resource : NsOf[x] = n => store'[x] = store[x] BY <1>1, <1>4, <1>6
  <2> QED BY <1>1, <1>2, <1>3, <1>4, <1>6, <2>1 DEF MadeInv
<1> QED BY <1>5, <1>6

LEMMA MadeCrash ==
  ASSUME mode = "raft", NEW n \in Namespace, MadeInv(n), NodeCrash
  PROVE  MadeInv(n)'
<1>1. Backlog' = {} BY OrderCrash
<1>2. store' = store \/ \A x \in Resource : store'[x] = Absent BY DEF NodeCrash, Crash
<1> QED BY <1>1, <1>2 DEF MadeInv

-----------------------------------------------------------------------------
(* The code that routers run with.                                          *)

FollowsThen(V, n) ==
  \A p \in V : p[1] \in Module \ Broken =>
    /\ NsOf[p[1]] = n /\ p[2] \in decided' /\ calls'[p[2]].res = p[1] /\ calls'[p[2]].cmd = "put"
    /\ executor'[p[1]] = p[2] \/ p[2] \in Pending'

LEMMA FollowsKept ==
  ASSUME NEW n, NEW V, Follows(V, n), decided \subseteq decided',
         \A d \in decided : calls'[d] = calls[d],
         \A m \in Module : NsOf[m] = n => executor'[m] = executor[m],
         \A d \in Pending : NsOf[calls[d].res] = n => d \in Pending'
  PROVE  FollowsThen(V, n)
<1> SUFFICES ASSUME NEW p \in V, p[1] \in Module \ Broken
             PROVE  /\ NsOf[p[1]] = n /\ p[2] \in decided' /\ calls'[p[2]].res = p[1]
                    /\ calls'[p[2]].cmd = "put"
                    /\ executor'[p[1]] = p[2] \/ p[2] \in Pending'
  BY DEF FollowsThen
<1>1. /\ NsOf[p[1]] = n /\ p[2] \in decided /\ calls[p[2]].res = p[1] /\ calls[p[2]].cmd = "put"
      /\ executor[p[1]] = p[2] \/ p[2] \in Pending
  BY DEF Follows, About
<1> QED BY <1>1

\* Steps that neither handle a change of the namespace nor read for its router.
LEMMA CodeKept ==
  ASSUME ClusterInv, NEW n \in Namespace, CodeOfInv(n),
         ~HandlingAt(n, {"failed"})',
         \A m \in Module \ Broken : NsOf[m] = n => HasCode(m)',
         \A m \in Module : NsOf[m] = n => executor'[m] = executor[m], routers'[n] = routers[n],
         \A c \in DOMAIN calls : calls'[c] = calls[c], decided \subseteq decided',
         \A c \in Pending : NsOf[calls[c].res] = n => c \in Pending',
         \A c \in handling' : NsOf[calls'[c].res] = n =>
           /\ task'[c].at = "deps" =>
                c \in handling /\ task'[c] = task[c] /\ InLine \subseteq InLine'
           /\ task'[c].at = "end" /\ calls'[c].res \in Module =>
                c \in handling /\ task'[c] = task[c] /\ InLine \subseteq InLine'
  PROVE  CodeOfInv(n)'
<1>1. decided \subseteq DOMAIN calls /\ handling \subseteq DOMAIN calls BY ChangesAreCalls
<1>2. \A V : Follows(V, n) => FollowsThen(V, n) BY <1>1, FollowsKept
<1>4. routers'[n] # NoRouter => Follows(routers[n], n)'
  <2>1. routers'[n] # NoRouter => FollowsThen(routers'[n], n) BY <1>2 DEF CodeOfInv
  <2> QED BY <2>1 DEF FollowsThen, Follows, About
<1>5. ASSUME NEW c \in handling', NsOf[calls'[c].res] = n, task'[c].at = "deps"
      PROVE  Follows(task[c].seen, n)' /\ Newest(task[c].seen, c)'
  <2>1. c \in handling /\ task'[c] = task[c] /\ calls'[c] = calls[c] /\ InLine \subseteq InLine'
    BY <1>1, <1>5
  <2>2. Follows(task[c].seen, n) /\ Newest(task[c].seen, c) BY <1>5, <2>1 DEF CodeOfInv
  <2>3. FollowsThen(task'[c].seen, n) BY <1>2, <2>1, <2>2
  <2> QED BY <2>1, <2>2, <2>3 DEF FollowsThen, Follows, About, Newest
<1>6. ASSUME NEW c \in handling', NsOf[calls'[c].res] = n, task'[c].at = "end",
             calls'[c].res \in Module, routers'[n] # NoRouter
      PROVE  Newest(routers[n], c)'
  <2>1. c \in handling /\ task'[c] = task[c] /\ calls'[c] = calls[c] /\ InLine \subseteq InLine'
    BY <1>1, <1>6
  <2>2. Newest(routers[n], c) BY <1>6, <2>1 DEF CodeOfInv
  <2> QED BY <2>1, <2>2 DEF Newest
<1> QED BY <1>4, <1>5, <1>6 DEF CodeOfInv

\* What the executor has of a module when nothing about it happens.
LEMMA HasCodeKept ==
  ASSUME ClusterInv, NEW m \in Module \ Broken, HasCode(m), store'[m] = store[m],
         executor'[m] = executor[m], \A c \in DOMAIN calls : calls'[c] = calls[c],
         \A c \in Backlog : calls[c].res = m => c \in Backlog',
         store[m] \in decided \ applied => store[m] \in decided' \ applied'
  PROVE  HasCode(m)'
<1>1. Backlog \subseteq DOMAIN calls BY ChangesAreCalls
<1>2. ASSUME NEW c \in About(m, Backlog) PROVE c \in About(m, Backlog)'
  BY <1>1, <1>2 DEF About
<1> QED BY <1>2 DEF HasCode

\* The code of a stored module that is not on its way is what the executor has.
LEMMA StoredCode ==
  ASSUME ClusterInv, NEW n \in Namespace, ReplicaInv(n), LineInv(n), CodeOfInv(n),
         NEW m \in Module \ Broken, NsOf[m] = n, store[m] # Absent
  PROVE  /\ store[m] \in About(m, decided) /\ calls[store[m]].cmd = "put"
         /\ executor[m] = store[m] \/ store[m] \in Pending
<1>1. m \in Resource BY DEF Resource
<1>2. store[m] \in About(m, decided) /\ calls[store[m]].cmd = "put"
  BY <1>1 DEF ReplicaInv
<1>3. \A c : Brings(c, m) => store[m] = c BY DEF Brings, Effect
<1>4. ASSUME About(m, Backlog) # {} PROVE store[m] \in Pending
  <2>1. PICK b \in Backlog : calls[b].res = m BY <1>4 DEF About
  <2>2. \E c \in Backlog : Brings(c, m)
    <3>1. Backlog = InLine \cup handling /\ sending \subseteq InLine
          /\ \A i \in DOMAIN queue : queue[i] \in InLine
      BY ChangesAreCalls
    <3>2. CASE b \in sending BY <1>1, <2>1, <3>1, <3>2 DEF LineInv
    <3>3. ASSUME NEW i \in DOMAIN queue, b = queue[i] PROVE \E c \in Backlog : Brings(c, m)
      <4>1. (\E c \in sending : Brings(c, m)) \/ \E j \in DOMAIN queue : Brings(queue[j], m)
        BY <1>1, <2>1, <3>3 DEF LineInv
      <4> QED BY <3>1, <4>1
    <3>4. CASE b \in handling
      <4>1. Brings(b, m) \/ \E d \in InLine : Brings(d, m)
        BY <1>1, <2>1, <3>4 DEF LineInv
      <4> QED BY <3>1, <3>4, <4>1
    <3> QED BY <2>1, <3>2, <3>3, <3>4 DEF Backlog
  <2> QED BY <1>3, <2>2 DEF Pending
<1>5. About(m, Backlog) = {} => executor[m] = store[m] \/ store[m] \in Pending
  BY DEF CodeOfInv, HasCode, Pending
<1> QED BY <1>2, <1>4, <1>5

\* What the processor reads of the resource it works on is what its change
\* brought, or what one in line did.
LEMMA ReadsNewest ==
  ASSUME NEW n \in Namespace, LineInv(n), NEW c \in handling, NEW x \in Resource,
         NsOf[x] = n, calls[c].res = x, store[x] # Absent
  PROVE  store[x] = c \/ store[x] \in InLine
<1>1. Brings(c, x) \/ \E d \in InLine : Brings(d, x) BY DEF LineInv
<1> QED BY <1>1 DEF Brings, Effect

\* The processor works on a change of the namespace itself.
LEMMA CodeRebuild ==
  ASSUME ClusterInv, OwnersInv, OrderInv, NEW c \in Call, RebuildStep(c),
         NEW n \in Namespace, Ns(c) = n, Clean(n), ReplicaInv(n), LineInv(n), MadeInv(n), CodeOfInv(n)
  PROVE  CodeOfInv(n)'
<1>1. /\ c \in TaskId /\ handling = {c} /\ handling' = {c} /\ (DropRouter(c) \/ Rebuild(c))
      /\ n = NsOf[calls[c].res] /\ task[c].res = calls[c].res /\ c \in decided
      /\ UNCHANGED <<calls, decided, applied, sending, queue, handling>>
      /\ task[c].cmd = calls[c].cmd
      /\ task'[c].at \in {"namespace", "routes", "deps", "failed"} => task[c].res \in Compiling
  BY RebuildFrame DEF clusterVars
<1>2. TypeOK /\ task[c] \in Task /\ Owned(c) BY <1>1 DEF ClusterInv, ClusterTypeOK, TypeOK, OwnersInv
<1>3. UNCHANGED <<store, executor>>
  BY <1>1 DEF DropRouter, Rebuild, ReadNamespace, ReadRoutes, InsertRouter, ReadDomains, InsertDomains,
              ReadDependency, Resolve, storage, serving
<1>4. Backlog' = Backlog /\ Pending' = Pending /\ InLine' = InLine BY <1>1, OrderSame
<1>5. store[n] # Absent BY <1>1 DEF MadeInv, Backlog
<1>f. \A at \in Steps : Moves(c, at) => task'[c].at = at
  BY <1>1, <1>2, MovesType DEF TypeOK
<1>g. \A m \in Module \ Broken : NsOf[m] = n => HasCode(m)'
  BY <1>1, <1>3, <1>4 DEF CodeOfInv, HasCode, About
<1>h. \A steps : HandlingAt(n, steps)' <=> task'[c].at \in steps
  BY <1>1 DEF HandlingAt
\* steps after which the task is neither reading for a router nor through with a module
<1>6. ASSUME routers' = routers, task'[c].at \notin {"deps", "failed"},
             task'[c].at = "end" => calls[c].res \notin Module
      PROVE  CodeOfInv(n)'
  BY <1>1, <1>3, <1>4, <1>6, <1>g, <1>h, CodeKept
<1>7. CASE DropRouter(c)
  <2>1. c \in About(n, decided) /\ calls[c].cmd = "delete"
    BY <1>1, <1>2, <1>7 DEF DropRouter, Owned, About, ConstantsOK
  <2> QED BY <2>1 DEF Clean
<1>8. CASE ReadNamespace(c)
  <2>1. task'[c].at = "routes" /\ routers' = routers
    BY <1>1, <1>5, <1>8, <1>f DEF ReadNamespace, Steps, serving
  <2> QED BY <1>6, <2>1
<1>9. CASE ReadRoutes(c)
  <2>1. /\ task'[c].at = "deps" /\ routers' = routers
        /\ task'[c].seen = Stored({r \in Route : NsOf[r] = Ns(c)})
    BY <1>1, <1>2, <1>9 DEF ReadRoutes, Task, TypeOK, serving
  <2>2. \A p \in task'[c].seen : p[1] \in Route /\ p[2] = store[p[1]] /\ p[2] # Absent
    BY <2>1 DEF Stored
  <2>3. Follows(task[c].seen, n)' BY <2>2, KindsApart DEF Follows
  <2>4. Newest(task[c].seen, c)'
    <3>1. ASSUME NEW p \in task'[c].seen, p[1] = calls[c].res PROVE p[2] = c \/ p[2] \in InLine
      BY <1>1, <2>2, <3>1, ReadsNewest DEF Resource
    <3> QED BY <1>1, <1>4, <3>1 DEF Newest
  <2>5. routers'[n] # NoRouter => Follows(routers[n], n)'
    BY <1>1, <1>3, <1>4, <2>1 DEF CodeOfInv, Follows, About
  <2> QED BY <1>1, <1>g, <1>h, <2>1, <2>3, <2>4, <2>5 DEF CodeOfInv
<1>10. ASSUME NEW x \in Resource, ReadDependency(c, x) PROVE CodeOfInv(n)'
  <2>1. /\ task[c].at = "deps" /\ task'[c].at = "deps" /\ routers' = routers /\ x \in task[c].todo
        /\ task'[c].seen = task[c].seen \cup Stored({x})
    BY <1>1, <1>2, <1>10 DEF ReadDependency, Task, TypeOK, serving
  <2>2. NsOf[x] = n BY <1>1, <1>2, <2>1 DEF Owned
  <2>3. \A p \in Stored({x}) : p[1] = x /\ p[2] = store[x] /\ store[x] # Absent
    BY DEF Stored
  <2>4. Follows(task[c].seen, n) /\ Newest(task[c].seen, c) BY <1>1, <2>1 DEF CodeOfInv
  <2>5. Follows(task[c].seen, n)'
    <3>1. ASSUME NEW p \in task'[c].seen, p[1] \in Module \ Broken
          PROVE  /\ NsOf[p[1]] = n /\ p[2] \in About(p[1], decided) /\ calls[p[2]].cmd = "put"
                 /\ executor[p[1]] = p[2] \/ p[2] \in Pending
      <4>1. CASE p \in task[c].seen BY <2>4, <3>1, <4>1 DEF Follows
      <4>2. CASE p \in Stored({x}) BY <2>2, <2>3, <3>1, <4>2, StoredCode
      <4> QED BY <2>1, <4>1, <4>2
    <3> QED BY <1>1, <1>3, <1>4, <3>1 DEF Follows, About
  <2>6. Newest(task[c].seen, c)'
    <3>1. ASSUME NEW p \in task'[c].seen, p[1] = calls[c].res PROVE p[2] = c \/ p[2] \in InLine
      <4>1. CASE p \in task[c].seen BY <2>4, <3>1, <4>1 DEF Newest
      <4>2. CASE p \in Stored({x}) BY <1>1, <2>2, <2>3, <3>1, <4>2, ReadsNewest
      <4> QED BY <2>1, <4>1, <4>2
    <3> QED BY <1>1, <1>4, <3>1 DEF Newest
  <2>7. routers'[n] # NoRouter => Follows(routers[n], n)'
    BY <1>1, <1>3, <1>4, <2>1 DEF CodeOfInv, Follows, About
  <2> QED BY <1>1, <1>g, <1>h, <2>1, <2>5, <2>6, <2>7 DEF CodeOfInv
<1>11. CASE InsertRouter(c)
  <2>1. /\ task[c].at = "deps" /\ routers'[n] = task[c].seen /\ task'[c].at = "end"
    BY <1>1, <1>2, <1>11, <1>f DEF InsertRouter, TypeOK, Steps
  <2>2. Follows(task[c].seen, n) /\ Newest(task[c].seen, c) BY <1>1, <2>1 DEF CodeOfInv
  <2>3. Follows(routers[n], n)' BY <1>1, <1>3, <1>4, <2>1, <2>2 DEF Follows, About
  <2>4. Newest(routers[n], c)' BY <1>1, <1>4, <2>1, <2>2 DEF Newest
  <2> QED BY <1>1, <1>g, <1>h, <2>1, <2>3, <2>4 DEF CodeOfInv
<1>12. ASSUME task[c].at \in DomainSteps, routers' = routers, task'[c].at \in DomainSteps \cup {"end"}
       PROVE  CodeOfInv(n)'
  <2>1. calls[c].res \notin Module BY <1>1, <1>2, <1>12, KindsApart DEF Owned
  <2> QED BY <1>6, <1>12, <2>1 DEF DomainSteps
<1>13. CASE ReadDomains(c)
  BY <1>1, <1>2, <1>12, <1>13 DEF ReadDomains, TypeOK, Task, DomainSteps, serving
<1>14. ASSUME NEW x \in Resource, Resolve(c, x) PROVE CodeOfInv(n)'
  BY <1>1, <1>2, <1>12, <1>14 DEF Resolve, TypeOK, Task, DomainSteps, serving
<1>15. CASE InsertDomains(c)
  BY <1>12, <1>15, <1>f DEF InsertDomains, DomainSteps, Steps
<1> QED BY <1>1, <1>7, <1>8, <1>9, <1>10, <1>11, <1>13, <1>14, <1>15 DEF Rebuild

LEMMA CodeAlien ==
  ASSUME ClusterInv, OwnersInv, OrderInv, Alien, NEW n \in Namespace, Shared(n), CodeOfInv(n)
  PROVE  CodeOfInv(n)'
<1>1. /\ UNCHANGED <<decided, applied, sending, queue, handling>>
      /\ \A c \in DOMAIN calls : calls'[c] = calls[c]
      /\ \A c \in handling : task'[c] = task[c]
  BY AlienFrame
<1>2. Untouched(n) BY AlienFrame
<1>3. Backlog' = Backlog /\ Pending' = Pending /\ InLine' = InLine BY <1>1, OrderSame
<1>4. handling \subseteq DOMAIN calls BY ChangesAreCalls
<1>5. ~HandlingAt(n, {"failed"})' BY <1>1, <1>4 DEF CodeOfInv, HandlingAt
<1>6. ASSUME NEW m \in Module \ Broken, NsOf[m] = n PROVE HasCode(m)'
  <2>1. store'[m] = store[m] /\ executor'[m] = executor[m] BY <1>2, <1>6 DEF Untouched, Resource
  <2>2. HasCode(m) BY <1>6 DEF CodeOfInv
  <2> QED BY <1>1, <1>3, <2>1, <2>2, HasCodeKept
<1> QED BY <1>1, <1>2, <1>3, <1>5, <1>6, CodeKept DEF Untouched

LEMMA CodeWrite ==
  ASSUME ClusterInv, OwnersInv, mode = "raft", OrderInv, NEW n \in Namespace, ReplicaInv(n), CodeOfInv(n),
         NEW c \in Call, NEW cmd \in {"put", "delete"}, NEW y \in Resource, Writes(c, cmd, y)
  PROVE  CodeOfInv(n)'
<1>1. /\ store' = [store EXCEPT ![y] = Effect(cmd, c)] /\ UNCHANGED <<executor, routers, task>>
      /\ decided' = decided \cup {c} /\ applied' = applied \cup {c} /\ calls'[c].res = y
      /\ \A d \in DOMAIN calls : calls'[d] = calls[d]
  BY DEF Writes, Stores, serving
<1>2. /\ Backlog' = Backlog \cup {c} /\ Pending' = Pending \cup {c} /\ handling' = handling
      /\ InLine' = InLine \cup {c}
  BY OrderWrite
<1>3. handling \subseteq DOMAIN calls /\ decided \subseteq DOMAIN calls /\ decided \subseteq Call
  BY ChangesAreCalls
<1>4. store \in [Resource -> Version] BY DEF ClusterInv, ClusterTypeOK, TypeOK
<1>5. ~HandlingAt(n, {"failed"})' BY <1>1, <1>2, <1>3 DEF CodeOfInv, HandlingAt
<1>6. ASSUME NEW m \in Module \ Broken, NsOf[m] = n PROVE HasCode(m)'
  <2>1. CASE m = y
    <3>1. c \in About(m, Backlog)' BY <1>1, <1>2, <2>1 DEF About
    <3> QED BY <3>1 DEF HasCode
  <2>2. CASE m # y
    <3>1. m \in Resource /\ store'[m] = store[m] BY <1>1, <1>4, <2>2 DEF Resource
    <3>2. ASSUME store[m] \in decided \ applied PROVE store[m] \in decided' \ applied'
      <4>1. store[m] # Absent BY <1>3, <3>2 DEF Call, Absent
      <4>2. calls[store[m]].res = m BY <1>6, <3>1, <4>1 DEF ReplicaInv, About
      <4>3. store[m] # c BY <1>1, <1>3, <2>2, <3>2, <4>2
      <4> QED BY <1>1, <3>2, <4>3
    <3>3. HasCode(m) BY <1>6 DEF CodeOfInv
    <3> QED BY <1>1, <1>2, <3>1, <3>2, <3>3, HasCodeKept
  <2> QED BY <2>1, <2>2
<1> QED BY <1>1, <1>2, <1>5, <1>6, CodeKept

LEMMA CodeSend ==
  ASSUME ClusterInv, OrderInv, NEW n \in Namespace, CodeOfInv(n), NEW c \in Call, SendChange(c)
  PROVE  CodeOfInv(n)'
<1>1. UNCHANGED <<calls, store, executor, routers, task, decided, applied, handling>>
  BY DEF SendChange, vars, storage, serving
<1>2. Backlog' = Backlog /\ Pending' = Pending /\ InLine' = InLine BY OrderSend
<1>3. ~HandlingAt(n, {"failed"})' BY <1>1 DEF CodeOfInv, HandlingAt
<1>4. \A m \in Module \ Broken : NsOf[m] = n => HasCode(m)'
  BY <1>1, <1>2, HasCodeKept DEF CodeOfInv
<1> QED BY <1>1, <1>2, <1>3, <1>4, CodeKept

LEMMA CodeTake ==
  ASSUME ClusterInv, OrderInv, NEW n \in Namespace, CodeOfInv(n), TakeChange
  PROVE  CodeOfInv(n)'
<1>0. SUFFICES ASSUME NEW c, c = Head(queue) PROVE CodeOfInv(n)' OBVIOUS
<1>1. /\ handling' = {c} /\ UNCHANGED <<calls, store, executor, routers, decided, applied>>
      /\ task'[c].at = FirstStep(calls[c].cmd, calls[c].res)
  BY <1>0, TakeFrame
<1>2. Backlog' = Backlog /\ Pending' = Pending BY OrderTake
<1>3. /\ task'[c].at \notin {"failed", "deps"}
      /\ task'[c].at = "end" => calls'[c].res \notin Module
  BY <1>1, FirstSteps DEF Compiling
<1>4. ~HandlingAt(n, {"failed"})' BY <1>1, <1>3 DEF HandlingAt
<1>5. \A m \in Module \ Broken : NsOf[m] = n => HasCode(m)'
  BY <1>1, <1>2, HasCodeKept DEF CodeOfInv
<1> QED BY <1>1, <1>2, <1>3, <1>4, <1>5, CodeKept

LEMMA CodeRebuildElse ==
  ASSUME ClusterInv, OwnersInv, OrderInv, NEW n \in Namespace, CodeOfInv(n),
         NEW c \in Call, RebuildStep(c), Ns(c) # n
  PROVE  CodeOfInv(n)'
<1>1. /\ c \in TaskId /\ handling' = {c} /\ Process(c) /\ (DropRouter(c) \/ Rebuild(c))
      /\ Ns(c) = NsOf[calls[c].res]
      /\ UNCHANGED <<calls, decided, applied, sending, queue, handling>>
  BY RebuildFrame DEF clusterVars
<1>2. UNCHANGED <<store, executor>>
  BY <1>1 DEF DropRouter, Rebuild, ReadNamespace, ReadRoutes, InsertRouter, ReadDomains, InsertDomains,
              ReadDependency, Resolve, storage, serving
<1>3. routers'[n] = routers[n] BY <1>1, ProcessTouches DEF ClusterInv, ClusterTypeOK
<1>4. Backlog' = Backlog /\ Pending' = Pending BY <1>1, OrderSame
<1>5. ~HandlingAt(n, {"failed"})' BY <1>1 DEF HandlingAt
<1>6. \A m \in Module \ Broken : NsOf[m] = n => HasCode(m)'
  BY <1>1, <1>2, <1>4, HasCodeKept DEF CodeOfInv
<1> QED BY <1>1, <1>2, <1>3, <1>4, <1>5, <1>6, CodeKept

LEMMA CodeFinish ==
  ASSUME ClusterInv, OwnersInv, OrderInv, NEW n \in Namespace, LineInv(n), CodeOfInv(n),
         NEW c \in Call, FinishChange(c)
  PROVE  CodeOfInv(n)'
<1>1. /\ c \in decided /\ handling = {c} /\ handling' = {} /\ task[c].at \in {"end", "failed"}
      /\ task[c].res = calls[c].res /\ task[c].cmd = calls[c].cmd
      /\ UNCHANGED <<calls, store, routers, decided, applied>>
  BY FinishFrame
<1>2. /\ Backlog' = InLine /\ Backlog = InLine \cup {c}
      /\ Pending \ {c} \subseteq Pending' /\ InLine \subseteq Pending'
  BY OrderFinish
<1>3. executor' = IF ToExecutor(c) THEN ExecutorHas(c) ELSE executor
  BY DEF FinishChange
<1>4. executor \in [Module -> Version] BY DEF ClusterInv, ClusterTypeOK, TypeOK
<1>5. \A m \in Module : m # calls[c].res => executor'[m] = executor[m]
  BY <1>1, <1>3, <1>4 DEF ExecutorHas
<1>6. \A steps : ~HandlingAt(n, steps)' BY <1>1 DEF HandlingAt
<1>7. ASSUME NEW m \in Module \ Broken, NsOf[m] = n, m # calls[c].res PROVE HasCode(m)'
  <2>1. \A d \in Backlog : calls[d].res = m => d \in Backlog' BY <1>2, <1>7
  <2>2. HasCode(m) BY <1>7 DEF CodeOfInv
  <2> QED BY <1>1, <1>5, <1>7, <2>1, <2>2, HasCodeKept
<1>8. CASE NsOf[calls[c].res] # n
  <2>1. \A m \in Module : NsOf[m] = n => executor'[m] = executor[m] BY <1>5, <1>8
  <2>2. \A m \in Module \ Broken : NsOf[m] = n => HasCode(m)' BY <1>7, <1>8
  <2> QED BY <1>1, <1>2, <1>6, <1>8, <2>1, <2>2, CodeKept
<1>9. CASE NsOf[calls[c].res] = n
  <2>1. task[c].at = "end" BY <1>1, <1>9 DEF CodeOfInv, HandlingAt
  <2>2. \A m \in Module \ Broken : m = calls[c].res => executor'[m] = Effect(calls[c].cmd, c)
    BY <1>1, <1>3, <1>4, <2>1 DEF ToExecutor, ExecutorHas
  <2>3. ASSUME NEW m \in Module \ Broken, NsOf[m] = n, m = calls[c].res PROVE HasCode(m)'
    <3>1. m \in Resource BY DEF Resource
    <3>2. Brings(c, m) \/ \E d \in InLine : Brings(d, m)
      BY <1>1, <2>3, <3>1 DEF LineInv
    <3>3. CASE Brings(c, m)
      BY <1>1, <2>2, <2>3, <3>3 DEF Brings, HasCode
    <3>4. CASE \E d \in InLine : Brings(d, m)
      <4>1. \E d \in Backlog' : calls'[d].res = m BY <1>1, <1>2, <3>4 DEF Brings
      <4> QED BY <4>1 DEF HasCode, About
    <3> QED BY <3>2, <3>3, <3>4
  <2>4. ASSUME routers'[n] # NoRouter PROVE Follows(routers[n], n)'
    <3>1. ASSUME NEW p \in routers[n], p[1] \in Module \ Broken
          PROVE  /\ NsOf[p[1]] = n /\ p[2] \in About(p[1], decided) /\ calls[p[2]].cmd = "put"
                 /\ executor'[p[1]] = p[2] \/ p[2] \in Pending'
      <4>1. /\ NsOf[p[1]] = n /\ p[2] \in About(p[1], decided) /\ calls[p[2]].cmd = "put"
            /\ executor[p[1]] = p[2] \/ p[2] \in Pending
        BY <1>1, <2>4, <3>1 DEF CodeOfInv, Follows
      <4>2. CASE p[1] # calls[c].res
        <5>1. p[2] # c BY <4>1, <4>2 DEF About
        <5> QED BY <1>2, <1>5, <3>1, <4>1, <4>2, <5>1
      <4>3. CASE p[1] = calls[c].res
        <5>1. p[2] = c \/ p[2] \in InLine
          BY <1>1, <1>9, <2>1, <2>4, <3>1, <4>3 DEF CodeOfInv, Newest
        <5>2. CASE p[2] = c BY <2>2, <3>1, <4>1, <4>3, <5>2 DEF Effect
        <5> QED BY <1>2, <4>1, <5>1, <5>2
      <4> QED BY <4>2, <4>3
    <3> QED BY <1>1, <3>1 DEF Follows, About
  <2> QED BY <1>1, <1>6, <1>7, <2>3, <2>4 DEF CodeOfInv
<1> QED BY <1>8, <1>9

LEMMA CodeCrash ==
  ASSUME ClusterInv, mode = "raft", NEW n \in Namespace, ReplicaInv(n), NodeCrash
  PROVE  CodeOfInv(n)'
<1>1. /\ handling' = {} /\ applied' = {} /\ decided' = decided BY OrderCrash
<1>2. /\ routers'[n] = NoRouter /\ \A m \in Module : executor'[m] = Absent
      /\ store' = store \/ \A x \in Resource : store'[x] = Absent
  BY DEF NodeCrash, Crash
<1>3. ASSUME NEW m \in Module \ Broken, NsOf[m] = n PROVE HasCode(m)'
  <2>1. m \in Resource BY DEF Resource
  <2>2. store[m] # Absent => store[m] \in decided BY <1>3, <2>1 DEF ReplicaInv, About
  <2> QED BY <1>1, <1>2, <2>1, <2>2 DEF HasCode
<1>4. ~HandlingAt(n, {"failed"})' BY <1>1 DEF HandlingAt
<1> QED BY <1>1, <1>2, <1>3, <1>4 DEF CodeOfInv

LEMMA CodeInstall ==
  ASSUME ClusterInv, OrderInv, NEW n \in Namespace, CodeOfInv(n), InstallSnapshot
  PROVE  CodeOfInv(n)'
<1>1. UNCHANGED <<calls, store, executor, routers, task, decided, handling>> /\ applied' = {}
  BY InstallFrame
<1>2. Backlog' = Backlog /\ Pending \subseteq Pending' /\ InLine' = InLine BY OrderInstall
<1>3. ~HandlingAt(n, {"failed"})' BY <1>1 DEF CodeOfInv, HandlingAt
<1>4. \A m \in Module \ Broken : NsOf[m] = n => HasCode(m)'
  BY <1>1, <1>2, HasCodeKept DEF CodeOfInv
<1> QED BY <1>1, <1>2, <1>3, <1>4, CodeKept

-----------------------------------------------------------------------------
(* Routers that must exist.                                                 *)

LEMMA BuiltKept ==
  ASSUME NEW n \in Namespace, BuiltInv(n), routers'[n] = routers[n],
         \A x \in Compiling : NsOf[x] = n => store'[x] = store[x],
         Through(n)' => Through(n), Coming(n) => Coming(n)',
         HandlingAt(n, {"namespace", "routes", "deps"}) => HandlingAt(n, {"namespace", "routes", "deps"})'
  PROVE  BuiltInv(n)'
<1>1. Compiled(n)' = Compiled(n) BY CompiledSame DEF Compiling
<1> QED BY <1>1 DEF BuiltInv

\* Steps that decide on nothing and apply nothing.
LEMMA ThroughSame ==
  ASSUME NEW n, UNCHANGED <<calls, decided, applied>>
  PROVE  Through(n)' <=> Through(n)
BY DEF Through, Calling

LEMMA BuiltAlien ==
  ASSUME ClusterInv, OwnersInv, OrderInv, Alien, NEW n \in Namespace, Shared(n), BuiltInv(n)
  PROVE  BuiltInv(n)'
<1>1. /\ UNCHANGED <<decided, applied, sending, queue, handling>>
      /\ \A c \in DOMAIN calls : calls'[c] = calls[c]
      /\ \A c \in handling : task'[c] = task[c]
  BY AlienFrame
<1>2. Untouched(n) BY AlienFrame
<1>3. InLine' = InLine BY <1>1, OrderSame
<1>4. handling \subseteq DOMAIN calls /\ decided \subseteq DOMAIN calls /\ InLine \subseteq DOMAIN calls
  BY ChangesAreCalls
<1>5. Through(n)' => Through(n)
  <2>1. \A c \in decided : calls'[c] = calls[c] BY <1>1, <1>4
  <2>2. Calling(n)' = Calling(n) BY <1>1, <2>1 DEF Calling
  <2> QED BY <1>1, <2>2 DEF Through
<1>6. Coming(n) => Coming(n)' BY <1>1, <1>3, <1>4 DEF Coming, DropComing
<1>7. \A steps : HandlingAt(n, steps) => HandlingAt(n, steps)' BY <1>1, <1>4 DEF HandlingAt
<1>8. Compiling \subseteq Resource BY DEF Compiling, Resource
<1> QED BY <1>2, <1>5, <1>6, <1>7, <1>8, BuiltKept DEF Untouched

LEMMA BuiltWrite ==
  ASSUME ClusterInv, mode = "raft", OrderInv, NEW n \in Namespace, BuiltInv(n),
         NEW c \in Call, NEW cmd \in {"put", "delete"}, NEW y \in Resource, Writes(c, cmd, y)
  PROVE  BuiltInv(n)'
<1>1. /\ store' = [store EXCEPT ![y] = Effect(cmd, c)] /\ UNCHANGED <<routers, task>>
      /\ decided' = decided \cup {c} /\ applied' = applied \cup {c}
      /\ calls'[c].res = y /\ \A d \in DOMAIN calls : calls'[d] = calls[d]
  BY DEF Writes, Stores, serving
<1>2. handling' = handling /\ InLine' = InLine \cup {c} BY OrderWrite
<1>3. handling \subseteq DOMAIN calls /\ decided \subseteq DOMAIN calls /\ InLine \subseteq DOMAIN calls
  BY ChangesAreCalls
<1>4. Coming(n) => Coming(n)' BY <1>1, <1>2, <1>3 DEF Coming, DropComing
<1>5. \A steps : HandlingAt(n, steps) => HandlingAt(n, steps)' BY <1>1, <1>2, <1>3 DEF HandlingAt
<1>6. CASE y \in Compiling /\ NsOf[y] = n
  <2>1. Coming(n)' BY <1>1, <1>2, <1>6 DEF Coming
  <2> QED BY <2>1 DEF BuiltInv
<1>7. CASE ~(y \in Compiling /\ NsOf[y] = n)
  <2>1. store \in [Resource -> Version] BY DEF ClusterInv, ClusterTypeOK, TypeOK
  <2>2. \A x \in Compiling : NsOf[x] = n => store'[x] = store[x]
    BY <1>1, <1>7, <2>1 DEF Compiling, Resource
  <2>3. \A d \in decided : calls'[d] = calls[d] BY <1>1, <1>3
  <2>4. Calling(n)' = Calling(n) /\ c \notin Calling(n) BY <1>1, <1>7, <2>3 DEF Calling
  <2>5. Through(n)' => Through(n) BY <1>1, <2>4 DEF Through
  <2> QED BY <1>1, <1>4, <1>5, <2>2, <2>5, BuiltKept
<1> QED BY <1>6, <1>7

LEMMA BuiltSend ==
  ASSUME ClusterInv, OrderInv, NEW n \in Namespace, BuiltInv(n), NEW c \in Call, SendChange(c)
  PROVE  BuiltInv(n)'
<1>1. UNCHANGED <<calls, store, routers, task, handling>>
  BY DEF SendChange, vars, storage, serving
<1>2. InLine' = InLine BY OrderSend
<1>3. Through(n)' <=> Through(n) BY ThroughSame DEF SendChange, vars
<1>4. /\ Coming(n) => Coming(n)'
      /\ \A steps : HandlingAt(n, steps) => HandlingAt(n, steps)'
  BY <1>1, <1>2 DEF Coming, DropComing, HandlingAt
<1> QED BY <1>1, <1>3, <1>4, BuiltKept

LEMMA BuiltTake ==
  ASSUME ClusterInv, OrderInv, NEW n \in Namespace, Clean(n), BuiltInv(n), TakeChange
  PROVE  BuiltInv(n)'
<1>0. SUFFICES ASSUME NEW c, c = Head(queue) PROVE BuiltInv(n)' OBVIOUS
<1>1. /\ c \in decided /\ handling = {} /\ handling' = {c} /\ UNCHANGED <<calls, store, routers>>
      /\ task'[c].at = FirstStep(calls[c].cmd, calls[c].res)
      /\ InLine \subseteq InLine' \cup {c}
  BY <1>0, TakeFrame
<1>3. Through(n)' => Through(n) BY ThroughSame DEF TakeChange
<1>4. ~(calls[c].res = n /\ calls[c].cmd = "delete") BY <1>1 DEF Clean, About
<1>5. CASE calls[c].res \in Compiling /\ NsOf[calls[c].res] = n
  <2>1. task'[c].at = "namespace" BY <1>1, <1>5, FirstSteps
  <2>2. HandlingAt(n, {"namespace", "routes", "deps"})' BY <1>1, <1>5, <2>1 DEF HandlingAt
  <2> QED BY <2>2 DEF BuiltInv
<1>6. CASE ~(calls[c].res \in Compiling /\ NsOf[calls[c].res] = n)
  <2>1. Coming(n) => Coming(n)' BY <1>1, <1>4, <1>6 DEF Coming, DropComing
  <2>2. \A steps : ~HandlingAt(n, steps) BY <1>1 DEF HandlingAt
  <2> QED BY <1>1, <1>3, <2>1, <2>2, BuiltKept
<1> QED BY <1>5, <1>6

\* A rebuild ends with the router that is current, or with one on its way.
LEMMA BuiltRebuild ==
  ASSUME ClusterInv, OwnersInv, OrderInv, NEW c \in Call, RebuildStep(c),
         NEW n \in Namespace, Clean(n), RoutedInv(n), MadeInv(n), BuiltInv(n)
  PROVE  BuiltInv(n)'
<1>1. /\ c \in TaskId /\ handling = {c} /\ handling' = {c} /\ Process(c) /\ (DropRouter(c) \/ Rebuild(c))
      /\ Ns(c) = NsOf[calls[c].res] /\ task[c].res = calls[c].res /\ c \in decided
      /\ task[c].cmd = calls[c].cmd
      /\ UNCHANGED <<calls, decided, applied, sending, queue, handling>>
  BY RebuildFrame DEF clusterVars
<1>2. TypeOK /\ task[c] \in Task /\ Owned(c) BY <1>1 DEF ClusterInv, ClusterTypeOK, TypeOK, OwnersInv
<1>3. /\ InLine' = InLine /\ (Coming(n)' <=> Coming(n)) BY <1>1, LineSame
<1>4. UNCHANGED store
  BY <1>1 DEF DropRouter, Rebuild, ReadNamespace, ReadRoutes, InsertRouter, ReadDomains, InsertDomains,
              ReadDependency, Resolve, storage
<1>5. Through(n)' <=> Through(n) BY <1>1, ThroughSame
<1>6. CASE Ns(c) # n
  <2>1. routers'[n] = routers[n] BY <1>1, <1>2, <1>6, ProcessTouches
  <2>2. \A steps : ~HandlingAt(n, steps) BY <1>1, <1>6 DEF HandlingAt
  <2> QED BY <1>3, <1>4, <1>5, <2>1, <2>2, BuiltKept
<1>7. ASSUME Ns(c) = n PROVE BuiltInv(n)'
  <2>h. \A steps : HandlingAt(n, steps)' <=> task'[c].at \in steps
    BY <1>1, <1>7 DEF HandlingAt
  <2>f. \A at \in Steps : Moves(c, at) => task'[c].at = at
    BY <1>1, <1>2, MovesType DEF TypeOK
  <2>g. ASSUME task'[c].at \in {"namespace", "routes", "deps"} PROVE BuiltInv(n)'
    BY <2>h, <2>g DEF BuiltInv
  <2>1. CASE DropRouter(c)
    <3>1. c \in About(n, decided) /\ calls[c].cmd = "delete"
      BY <1>1, <1>2, <1>7, <2>1 DEF DropRouter, Owned, About, Ns, ConstantsOK
    <3> QED BY <3>1 DEF Clean
  <2>2. CASE ReadNamespace(c)
    <3>1. store[n] # Absent BY <1>1, <1>7 DEF MadeInv, Backlog
    <3>2. task'[c].at = "routes" BY <1>7, <2>2, <2>f, <3>1 DEF ReadNamespace, Steps
    <3> QED BY <2>g, <3>2
  <2>3. CASE ReadRoutes(c)
    BY <1>1, <1>2, <2>3, <2>g DEF ReadRoutes, Task, TypeOK
  <2>4. ASSUME NEW x \in Resource, ReadDependency(c, x) PROVE BuiltInv(n)'
    BY <1>1, <1>2, <2>4, <2>g DEF ReadDependency, Task, TypeOK
  <2>5. CASE InsertRouter(c)
    <3>1. /\ task[c].at = "deps" /\ task[c].todo = {} /\ routers'[n] = task[c].seen
      BY <1>2, <1>7, <2>5 DEF InsertRouter, TypeOK
    <3>2. Stored({}) = {} BY DEF Stored
    <3>3. Coming(n) \/ task[c].seen = Compiled(n)
      <4>1. Coming(n) \/ task[c].seen \cup Stored(task[c].todo) = Compiled(n)
        BY <1>1, <1>7, <3>1 DEF RoutedInv
      <4> QED BY <3>1, <3>2, <4>1
    <3>4. Compiled(n)' = Compiled(n) BY <1>4, CompiledSame
    <3> QED BY <1>3, <3>1, <3>3, <3>4 DEF BuiltInv
  <2>6. ASSUME task[c].at \in DomainSteps, routers' = routers PROVE BuiltInv(n)'
    <3>1. ~HandlingAt(n, {"namespace", "routes", "deps"}) BY <1>1, <2>6 DEF HandlingAt, DomainSteps
    <3> QED BY <1>3, <1>4, <1>5, <2>6, <3>1, BuiltKept
  <2>7. CASE ReadDomains(c) BY <2>6, <2>7 DEF ReadDomains, DomainSteps, serving
  <2>8. ASSUME NEW x \in Resource, Resolve(c, x) PROVE BuiltInv(n)'
    BY <2>6, <2>8 DEF Resolve, DomainSteps, serving
  <2>9. CASE InsertDomains(c) BY <2>6, <2>9 DEF InsertDomains, DomainSteps
  <2> QED BY <1>1, <2>1, <2>2, <2>3, <2>4, <2>5, <2>7, <2>8, <2>9 DEF Rebuild
<1> QED BY <1>6, <1>7

LEMMA BuiltFinish ==
  ASSUME ClusterInv, OwnersInv, OrderInv, NEW n \in Namespace, BuiltInv(n),
         NEW c \in Call, FinishChange(c)
  PROVE  BuiltInv(n)'
<1>1. /\ handling = {c} /\ handling' = {} /\ task[c].at \in {"end", "failed"}
      /\ UNCHANGED <<calls, store, routers, decided, applied, sending, queue>>
  BY FinishFrame
<1>2. Through(n)' <=> Through(n) BY <1>1, ThroughSame
<1>3. Coming(n)' <=> Coming(n) BY <1>1, LineSame
<1>4. ~HandlingAt(n, {"namespace", "routes", "deps"}) BY <1>1 DEF HandlingAt
<1> QED BY <1>1, <1>2, <1>3, <1>4, BuiltKept

\* After a crash, or from the start of a snapshot, all is still to be applied.
LEMMA BuiltAgain ==
  ASSUME NEW n \in Namespace, applied' = {}
  PROVE  BuiltInv(n)'
<1>1. ~Through(n)' BY DEF Through
<1> QED BY <1>1 DEF BuiltInv

-----------------------------------------------------------------------------
(* Domains that must be resolved.                                           *)

LEMMA ResolvedKept ==
  ASSUME NEW n \in Namespace, ResolvedInv(n), domains' = domains,
         \A d \in Domain : NsOf[d] = n => store'[d] = store[d] /\ (DomainComing(d) => DomainComing(d)'),
         (\E c \in handling : task[c].at \in DomainSteps) =>
           \E c \in handling' : task'[c].at \in DomainSteps,
         \A c \in handling' : task'[c].at = "resolve" => c \in handling /\ task'[c] = task[c]
  PROVE  ResolvedInv(n)'
<1> SUFFICES ASSUME NEW d \in Domain, NsOf[d] = n, store'[d] # Absent
             PROVE  /\ \/ <<d, store'[d]>> \in domains' \/ DomainComing(d)'
                       \/ \E c \in handling' : task'[c].at \in DomainSteps
                    /\ \A c \in handling' : task'[c].at = "resolve" =>
                         <<d, store'[d]>> \in task'[c].seen \/ DomainComing(d)'
  BY DEF ResolvedInv
<1>1. store'[d] = store[d] /\ (DomainComing(d) => DomainComing(d)') OBVIOUS
<1>2. /\ \/ <<d, store[d]>> \in domains \/ DomainComing(d)
         \/ \E c \in handling : task[c].at \in DomainSteps
      /\ \A c \in handling : task[c].at = "resolve" =>
           <<d, store[d]>> \in task[c].seen \/ DomainComing(d)
  BY <1>1 DEF ResolvedInv
<1> QED BY <1>1, <1>2

LEMMA ResolvedAlien ==
  ASSUME ClusterInv, OwnersInv, OrderInv, Alien, NEW n \in Namespace, Shared(n), SharedDomains, ResolvedInv(n)
  PROVE  ResolvedInv(n)'
<1>1. /\ UNCHANGED <<decided, applied, sending, queue, handling, domains>>
      /\ \A c \in DOMAIN calls : calls'[c] = calls[c]
      /\ \A c \in handling : task'[c] = task[c]
  BY AlienFrame
<1>2. Untouched(n) BY AlienFrame
<1>3. InLine' = InLine BY <1>1, OrderSame
<1>4. decided \subseteq DOMAIN calls /\ InLine \subseteq DOMAIN calls BY ChangesAreCalls
<1>5. \A d \in Domain : DomainComing(d) => DomainComing(d)' BY <1>1, <1>3, <1>4 DEF DomainComing
<1>6. \A d \in Domain : NsOf[d] = n => store'[d] = store[d] BY <1>2 DEF Untouched, Resource
<1> QED BY <1>1, <1>5, <1>6, ResolvedKept

LEMMA ResolvedWrite ==
  ASSUME ClusterInv, mode = "raft", OrderInv, NEW n \in Namespace, ResolvedInv(n),
         NEW c \in Call, NEW cmd \in {"put", "delete"}, NEW y \in Resource, Writes(c, cmd, y)
  PROVE  ResolvedInv(n)'
<1>1. /\ store' = [store EXCEPT ![y] = Effect(cmd, c)] /\ UNCHANGED <<domains, task>>
      /\ decided' = decided \cup {c} /\ applied' = applied \cup {c}
      /\ calls'[c].res = y /\ \A d \in DOMAIN calls : calls'[d] = calls[d]
  BY DEF Writes, Stores, serving
<1>2. handling' = handling /\ InLine' = InLine \cup {c} BY OrderWrite
<1>3. decided \subseteq DOMAIN calls /\ InLine \subseteq DOMAIN calls BY ChangesAreCalls
<1>4. \A d \in Domain : DomainComing(d) => DomainComing(d)' BY <1>1, <1>2, <1>3 DEF DomainComing
<1>5. store \in [Resource -> Version] BY DEF ClusterInv, ClusterTypeOK, TypeOK
<1>6. ASSUME NEW d \in Domain, NsOf[d] = n, store'[d] # Absent
      PROVE  /\ \/ <<d, store'[d]>> \in domains' \/ DomainComing(d)'
                \/ \E h \in handling' : task'[h].at \in DomainSteps
             /\ \A h \in handling' : task'[h].at = "resolve" =>
                  <<d, store'[d]>> \in task'[h].seen \/ DomainComing(d)'
  <2>1. CASE y = d
    <3>1. DomainComing(d)' BY <1>1, <1>2, <2>1 DEF DomainComing
    <3> QED BY <3>1
  <2>2. CASE y # d
    <3>1. store'[d] = store[d] BY <1>1, <1>5, <2>2 DEF Resource
    <3>2. /\ \/ <<d, store[d]>> \in domains \/ DomainComing(d)
             \/ \E h \in handling : task[h].at \in DomainSteps
          /\ \A h \in handling : task[h].at = "resolve" =>
               <<d, store[d]>> \in task[h].seen \/ DomainComing(d)
      BY <1>6, <3>1 DEF ResolvedInv
    <3> QED BY <1>1, <1>2, <1>4, <3>1, <3>2
  <2> QED BY <2>1, <2>2
<1> QED BY <1>6 DEF ResolvedInv

LEMMA ResolvedSend ==
  ASSUME ClusterInv, OrderInv, NEW n \in Namespace, ResolvedInv(n), NEW c \in Call, SendChange(c)
  PROVE  ResolvedInv(n)'
<1>1. UNCHANGED <<calls, store, domains, task, handling, decided, applied>>
  BY DEF SendChange, vars, storage, serving
<1>2. InLine' = InLine BY OrderSend
<1>3. \A d \in Domain : DomainComing(d) => DomainComing(d)' BY <1>1, <1>2 DEF DomainComing
<1> QED BY <1>1, <1>3, ResolvedKept

LEMMA ResolvedTake ==
  ASSUME ClusterInv, OrderInv, NEW n \in Namespace, ResolvedInv(n), TakeChange
  PROVE  ResolvedInv(n)'
<1>0. SUFFICES ASSUME NEW c, c = Head(queue) PROVE ResolvedInv(n)' OBVIOUS
<1>1. /\ handling = {} /\ handling' = {c} /\ UNCHANGED <<calls, store, domains, decided, applied>>
      /\ task'[c].at = FirstStep(calls[c].cmd, calls[c].res)
      /\ InLine \subseteq InLine' \cup {c}
  BY <1>0, TakeFrame
<1>2. task'[c].at # "resolve" BY <1>1, FirstSteps
<1>3. ASSUME NEW d \in Domain, NsOf[d] = n, store'[d] # Absent
      PROVE  \/ <<d, store'[d]>> \in domains' \/ DomainComing(d)'
             \/ \E h \in handling' : task'[h].at \in DomainSteps
  <2>1. <<d, store[d]>> \in domains \/ DomainComing(d) BY <1>1, <1>3 DEF ResolvedInv
  <2>2. DomainComing(d) => DomainComing(d)' \/ calls[c].res = d BY <1>1 DEF DomainComing
  <2>3. calls[c].res = d => task'[c].at \in DomainSteps BY <1>1, FirstSteps DEF DomainSteps
  <2> QED BY <1>1, <2>1, <2>2, <2>3
<1> QED BY <1>1, <1>2, <1>3 DEF ResolvedInv

LEMMA ResolvedRebuild ==
  ASSUME ClusterInv, OwnersInv, OrderInv, NEW c \in Call, RebuildStep(c),
         NEW n \in Namespace, MadeInv(n), ResolvedInv(n)
  PROVE  ResolvedInv(n)'
<1>1. /\ c \in TaskId /\ handling = {c} /\ handling' = {c} /\ (DropRouter(c) \/ Rebuild(c))
      /\ UNCHANGED <<calls, decided, applied, sending, queue, handling>>
  BY RebuildFrame DEF clusterVars
<1>2. TypeOK /\ task[c] \in Task BY <1>1 DEF ClusterInv, ClusterTypeOK, TypeOK
<1>3. \A d \in Domain : DomainComing(d)' <=> DomainComing(d) BY <1>1, LineSame DEF DomainComing
<1>4. UNCHANGED store
  BY <1>1 DEF DropRouter, Rebuild, ReadNamespace, ReadRoutes, InsertRouter, ReadDomains, InsertDomains,
              ReadDependency, Resolve, storage
<1>f. \A at \in Steps : Moves(c, at) => task'[c].at = at
  BY <1>1, <1>2, MovesType DEF TypeOK
<1>5. ASSUME task[c].at \notin DomainSteps, domains' = domains, task'[c].at # "resolve"
      PROVE  ResolvedInv(n)'
  BY <1>1, <1>3, <1>4, <1>5, ResolvedKept
<1>6. CASE DropRouter(c)
  BY <1>5, <1>6, <1>f DEF DropRouter, DomainSteps, Steps
<1>7. CASE ReadNamespace(c)
  <2>1. task'[c].at \in {"end", "failed", "routes"}
    BY <1>7, <1>f DEF ReadNamespace, Fails, Steps, Ended
  <2> QED BY <1>5, <1>7, <2>1 DEF ReadNamespace, DomainSteps, serving
<1>8. CASE ReadRoutes(c)
  BY <1>1, <1>2, <1>5, <1>8 DEF ReadRoutes, Task, TypeOK, DomainSteps, serving
<1>9. ASSUME NEW x \in Resource, ReadDependency(c, x) PROVE ResolvedInv(n)'
  BY <1>1, <1>2, <1>5, <1>9 DEF ReadDependency, Task, TypeOK, DomainSteps, serving
<1>10. CASE InsertRouter(c)
  BY <1>5, <1>10, <1>f DEF InsertRouter, DomainSteps, Steps
<1>11. CASE ReadDomains(c)
  <2>1. task'[c].at = "resolve" /\ task'[c].seen = Stored(Domain) /\ store' = store
    BY <1>1, <1>2, <1>4, <1>11 DEF ReadDomains, Task, TypeOK
  <2>2. \A d \in Domain : store[d] # Absent => <<d, store[d]>> \in Stored(Domain)
    BY DEF Stored
  <2> QED BY <1>1, <2>1, <2>2 DEF ResolvedInv, DomainSteps
<1>12. ASSUME NEW x \in Resource, Resolve(c, x) PROVE ResolvedInv(n)'
  <2>1. /\ task[c].at = "resolve" /\ task'[c].at = "resolve"
        /\ task'[c].seen = IF store[x] = Absent THEN {p \in task[c].seen : NsOf[p[1]] # x} ELSE task[c].seen
    BY <1>1, <1>2, <1>12 DEF Resolve, Task, TypeOK
  <2>2. ASSUME NEW d \in Domain, NsOf[d] = n, store[d] # Absent, <<d, store[d]>> \in task[c].seen
        PROVE  <<d, store[d]>> \in task'[c].seen
    <3>1. store[n] # Absent BY <2>2 DEF MadeInv, Resource
    <3>2. <<d, store[d]>>[1] = d OBVIOUS
    <3> QED BY <2>1, <2>2, <3>1, <3>2
  <2>3. \A d \in Domain : NsOf[d] = n /\ store[d] # Absent =>
          <<d, store[d]>> \in task[c].seen \/ DomainComing(d)
    BY <1>1, <2>1 DEF ResolvedInv
  <2> QED BY <1>1, <1>3, <1>4, <2>1, <2>2, <2>3 DEF ResolvedInv, DomainSteps
<1>13. CASE InsertDomains(c)
  <2>1. task[c].at = "resolve" /\ domains' = task[c].seen /\ task'[c].at = "end"
    BY <1>13, <1>f DEF InsertDomains, Steps
  <2>2. \A d \in Domain : NsOf[d] = n /\ store[d] # Absent =>
          <<d, store[d]>> \in task[c].seen \/ DomainComing(d)
    BY <1>1, <2>1 DEF ResolvedInv
  <2> QED BY <1>1, <1>3, <1>4, <2>1, <2>2 DEF ResolvedInv
<1> QED BY <1>1, <1>6, <1>7, <1>8, <1>9, <1>10, <1>11, <1>12, <1>13 DEF Rebuild

LEMMA ResolvedFinish ==
  ASSUME ClusterInv, OwnersInv, OrderInv, NEW n \in Namespace, ResolvedInv(n),
         NEW c \in Call, FinishChange(c)
  PROVE  ResolvedInv(n)'
<1>1. /\ handling = {c} /\ handling' = {} /\ task[c].at \in {"end", "failed"}
      /\ UNCHANGED <<calls, store, domains, decided, applied, sending, queue>>
  BY FinishFrame
<1>2. InLine' = InLine BY <1>1, LineSame
<1>3. \A d \in Domain : DomainComing(d) => DomainComing(d)' BY <1>1, <1>2 DEF DomainComing
<1>4. ~\E h \in handling : task[h].at \in DomainSteps BY <1>1 DEF DomainSteps
<1> QED BY <1>1, <1>3, <1>4, ResolvedKept

LEMMA ResolvedCrash ==
  ASSUME mode = "raft", NEW n \in Namespace, ReplicaInv(n), NodeCrash
  PROVE  ResolvedInv(n)'
<1>1. /\ handling' = {} /\ applied' = {} /\ UNCHANGED <<calls, decided>>
      /\ \A x \in Resource : store'[x] \in {store[x], Absent}
  BY DEF NodeCrash, AllAgainUnderRaft, Crash
<1>2. ASSUME NEW d \in Domain, NsOf[d] = n, store'[d] # Absent PROVE DomainComing(d)'
  <2>1. store[d] \in About(d, decided) BY <1>1, <1>2 DEF ReplicaInv, Resource
  <2> QED BY <1>1, <2>1 DEF DomainComing, About
<1> QED BY <1>1, <1>2 DEF ResolvedInv

LEMMA ResolvedInstall ==
  ASSUME ClusterInv, OrderInv, NEW n \in Namespace, ResolvedInv(n), InstallSnapshot
  PROVE  ResolvedInv(n)'
<1>1. UNCHANGED <<calls, store, domains, task, handling, decided>> /\ applied' = {} BY InstallFrame
<1>2. InLine' = InLine BY OrderInstall
<1>3. \A d \in Domain : DomainComing(d) => DomainComing(d)' BY <1>1, <1>2 DEF DomainComing
<1> QED BY <1>1, <1>3, ResolvedKept

-----------------------------------------------------------------------------
(* The invariant under Raft.                                                *)

LEMMA RaftSteps ==
  ASSUME ClusterInv, OrderInv, [ClusterNext]_allVars
  PROVE  \/ Alien \/ TakeChange \/ NodeCrash \/ InstallSnapshot
         \/ \E c \in Call, cmd \in {"put", "delete"}, y \in Resource : Writes(c, cmd, y)
         \/ \E c \in Call : SendChange(c) \/ RebuildStep(c) \/ FinishChange(c)
BY WriteFrame DEF ClusterNext, Alien, ProcessorStep

LEMMA ModeSame ==
  ASSUME ClusterInv, OwnersInv, [ClusterNext]_allVars
  PROVE  mode' = mode
<1>1. Alien => mode' = mode BY AlienFrame
<1>2. \A c \in Call : RebuildStep(c) \/ FinishChange(c) \/ SendChange(c) \/ ApplyAgain(c) => mode' = mode
  BY DEF RebuildStep, FinishChange, SendChange, ApplyAgain, Stores, clusterVars
<1>3. \A cmd \in {"put", "delete"}, x \in Resource : ApplyDecided(cmd, x) => mode' = mode
  BY DEF ApplyDecided, Stores
<1>4. TakeChange \/ NodeCrash \/ InstallSnapshot => mode' = mode
  BY DEF TakeChange, NodeCrash, InstallSnapshot
<1> QED BY <1>1, <1>2, <1>3, <1>4 DEF ClusterNext, Alien, ProcessorStep

\* What the processor leaves alone.
LEMMA ProcessorFrame ==
  ASSUME ClusterInv, OwnersInv, NEW c \in Call, RebuildStep(c) \/ FinishChange(c)
  PROVE  /\ UNCHANGED <<calls, store, decided, applied, sending, queue>> /\ handling' \subseteq handling
         /\ Backlog' \subseteq Backlog
<1>1. /\ UNCHANGED <<calls, store, decided, applied, sending, queue>> /\ handling' \subseteq handling
  BY DEF RebuildStep, FinishChange, clusterVars, DropRouter, Rebuild, ReadNamespace, ReadRoutes, InsertRouter,
         ReadDomains, InsertDomains, ReadDependency, Resolve, storage
<1> QED BY <1>1 DEF Backlog

LEMMA OrderStep ==
  ASSUME ClusterInv, OwnersInv, mode = "raft", OrderInv, [ClusterNext]_allVars
  PROVE  OrderInv'
<1>1. CASE Alien BY <1>1, AlienFrame, OrderSame
<1>2. ASSUME NEW c \in Call, RebuildStep(c) PROVE OrderInv'
  BY <1>2, OrderSame DEF RebuildStep, clusterVars
<1>3. ASSUME NEW c \in Call, NEW cmd \in {"put", "delete"}, NEW y \in Resource, Writes(c, cmd, y)
      PROVE  OrderInv'
  BY <1>3, OrderWrite
<1>4. \A c \in Call : SendChange(c) \/ FinishChange(c) => OrderInv' BY OrderSend, OrderFinish
<1>5. TakeChange \/ NodeCrash \/ InstallSnapshot => OrderInv' BY OrderTake, OrderCrash, OrderInstall
<1> QED BY <1>1, <1>2, <1>3, <1>4, <1>5, RaftSteps

LEMMA ReplicaStep ==
  ASSUME ClusterInv, OwnersInv, mode = "raft", OrderInv, [ClusterNext]_allVars,
         NEW n \in Namespace, Shared(n), ReplicaInv(n)
  PROVE  ReplicaInv(n)'
<1>1. CASE Alien
  <2>1. UNCHANGED <<decided, applied>> /\ \A c \in DOMAIN calls : calls'[c] = calls[c]
    BY <1>1, AlienFrame
  <2>2. Untouched(n) BY <1>1, AlienFrame
  <2> QED BY <2>1, <2>2, ReplicaSame DEF Untouched
<1>2. ASSUME UNCHANGED <<calls, store, decided, applied>> PROVE ReplicaInv(n)'
  BY <1>2, ReplicaSame
<1>3. \A c \in Call : RebuildStep(c) \/ FinishChange(c) => UNCHANGED <<calls, store, decided, applied>>
  BY ProcessorFrame
<1>4. \A c \in Call : SendChange(c) => UNCHANGED <<calls, store, decided, applied>>
  BY DEF SendChange, vars, storage
<1>5. TakeChange => UNCHANGED <<calls, store, decided, applied>> BY DEF TakeChange, storage
<1>6. ASSUME NEW c \in Call, NEW cmd \in {"put", "delete"}, NEW y \in Resource, Writes(c, cmd, y)
      PROVE  ReplicaInv(n)'
  BY <1>6, ReplicaWrite
<1>7. CASE NodeCrash
  <2>1. applied' = {} /\ UNCHANGED <<calls, decided>> BY <1>7, OrderCrash
  <2>2. \A x \in Resource : store'[x] \in {store[x], Absent} BY <1>7 DEF NodeCrash, Crash
  <2> QED BY <2>1, <2>2, ReplicaAgain
<1>8. CASE InstallSnapshot BY <1>8, InstallFrame, ReplicaAgain
<1> QED BY <1>1, <1>2, <1>3, <1>4, <1>5, <1>6, <1>7, <1>8, RaftSteps

LEMMA LineStep ==
  ASSUME ClusterInv, OwnersInv, mode = "raft", OrderInv, [ClusterNext]_allVars,
         NEW n \in Namespace, Shared(n), LineInv(n)
  PROVE  LineInv(n)'
<1>1. CASE Alien
  <2>1. UNCHANGED <<sending, queue, handling>> /\ \A c \in DOMAIN calls : calls'[c] = calls[c]
    BY <1>1, AlienFrame
  <2>2. Untouched(n) BY <1>1, AlienFrame
  <2> QED BY <2>1, <2>2, LineKept DEF Untouched
<1>2. \A c \in Call : RebuildStep(c) \/ FinishChange(c) => LineInv(n)'
  BY ProcessorFrame, LineKept
<1>3. InstallSnapshot => LineInv(n)' BY InstallFrame, LineKept
<1>4. ASSUME NEW c \in Call, NEW cmd \in {"put", "delete"}, NEW y \in Resource, Writes(c, cmd, y)
      PROVE  LineInv(n)'
  BY <1>4, LineWrite
<1>5. \A c \in Call : SendChange(c) => LineInv(n)' BY LineSend
<1>6. TakeChange \/ NodeCrash => LineInv(n)' BY LineTake, LineCrash
<1> QED BY <1>1, <1>2, <1>3, <1>4, <1>5, <1>6, RaftSteps

LEMMA MadeStep ==
  ASSUME ClusterInv, OwnersInv, mode = "raft", OrderInv, [ClusterNext]_allVars,
         NEW n \in Namespace, Clean(n), Clean(n)', ReplicaInv(n), MadeInv(n)
  PROVE  MadeInv(n)'
<1>1. CASE Alien
  <2>1. Backlog' = Backlog /\ \A c \in DOMAIN calls : calls'[c] = calls[c]
    BY <1>1, AlienFrame, OrderSame
  <2>2. Untouched(n) BY <1>1, AlienFrame DEF Clean
  <2> QED BY <2>1, <2>2, MadeKept DEF Untouched
<1>2. ASSUME UNCHANGED <<calls, store>>, Backlog' \subseteq Backlog PROVE MadeInv(n)'
  BY <1>2, MadeKept
<1>3. \A c \in Call : RebuildStep(c) \/ FinishChange(c) => MadeInv(n)'
  BY <1>2, ProcessorFrame
<1>4. \A c \in Call : SendChange(c) => MadeInv(n)'
  BY <1>2, OrderSend DEF SendChange, vars, storage
<1>5. TakeChange => MadeInv(n)' BY <1>2, OrderTake DEF TakeChange, storage
<1>6. InstallSnapshot => MadeInv(n)' BY <1>2, OrderInstall, InstallFrame
<1>7. ASSUME NEW c \in Call, NEW cmd \in {"put", "delete"}, NEW y \in Resource, Writes(c, cmd, y)
      PROVE  MadeInv(n)'
  BY <1>7, MadeWrite
<1>8. NodeCrash => MadeInv(n)' BY MadeCrash
<1> QED BY <1>1, <1>3, <1>4, <1>5, <1>6, <1>7, <1>8, RaftSteps

LEMMA CodeStep ==
  ASSUME ClusterInv, OwnersInv, mode = "raft", OrderInv, [ClusterNext]_allVars,
         NEW n \in Namespace, Clean(n), ReplicaInv(n), LineInv(n), MadeInv(n), CodeOfInv(n)
  PROVE  CodeOfInv(n)'
<1>0. Shared(n) BY DEF Clean
<1>1. CASE Alien BY <1>0, <1>1, CodeAlien
<1>2. ASSUME NEW c \in Call, NEW cmd \in {"put", "delete"}, NEW y \in Resource, Writes(c, cmd, y)
      PROVE  CodeOfInv(n)'
  BY <1>2, CodeWrite
<1>3. ASSUME NEW c \in Call, RebuildStep(c) PROVE CodeOfInv(n)'
  BY <1>3, CodeRebuild, CodeRebuildElse
<1>4. \A c \in Call : SendChange(c) \/ FinishChange(c) => CodeOfInv(n)' BY CodeSend, CodeFinish
<1>5. TakeChange \/ NodeCrash \/ InstallSnapshot => CodeOfInv(n)' BY CodeTake, CodeCrash, CodeInstall
<1> QED BY <1>1, <1>2, <1>3, <1>4, <1>5, RaftSteps

LEMMA BuiltStep ==
  ASSUME ClusterInv, OwnersInv, mode = "raft", OrderInv, [ClusterNext]_allVars,
         NEW n \in Namespace, Clean(n), RoutedInv(n), MadeInv(n), BuiltInv(n)
  PROVE  BuiltInv(n)'
<1>0. Shared(n) BY DEF Clean
<1>1. CASE Alien BY <1>0, <1>1, BuiltAlien
<1>2. ASSUME NEW c \in Call, NEW cmd \in {"put", "delete"}, NEW y \in Resource, Writes(c, cmd, y)
      PROVE  BuiltInv(n)'
  BY <1>2, BuiltWrite
<1>3. \A c \in Call : SendChange(c) \/ RebuildStep(c) \/ FinishChange(c) => BuiltInv(n)'
  BY BuiltSend, BuiltRebuild, BuiltFinish
<1>4. TakeChange => BuiltInv(n)' BY BuiltTake
<1>5. NodeCrash \/ InstallSnapshot => BuiltInv(n)' BY OrderCrash, InstallFrame, BuiltAgain
<1> QED BY <1>1, <1>2, <1>3, <1>4, <1>5, RaftSteps

LEMMA ResolvedStep ==
  ASSUME ClusterInv, OwnersInv, mode = "raft", OrderInv, [ClusterNext]_allVars,
         NEW n \in Namespace, Clean(n), SharedDomains, ReplicaInv(n), MadeInv(n), ResolvedInv(n)
  PROVE  ResolvedInv(n)'
<1>0. Shared(n) BY DEF Clean
<1>1. CASE Alien BY <1>0, <1>1, ResolvedAlien
<1>2. ASSUME NEW c \in Call, NEW cmd \in {"put", "delete"}, NEW y \in Resource, Writes(c, cmd, y)
      PROVE  ResolvedInv(n)'
  BY <1>2, ResolvedWrite
<1>3. \A c \in Call : SendChange(c) \/ RebuildStep(c) \/ FinishChange(c) => ResolvedInv(n)'
  BY ResolvedSend, ResolvedRebuild, ResolvedFinish
<1>4. TakeChange \/ NodeCrash \/ InstallSnapshot => ResolvedInv(n)'
  BY ResolvedTake, ResolvedCrash, ResolvedInstall
<1> QED BY <1>1, <1>2, <1>3, <1>4, RaftSteps

LEMMA RaftStep ==
  ASSUME ClusterInv, OwnersInv, SharedInv, RaftInv, [ClusterNext]_allVars
  PROVE  RaftInv'
<1> SUFFICES ASSUME mode' = "raft"
             PROVE  /\ OrderInv'
                    /\ \A n \in Namespace : Shared(n)' => ReplicaInv(n)' /\ LineInv(n)'
                    /\ \A n \in Namespace : Clean(n)' =>
                         /\ MadeInv(n)' /\ CodeOfInv(n)' /\ BuiltInv(n)'
                         /\ SharedDomains' => ResolvedInv(n)'
  BY DEF RaftInv
<1>1. mode = "raft" BY ModeSame
<1>2. OrderInv /\ OrderInv' BY <1>1, OrderStep DEF RaftInv
<1>3. \A n \in Namespace : Shared(n)' => Shared(n) BY LocalGrows, SharedBack
<1>4. SharedDomains' => SharedDomains BY LocalGrows, SharedBack
<1>5. ASSUME NEW n \in Namespace, Shared(n)' PROVE ReplicaInv(n)' /\ LineInv(n)'
  BY <1>1, <1>2, <1>3, <1>5, ReplicaStep, LineStep DEF RaftInv
<1>6. ASSUME NEW n \in Namespace, Clean(n)'
      PROVE  /\ MadeInv(n)' /\ CodeOfInv(n)' /\ BuiltInv(n)'
             /\ SharedDomains' => ResolvedInv(n)'
  <2>1. Clean(n) BY <1>6, CleanBack
  <2>2. Shared(n) BY <2>1 DEF Clean
  <2>3. /\ RoutedInv(n) /\ ReplicaInv(n) /\ LineInv(n)
        /\ MadeInv(n) /\ CodeOfInv(n) /\ BuiltInv(n)
        /\ SharedDomains => ResolvedInv(n)
    BY <1>1, <2>1, <2>2 DEF SharedInv, RaftInv
  <2>4. MadeInv(n)' BY <1>1, <1>2, <1>6, <2>1, <2>3, MadeStep
  <2>5. CodeOfInv(n)' BY <1>1, <1>2, <2>1, <2>3, CodeStep
  <2>6. BuiltInv(n)' BY <1>1, <1>2, <2>1, <2>3, BuiltStep
  <2>7. SharedDomains' => ResolvedInv(n)' BY <1>1, <1>2, <1>4, <2>1, <2>3, ResolvedStep
  <2> QED BY <2>4, <2>5, <2>6, <2>7
<1> QED BY <1>2, <1>5, <1>6

LEMMA RaftInit == ClusterInit => RaftInv
<1> SUFFICES ASSUME ClusterInit PROVE RaftInv OBVIOUS
<1>1. /\ calls = <<>> /\ decided = {} /\ applied = {} /\ sending = {} /\ queue = <<>> /\ handling = {}
      /\ store = [x \in Resource |-> Absent] /\ routers = [n \in Namespace |-> NoRouter]
      /\ executor = [m \in Module |-> Absent]
  BY DEF ClusterInit, Init
<1>2. Backlog = {} /\ InLine = {} BY <1>1 DEF Backlog, InLine
<1>3. OrderInv BY <1>1 DEF OrderInv
<1>4. \A n \in Namespace : ReplicaInv(n) /\ LineInv(n)
  BY <1>1 DEF ReplicaInv, LineInv, About
<1>5. ASSUME NEW n \in Namespace PROVE MadeInv(n) /\ CodeOfInv(n) /\ BuiltInv(n) /\ ResolvedInv(n)
  <2>1. MadeInv(n) BY <1>1, <1>2 DEF MadeInv
  <2>2. \A m \in Module : HasCode(m) BY <1>1 DEF HasCode, Resource
  <2>3. CodeOfInv(n) BY <1>1, <1>5, <2>2 DEF CodeOfInv, HandlingAt
  <2>4. BuiltInv(n) BY <1>1 DEF BuiltInv, Through, Calling
  <2>5. ResolvedInv(n) BY <1>1 DEF ResolvedInv, Resource
  <2> QED BY <2>1, <2>3, <2>4, <2>5
<1> QED BY <1>3, <1>4, <1>5 DEF RaftInv

LEMMA RaftInvariance == ClusterSpec => [](ClusterInv /\ SharedInv /\ RaftInv)
<1>1. ClusterInit => RaftInv BY RaftInit
<1>2. ClusterInv /\ OwnersInv /\ SharedInv /\ RaftInv /\ [ClusterNext]_allVars => RaftInv'
  BY RaftStep
<1> QED BY <1>1, <1>2, SharedInvariance, PTL DEF ClusterSpec

\* Every namespace of the property is one of those the invariant is about.
LEMMA SteadyIsClean ==
  ASSUME NEW n \in Namespace, Shared(n), Steady(n)
  PROVE  Clean(n)
BY DEF Clean, Steady, About

\* Under Raft, a route of a namespace that was made first and stays is served
\* with a module whose code the executor lacks only while the change that brings
\* the code is on its way (rebuild_router before add_module in
\* handle_cluster_change).
THEOREM CodeIsOnItsWay == ClusterSpec => []CodeFollowsRouter
<1>1. RaftInv => CodeFollowsRouter
  BY SteadyIsClean DEF CodeFollowsRouter, RaftInv, CodeOfInv, Follows
<1> QED BY <1>1, RaftInvariance, PTL

\* Under Raft, when every change is handled, the executor, the domains and the
\* router of such a namespace are just what is stored, whatever was written
\* while they were brought up to date and however often the node restarted or
\* was sent a snapshot (process_cluster_changes; apply and install_snapshot of
\* the state machine).
THEOREM RaftNodeServesStore == ClusterSpec => []RaftServesStore
<1>1. ClusterInv /\ RaftInv => RaftServesStore
  <2> SUFFICES ASSUME ClusterInv, RaftInv, mode = "raft", Pending = {}, NEW n \in Namespace, Shared(n), Steady(n)
               PROVE  /\ \A m \in Module \ Broken : NsOf[m] = n => executor[m] = store[m]
                      /\ SharedDomains => \A p \in Stored({d \in Domain : NsOf[d] = n}) : p \in domains
                      /\ (\E c \in Members(n) : calls[c].res \notin Domain \cup Data) =>
                           routers[n] = Compiled(n)
    BY DEF RaftServesStore
  <2>1. /\ CodeOfInv(n) /\ BuiltInv(n)
        /\ SharedDomains => ResolvedInv(n)
    BY SteadyIsClean DEF RaftInv
  <2>2. Backlog = {} /\ InLine = {} /\ handling = {} /\ decided = applied
    BY ChangesAreCalls DEF Pending
  <2>3. \A m \in Module \ Broken : NsOf[m] = n => executor[m] = store[m]
    BY <2>1, <2>2 DEF CodeOfInv, HasCode, About
  <2>4. ASSUME SharedDomains, NEW p \in Stored({d \in Domain : NsOf[d] = n}) PROVE p \in domains
    <3>1. PICK d \in Domain : NsOf[d] = n /\ store[d] # Absent /\ p = <<d, store[d]>>
      BY <2>4 DEF Stored
    <3>2. ~DomainComing(d) BY <2>2 DEF DomainComing
    <3> QED BY <2>1, <2>2, <2>4, <3>1, <3>2 DEF ResolvedInv
  <2>5. ASSUME NEW c \in Members(n), calls[c].res \notin Domain \cup Data PROVE routers[n] = Compiled(n)
    <3>1. c \in decided /\ NsOf[calls[c].res] = n /\ calls[c].res # n BY DEF Members
    <3>2. calls[c].res \in Resource
      <4>1. c \in DOMAIN calls BY <3>1, ChangesAreCalls
      <4>2. calls[c] \in Change BY <4>1 DEF ClusterInv, ClusterTypeOK, TypeOK
      <4> QED BY <4>2 DEF Change
    <3>3. calls[c].res \notin Namespace BY <3>1 DEF ConstantsOK
    <3>4. calls[c].res \in Compiling BY <2>5, <3>2, <3>3 DEF Resource, Compiling
    <3>5. Through(n) BY <2>2, <3>1, <3>4 DEF Through, Calling
    <3>6. ~Coming(n) /\ \A steps : ~HandlingAt(n, steps) BY <2>2 DEF Coming, DropComing, HandlingAt
    <3> QED BY <2>1, <3>5, <3>6 DEF BuiltInv
  <2> QED BY <2>3, <2>4, <2>5
<1> QED BY <1>1, RaftInvariance, PTL
=============================================================================
