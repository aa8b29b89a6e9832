--------------------------- MODULE ClusterGateway ---------------------------
(***************************************************************************)
(* A node of a cluster: src/proxy/mod.rs (init_cluster,                    *)
(* process_cluster_changes, handle_cluster_change) and src/cluster/mod.rs, *)
(* over the pipeline of module Gateway.                                    *)
(*                                                                         *)
(* The consensus of the cluster is external here (modules Tempo and        *)
(* RaftStore are about it).  It decides on changes; on this node it writes *)
(* each one to storage and then sends it into an unbounded channel.  One   *)
(* task takes changes out of the channel and brings routers, executor and  *)
(* domains up to date, reading storage while further changes are written.  *)
(* Raft applies one change at a time in the order decided, and all of them *)
(* again after a restart or from a snapshot it is sent; the leaderless     *)
(* modes apply a change once, in any order, from several tasks.            *)
(*                                                                         *)
(* The admin API listens before init_cluster has run: such an early call   *)
(* is not proposed but takes the standalone path of module Gateway, and    *)
(* the boot task replays its changelog at every later start.               *)
(***************************************************************************)
EXTENDS Gateway

VARIABLES
  mode,      \* config.cluster.mode: "raft", or "tempo" (Simple and Tempo)
  cluster,   \* ProxyState.cluster: "off", "set", "on" once initialize returned
  decided,   \* the changes of the cluster that have reached this node
  applied,   \* those its consensus has applied, and will not apply again
  sending,   \* those applied and not yet sent into the channel
  queue,     \* the change channel
  handling   \* the change process_cluster_changes works on, {} if none

clusterVars == <<mode, cluster, decided, applied, sending, queue, handling>>
allVars == <<vars, clusterVars>>

ClusterTypeOK ==
  /\ TypeOK
  /\ mode \in {"raft", "tempo"}
  /\ cluster \in {"off", "set", "on"}
  /\ decided \subseteq Call
  /\ applied \subseteq Call
  /\ sending \subseteq Call
  /\ queue \in Seq(Call)
  /\ handling \in {{}} \cup {{c} : c \in Call}

ClusterInit ==
  /\ Init
  /\ mode \in {"raft", "tempo"}
  /\ cluster = "off"
  /\ decided = {} /\ applied = {} /\ sending = {} /\ handling = {}
  /\ queue = <<>>

-----------------------------------------------------------------------------
(* Changes.  An admin call that finds no cluster manager runs as in module   *)
(* Gateway to its end; all others are proposed, here or on another node.     *)

\* Early calls, and a bound in which each of them counts twice, as it is
\* processed twice or more.
Local == DOMAIN calls \ decided
Load == Len(calls) + Cardinality(Local)

EarlyCall(cmd, x) ==
  /\ cluster = "off" /\ Load + 2 <= MaxCalls
  /\ Begin(cmd, x)
  /\ UNCHANGED clusterVars

EarlyStep(c) == c \notin decided /\ CallStep(c) /\ UNCHANGED clusterVars

\* apply_changelog of either consensus: the store first, then the channel.
Stores(c, cmd, x) ==
  /\ cluster # "off"
  /\ store' = [store EXCEPT ![x] = Effect(cmd, c)]
  /\ applied' = applied \cup {c}
  /\ sending' = sending \cup {c}
  /\ UNCHANGED <<log, serving, task, lock, replay, ready, changeHash, crashes,
                 mode, cluster, queue, handling>>

InTurn(c) == mode = "raft" => sending = {} /\ \A d \in decided \ applied : c <= d

\* A change decided by the cluster reaches this node for the first time.
ApplyDecided(cmd, x) ==
  LET c == Len(calls) + 1
  IN  /\ Load + 1 <= MaxCalls /\ InTurn(c)
      /\ calls' = Append(calls, [cmd |-> cmd, res |-> x])
      /\ decided' = decided \cup {c}
      /\ Stores(c, cmd, x)

\* Raft hands a restarted node its entries again, and a running one that lacks a
\* change may be sent a snapshot, whose changes are applied from the first on
\* (bounded together with crashes).
InstallSnapshot ==
  /\ mode = "raft" /\ cluster # "off" /\ sending = {} /\ applied # {}
  /\ Load < MaxCalls /\ crashes < MaxCrashes
  /\ crashes' = crashes + 1
  /\ applied' = {}
  /\ UNCHANGED <<calls, storage, serving, task, lock, replay, ready, changeHash,
                 mode, cluster, decided, sending, queue, handling>>

ApplyAgain(c) ==
  /\ c \in decided \ applied /\ InTurn(c)
  /\ Stores(c, calls[c].cmd, calls[c].res)
  /\ UNCHANGED <<calls, decided>>

SendChange(c) ==
  /\ c \in sending
  /\ sending' = sending \ {c}
  /\ queue' = Append(queue, c)
  /\ UNCHANGED <<vars, mode, cluster, decided, applied, handling>>

-----------------------------------------------------------------------------
(* process_cluster_changes.                                                  *)

\* handle_cluster_change: what calls for a rebuilt router, and where its work
\* on a change begins.
Routing == Route \cup Service                                       \* mutant
Compiling == Route \cup Service \cup Module

FirstStep(cmd, x) ==
  CASE x \in Compiling -> "namespace"
    [] x \in Namespace /\ cmd = "delete" -> "drop"
    [] x \in Domain -> "domains"
    [] OTHER -> "end"

WorkOn(c) ==
  LET k == calls[c]
  IN  [at |-> FirstStep(k.cmd, k.res), id |-> c, cmd |-> k.cmd, res |-> k.res,
       seen |-> {}, todo |-> {}]

TakeChange ==
  /\ cluster = "on" /\ handling = {} /\ queue # <<>>
  /\ handling' = {Head(queue)}
  /\ task' = [task EXCEPT ![Head(queue)] = WorkOn(Head(queue))]
  /\ queue' = Tail(queue)
  /\ UNCHANGED <<calls, storage, serving, lock, replay, ready, changeHash, crashes,
                 mode, cluster, decided, applied, sending>>

RebuildStep(c) ==
  /\ c \in handling
  /\ DropRouter(c) \/ Rebuild(c)
  /\ UNCHANGED clusterVars

\* A module reaches the executor, which may be locked, only after its rebuild.
PutToExecutor(c) ==                                                 \* mutant
  task[c].at = "end" /\ task[c].res \in Module /\ task[c].cmd = "put"
ToExecutor(c) == task[c].at = "end" /\ task[c].res \in Module
ExecutorHas(c) ==
  LET k == task[c]
  IN  IF k.cmd = "put" /\ k.res \in Broken THEN executor
      ELSE [executor EXCEPT ![k.res] = Effect(k.cmd, c)]

\* mutant: the first error ends the loop
FinishUnlessFailed(c) ==
  /\ c \in handling /\ task[c].at = "end"
  /\ IF ToExecutor(c) THEN lock = {} /\ executor' = ExecutorHas(c) ELSE UNCHANGED executor
  /\ changeHash' = changeHash + 1
  /\ handling' = {}
  /\ task' = [task EXCEPT ![c] = NewTask("done")]
  /\ UNCHANGED <<calls, storage, routers, domains, lock, replay, ready, crashes,
                 mode, cluster, decided, applied, sending, queue>>

FinishChange(c) ==
  /\ c \in handling /\ task[c].at \in {"end", "failed"}
  /\ IF ToExecutor(c) THEN lock = {} /\ executor' = ExecutorHas(c) ELSE UNCHANGED executor
  /\ changeHash' = changeHash + 1
  /\ handling' = {}
  /\ task' = [task EXCEPT ![c] = NewTask("done")]
  /\ UNCHANGED <<calls, storage, routers, domains, lock, replay, ready, crashes,
                 mode, cluster, decided, applied, sending, queue>>

-----------------------------------------------------------------------------
(* A node's start, in main: init_cluster, then the boot task of Gateway.     *)

\* The manager is set before initialize, so that the consensus can receive.
SetCluster ==
  /\ cluster = "off"
  /\ cluster' = "set"
  /\ UNCHANGED <<vars, mode, decided, applied, sending, queue, handling>>

SpawnProcessor ==
  /\ cluster = "set"
  /\ cluster' = "on"
  /\ UNCHANGED <<vars, mode, decided, applied, sending, queue, handling>>

StartStep == cluster = "on" /\ BootStep /\ UNCHANGED clusterVars

\* The process dies, or gives up when initialize fails.
NothingAgain == applied                                             \* mutant
AllAgainUnderRaft == IF mode = "raft" THEN {} ELSE applied

NodeCrash ==
  /\ Crash
  /\ cluster' = "off"
  /\ applied' = AllAgainUnderRaft
  /\ sending' = {} /\ queue' = <<>> /\ handling' = {}
  /\ UNCHANGED <<mode, decided>>

-----------------------------------------------------------------------------
MainStep == SetCluster \/ SpawnProcessor \/ StartStep
ProcessorStep == TakeChange \/ \E c \in Call : RebuildStep(c) \/ FinishChange(c)

ClusterNext ==
  \/ \E cmd \in {"put", "delete"}, x \in Resource : EarlyCall(cmd, x) \/ ApplyDecided(cmd, x)
  \/ \E c \in Call : EarlyStep(c) \/ ApplyAgain(c) \/ SendChange(c)
  \/ InstallSnapshot
  \/ ProcessorStep
  \/ MainStep
  \/ NodeCrash

ClusterSpec == ClusterInit /\ [][ClusterNext]_allVars

(* Tasks run until they end; main goes on when initialize has returned.      *)
ClusterFairness ==
  /\ WF_allVars(MainStep) /\ WF_allVars(ProcessorStep)
  /\ WF_allVars(\E c \in Call : EarlyStep(c)) /\ WF_allVars(\E c \in Call : SendChange(c))
FairClusterSpec == ClusterSpec /\ ClusterFairness

-----------------------------------------------------------------------------
(* Properties.                                                               *)

\* What the processor has still to handle since the node started.
Backlog == sending \cup {queue[i] : i \in DOMAIN queue} \cup handling
Pending == (decided \ applied) \cup Backlog

\* The namespaces that neither early calls nor the boot task write in.
Shared(n) == (NoDefault \/ n # Default) /\ \A c \in Local : NsOf[calls[c].res] # n

\* A namespace that was made before anything in it and never changed after.
Members(n) == {c \in decided : NsOf[calls[c].res] = n /\ calls[c].res # n}
Steady(n) ==
  LET own == {c \in decided : calls[c].res = n}
  IN  own # {} /\ \A c \in own : calls[c].cmd = "put" /\ Earliest(c, Members(n))

\* When every change is handled, a router that exists was compiled from just
\* what is stored, although each rebuild read storage while it was written.
HandledShowsStore ==
  Pending = {} /\ ready => \A n \in Namespace :
    Shared(n) /\ routers[n] # NoRouter => routers[n] = Compiled(n)

\* No early call, and so no boot task, rebuilds the list of domains, which is one
\* for all namespaces.
SharedDomains == \A c \in Local : calls[c].res \notin Domain

\* Under Raft the same holds of all that is served of a namespace made before
\* what is in it, whatever restarts: routes, modules and domains.
RaftServesStore ==
  mode = "raft" /\ Pending = {} /\ ready => \A n \in Namespace : Shared(n) /\ Steady(n) =>
    /\ \A m \in Module \ Broken : NsOf[m] = n => executor[m] = store[m]
    /\ SharedDomains => \A p \in Stored({d \in Domain : NsOf[d] = n}) : p \in domains
    /\ (\E c \in Members(n) : calls[c].res \notin Domain \cup Data) => routers[n] = Compiled(n)

\* A route is served with a module whose code the executor does not have only
\* as long as the change that brings the code is on its way.
CodeFollowsRouter ==
  mode = "raft" => \A n \in Namespace : Shared(n) /\ Steady(n) /\ routers[n] # NoRouter =>
    \A p \in routers[n] : p[1] \in Module \ Broken => executor[p[1]] = p[2] \/ p[2] \in Pending

\* All that is stored or served was decided by the cluster or is in the node's
\* own changelog table, early calls, replays and restarts included.
Known(v) == v \in log \cup decided \cup {Absent, Builtin}
ServedIsKnown ==
  /\ \A x \in Resource : Known(store[x])
  /\ \A m \in Module : Known(executor[m])
  /\ \A n \in Namespace : routers[n] # NoRouter => \A p \in routers[n] : Known(p[2])
  /\ \A p \in domains : Known(p[2])

\* Changes that were applied are handled, or lost with the process, however long
\* the node takes to join and whatever early calls and the boot do beside it.
EveryChangeIsHandled == Backlog # {} ~> Backlog = {}
=============================================================================
