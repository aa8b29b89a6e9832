------------------------------- MODULE Tempo --------------------------------
(***************************************************************************)
(* The leaderless replication of dgate's Simple and Tempo cluster modes:   *)
(* src/cluster/tempo.  Any node coordinates a write: it numbers it with a  *)
(* dot <<node, sequence>>, sends MCollect to the members it knows, counts  *)
(* the acks, and when the fast quorum is reached applies the write to its  *)
(* own store, answers the client and broadcasts MCommit.                   *)
(*                                                                         *)
(* What runs concurrently on a node is the code's set of tasks: one        *)
(* message handler (it takes one message at a time and is busy while it    *)
(* runs commit_command), one task per client call of propose, and the      *)
(* clock-bump and discovery tasks.  commit_command is the one place where  *)
(* two tasks meet on a dot: it is split where it releases the state lock.  *)
(*                                                                         *)
(* A changelog is an element of Change (each carries a fresh id, so no     *)
(* change is proposed twice).  `net' is the set of messages posted and not *)
(* yet handled: HTTP requests in flight and the receivers' queues.  Posts  *)
(* are answered late, never retried and their errors only logged, so       *)
(* messages overtake each other and may be lost.                           *)
(***************************************************************************)
EXTENDS LogicalClock, Integers, FiniteSets, Sequences

CONSTANTS
  Node,                \* the nodes, by their configured node_id
  Alias,               \* more ids, that lead to an address listed already
  AddrOf,              \* the node a member id's address leads to
  InitialMembers,      \* InitialMembers[n]: cluster.initial_members in n's file
  FastQuorumOverride,  \* tempo.fast_quorum_size: {} is None, {k} is Some(k)
  Change,              \* the changelogs clients submit
  NoChange,            \* no changelog
  KeyOf,               \* the resource a changelog writes
  Faulty,              \* changelogs whose store operation may fail
  PhysicalTime,        \* what reading the system clock may return
  Lossy,               \* whether a post may fail
  MaxSeq,              \* bound on the writes one node coordinates
  MaxClock,            \* bound on the periodic clock bumps
  MaxMemberOps         \* bound on the changes of member lists

MemberId == Node \cup Alias
Dot == Node \X (1..MaxSeq)

\* A dot's coordinator, and the value that stands for "no dot".
Home(d) == d[1]
NoDot == <<>>

ASSUME ConstantsOK ==
  /\ IsFiniteSet(Node) /\ IsFiniteSet(Alias)
  /\ InitialMembers \in [Node -> SUBSET MemberId]
  /\ AddrOf \in [MemberId -> Node]
  /\ \A n \in Node : AddrOf[n] = n
  /\ FastQuorumOverride \subseteq Nat
  /\ NoDot \notin Node /\ NoChange \notin Change /\ Node \cap Change = {}
  /\ Faulty \subseteq Change
  /\ PhysicalTime \subseteq Nat
  /\ Lossy \in BOOLEAN
  /\ MaxSeq \in Nat /\ MaxClock \in Nat /\ MaxMemberOps \in Nat

(***************************************************************************)
(* TempoConsensus::new: n members tolerate f = (n-1)/2 failures and the    *)
(* fast quorum is f+1 unless configured.  It is computed once: adding or   *)
(* removing members later does not change it.                              *)
(***************************************************************************)
FastQuorumSize(n) ==
  IF FastQuorumOverride # {}
  THEN CHOOSE q \in FastQuorumOverride : TRUE
  ELSE LET size == Cardinality(InitialMembers[n])
       IN  IF size = 0 THEN 1 ELSE (size - 1) \div 2 + 1

VARIABLES
  members,        \* members[n]: the ids n sends to
  nextSeq,        \* nextSeq[n]: next_sequence
  clock,          \* clock[n]: the logical clock
  cmd,            \* cmd[n][d]: CommandInfo.changelog, NoChange when not tracked
  cmdClock,       \* cmdClock[n][d]: CommandInfo.clock
  acks,           \* acks[n][d]: the keys of CommandInfo.acks
  done,           \* done[n][d]: CommandInfo.committed
  committedDots,  \* committedDots[n]: the dots n takes for applied
  committedCount, \* committedCount[n]: the counter metrics report
  lastApplied,    \* lastApplied[n]: highest own sequence committed
  pending,        \* pending[n][d]: the call with a response channel for d, or NoChange
  applied,        \* applied[n]: successful store operations in order, which is
                  \*   also what the change channel to the proxy received
  commits,        \* tasks inside commit_command, with the dot they commit
  stage,          \* stage[c]: where the propose task of c is
  dotOf,          \* dotOf[c]: the dot propose took for c
  reply,          \* reply[c]: what the caller of propose got
  net,            \* messages posted and not yet handled
  memberOps       \* how often member lists changed (bounded)

stateVars == <<cmd, cmdClock, acks, done, committedDots, committedCount, lastApplied>>
callVars  == <<nextSeq, pending, commits, stage, dotOf, reply>>
vars == <<members, clock, stateVars, callVars, applied, net, memberOps>>

Message ==
  [type : {"MCollect", "MCommit"}, from : Node, to : MemberId, dot : Dot,
   change : Change, clock : Nat]
    \cup [type : {"MCollectAck"}, from : Node, to : MemberId, dot : Dot, clock : Nat]
    \cup [type : {"ClockBump"}, from : Node, to : MemberId, clock : Nat]

\* A task is a node's message handler or the propose task of a change.
Runner == [task : Node \cup Change, node : Node, dot : Dot, at : {"decided", "marked"}]

TypeOK ==
  /\ members \in [Node -> SUBSET MemberId]
  /\ nextSeq \in [Node -> 1..(MaxSeq + 1)]
  /\ clock \in [Node -> Nat]
  /\ cmd \in [Node -> [Dot -> Change \cup {NoChange}]]
  /\ cmdClock \in [Node -> [Dot -> Nat]]
  /\ acks \in [Node -> [Dot -> SUBSET Node]]
  /\ done \in [Node -> [Dot -> BOOLEAN]]
  /\ committedDots \in [Node -> SUBSET Dot]
  /\ committedCount \in [Node -> Nat]
  /\ lastApplied \in [Node -> 0..MaxSeq]
  /\ pending \in [Node -> [Dot -> Change \cup {NoChange}]]
  /\ applied \in [Node -> Seq(Change)]
  /\ commits \subseteq Runner
  /\ stage \in [Change -> {"new", "sent", "committing", "waiting", "gone"}]
  /\ dotOf \in [Change -> Dot \cup {NoDot}]
  /\ reply \in [Change -> {"none", "ok", "error", "timeout"}]
  /\ net \subseteq Message
  /\ memberOps \in 0..MaxMemberOps

Init ==
  /\ members = InitialMembers
  /\ nextSeq = [n \in Node |-> 1]
  /\ clock \in [Node -> PhysicalTime]
  /\ cmd = [n \in Node |-> [d \in Dot |-> NoChange]]
  /\ cmdClock = [n \in Node |-> [d \in Dot |-> 0]]
  /\ acks = [n \in Node |-> [d \in Dot |-> {}]]
  /\ done = [n \in Node |-> [d \in Dot |-> FALSE]]
  /\ committedDots = [n \in Node |-> {}]
  /\ committedCount = [n \in Node |-> 0]
  /\ lastApplied = [n \in Node |-> 0]
  /\ pending = [n \in Node |-> [d \in Dot |-> NoChange]]
  /\ applied = [n \in Node |-> <<>>]
  /\ commits = {}
  /\ stage = [c \in Change |-> "new"]
  /\ dotOf = [c \in Change |-> NoDot]
  /\ reply = [c \in Change |-> "none"]
  /\ net = {}
  /\ memberOps = 0

-----------------------------------------------------------------------------
(* TempoState (state.rs): each operator is one method, run under its lock.  *)

Tracked(n, d) == cmd[n][d] # NoChange

\* get_command(..) && !committed, read under the same write lock as the mark.
UncommittedUnchecked(n, d) == Tracked(n, d)                         \* mutant
Uncommitted(n, d) == Tracked(n, d) /\ ~done[n][d]

EnoughAcksAndSelf(n, S) == Cardinality(S) + 1 >= FastQuorumSize(n)  \* mutant
EnoughAcks(n, S) == Cardinality(S) >= FastQuorumSize(n)

IsCommittedNever(n, d) == FALSE                                     \* mutant
IsCommittedIfTracked(n, d) == Tracked(n, d)                         \* mutant
IsCommitted(n, d) == d \in committedDots[n]

\* next_dot: the sequence after the one just taken.
SameSequence(n) == nextSeq                                          \* mutant
BumpSequenceTwice(n) == [nextSeq EXCEPT ![n] = @ + 2]               \* mutant
BumpSequence(n) == [nextSeq EXCEPT ![n] = @ + 1]

\* The response commit_command sends for the outcome of the local apply.
ReplyAlwaysOk(ok) == "ok"                                           \* mutant
ReplyTo(ok) == IF ok THEN "ok" ELSE "error"

\* add_command keeps the entry it finds.
AddCommand(n, d, c, t) ==
  /\ cmd' = IF Tracked(n, d) THEN cmd ELSE [cmd EXCEPT ![n][d] = c]
  /\ cmdClock' = IF Tracked(n, d) THEN cmdClock ELSE [cmdClock EXCEPT ![n][d] = t]

MarkCommitted(n, d) ==
  IF Tracked(n, d) /\ done[n][d]
  THEN UNCHANGED <<done, committedDots, committedCount, lastApplied>>
  ELSE /\ committedDots' = [committedDots EXCEPT ![n] = @ \cup {d}]
       /\ committedCount' = [committedCount EXCEPT ![n] = @ + 1]
       /\ done' = IF Tracked(n, d) THEN [done EXCEPT ![n][d] = TRUE] ELSE done
       /\ lastApplied' =
            IF Tracked(n, d) /\ Home(d) = n
            THEN [lastApplied EXCEPT ![n] = Larger(@, d[2])] ELSE lastApplied

-----------------------------------------------------------------------------
(* Sending (network.rs, send_message, broadcast_message).                   *)

\* One copy of msg for every member id but the sender's own.
Copies(n, msg) == {[msg EXCEPT !.to = m] : m \in members[n] \ {n}}

\* The posts that get through.  They are made one after the other, so a task
\* dropped on the way (cut) has made only some of them.
Arriving(S, cut) == IF Lossy \/ cut THEN SUBSET S ELSE {S}

\* An answer goes to the sender's node id, if that id is a member at all.
Answer(n, msg) == IF msg.to \in members[n] THEN {msg} ELSE {}

\* The handler task takes the next message addressed to its node.
Receives(n, m) ==
  /\ m \in net
  /\ AddrOf[m.to] = n
  /\ \A r \in commits : r.task # n

\* apply_changelog: the store operation, then the notification of the proxy.
ApplyChange(n, c, ok) ==
  applied' = IF ok THEN [applied EXCEPT ![n] = Append(@, c)] ELSE applied
Outcomes(c) == IF c \in Faulty THEN BOOLEAN ELSE {TRUE}

-----------------------------------------------------------------------------
(* The client's side: Consensus::propose.                                   *)

\* propose up to the end of its broadcast: next_dot, tick, the response
\* channel, the command with the coordinator's own ack, MCollect to the members.
\* Nothing else can refer to the dot before the first MCollect is posted.  The
\* server drops the task if the client hangs up on the way.
Propose(n, c) ==
  LET d == <<n, nextSeq[n]>>
  IN  /\ stage[c] = "new"
      /\ nextSeq[n] <= MaxSeq
      /\ nextSeq' = BumpSequence(n)
      /\ dotOf' = [dotOf EXCEPT ![c] = d]
      /\ pending' = [pending EXCEPT ![n][d] = c]
      /\ \E now \in PhysicalTime, cut \in BOOLEAN :
           LET t == Ticked(clock[n], now)
               msg == [type |-> "MCollect", from |-> n, to |-> n, dot |-> d,
                       change |-> c, clock |-> t]
           IN  /\ clock' = [clock EXCEPT ![n] = t]
               /\ AddCommand(n, d, c, t)
               /\ acks' = [acks EXCEPT ![n][d] = @ \cup {n}]
               /\ stage' = [stage EXCEPT ![c] = IF cut THEN "gone" ELSE "sent"]
               /\ \E out \in Arriving(Copies(n, msg), cut) : net' = net \cup out
      /\ UNCHANGED <<members, done, committedDots, committedCount, lastApplied,
                     commits, reply, applied, memberOps>>

\* The propose task looks once whether its own broadcast was enough.
ProposeCheck(c) ==
  LET d == dotOf[c]  n == Home(d)
  IN  /\ stage[c] = "sent"
      /\ IF Uncommitted(n, d) /\ EnoughAcks(n, acks[n][d])
         THEN /\ stage' = [stage EXCEPT ![c] = "committing"]
              /\ commits' = commits \cup {[task |-> c, node |-> n, dot |-> d, at |-> "decided"]}
         ELSE /\ stage' = [stage EXCEPT ![c] = "waiting"]
              /\ UNCHANGED commits
      /\ UNCHANGED <<members, clock, stateVars, nextSeq, pending, dotOf, reply, applied, net,
                     memberOps>>

\* Five seconds without a response: the call fails, the command stays.
ProposeTimeout(c) ==
  LET d == dotOf[c]
  IN  /\ stage[c] = "waiting" /\ reply[c] = "none"
      /\ reply' = [reply EXCEPT ![c] = "timeout"]
      /\ pending' = [pending EXCEPT ![Home(d)][d] = NoChange]
      /\ UNCHANGED <<members, clock, stateVars, nextSeq, commits, stage, dotOf, applied, net,
                     memberOps>>

\* The client hangs up: the server drops the propose task at an await, and the
\* entry of `pending' stays behind.
ClientGone(c) ==
  /\ stage[c] \in {"sent", "waiting"} /\ reply[c] = "none"
  /\ stage' = [stage EXCEPT ![c] = "gone"]
  /\ UNCHANGED <<members, clock, stateVars, nextSeq, pending, commits, dotOf, reply, applied,
                 net, memberOps>>

-----------------------------------------------------------------------------
(* commit_command, run by the handler task or by a propose task.            *)

\* Under the state lock: take the changelog of an uncommitted command and mark it.
CommitMark(r) ==
  /\ r \in commits /\ r.at = "decided"
  /\ IF Uncommitted(r.node, r.dot)
     THEN /\ MarkCommitted(r.node, r.dot)
          /\ commits' = (commits \ {r}) \cup {[r EXCEPT !.at = "marked"]}
          /\ UNCHANGED stage
     ELSE /\ commits' = commits \ {r}
          /\ stage' = IF r.task \in Change THEN [stage EXCEPT ![r.task] = "waiting"] ELSE stage
          /\ UNCHANGED <<done, committedDots, committedCount, lastApplied>>
  /\ UNCHANGED <<members, clock, cmd, cmdClock, acks, nextSeq, pending, dotOf, reply, applied,
                 net, memberOps>>

\* Without the lock: apply, answer the caller if it still waits, broadcast MCommit.
\* A propose task that runs this is dropped if its client hangs up meanwhile.
CommitApply(r) ==
  LET n == r.node  d == r.dot  c == cmd[n][d]  caller == pending[n][d]
      msg == [type |-> "MCommit", from |-> n, to |-> n, dot |-> d, change |-> c,
              clock |-> cmdClock[n][d]]
  IN  /\ r \in commits /\ r.at = "marked"
      /\ \E ok \in Outcomes(c), cut \in BOOLEAN :
           /\ cut => r.task \in Change
           /\ ApplyChange(n, c, ok)
           /\ reply' = IF caller # NoChange /\ stage[caller] # "gone" /\ ~cut
                       THEN [reply EXCEPT ![caller] = ReplyTo(ok)] ELSE reply
           /\ stage' = IF r.task \in Change
                       THEN [stage EXCEPT ![r.task] = IF cut THEN "gone" ELSE "waiting"]
                       ELSE stage
           /\ \E out \in Arriving(Copies(n, msg), cut) : net' = net \cup out
      /\ pending' = [pending EXCEPT ![n][d] = NoChange]
      /\ commits' = commits \ {r}
      /\ UNCHANGED <<members, clock, stateVars, nextSeq, dotOf, memberOps>>

-----------------------------------------------------------------------------
(* handle_message: one action per kind of message.                          *)

HandleMCollect(n, m) ==
  /\ Receives(n, m) /\ m.type = "MCollect"
  /\ \E now, later \in PhysicalTime :
       LET t == Ticked(Updated(clock[n], m.clock, now), later)
           ack == [type |-> "MCollectAck", from |-> n, to |-> m.from, dot |-> m.dot,
                   clock |-> t]
       IN  /\ clock' = [clock EXCEPT ![n] = t]
           /\ \E out \in Arriving(Answer(n, ack), FALSE) : net' = (net \ {m}) \cup out
  /\ AddCommand(n, m.dot, m.change, m.clock)
  /\ UNCHANGED <<members, acks, done, committedDots, committedCount, lastApplied, callVars,
                 applied, memberOps>>

HandleMCollectAck(n, m) ==
  /\ Receives(n, m) /\ m.type = "MCollectAck"
  /\ \E now \in PhysicalTime : clock' = [clock EXCEPT ![n] = Updated(@, m.clock, now)]
  /\ net' = net \ {m}
  /\ acks' = IF Tracked(n, m.dot) THEN [acks EXCEPT ![n][m.dot] = @ \cup {m.from}] ELSE acks
  /\ commits' = IF Uncommitted(n, m.dot) /\ EnoughAcks(n, acks'[n][m.dot])
                THEN commits \cup {[task |-> n, node |-> n, dot |-> m.dot, at |-> "decided"]}
                ELSE commits
  /\ UNCHANGED <<members, cmd, cmdClock, done, committedDots, committedCount, lastApplied,
                 nextSeq, pending, stage, dotOf, reply, applied, memberOps>>

\* The dot counts as committed even if the store operation fails.
HandleMCommit(n, m) ==
  /\ Receives(n, m) /\ m.type = "MCommit"
  /\ \E now \in PhysicalTime : clock' = [clock EXCEPT ![n] = Updated(@, m.clock, now)]
  /\ net' = net \ {m}
  /\ IF IsCommitted(n, m.dot)
     THEN UNCHANGED <<applied, done, committedDots, committedCount, lastApplied>>
     ELSE /\ \E ok \in Outcomes(m.change) : ApplyChange(n, m.change, ok)
          /\ MarkCommitted(n, m.dot)
  /\ UNCHANGED <<members, cmd, cmdClock, acks, callVars, memberOps>>

HandleClockBump(n, m) ==
  /\ Receives(n, m) /\ m.type = "ClockBump"
  /\ \E now \in PhysicalTime : clock' = [clock EXCEPT ![n] = Updated(@, m.clock, now)]
  /\ net' = net \ {m}
  /\ UNCHANGED <<members, stateVars, callVars, applied, memberOps>>

\* The periodic task: tick, then tell the members.  MaxClock bounds it.
ClockBump(n) ==
  /\ clock[n] < MaxClock
  /\ \E now \in PhysicalTime :
       LET t == Ticked(clock[n], now)
           msg == [type |-> "ClockBump", from |-> n, to |-> n, clock |-> t]
       IN  /\ clock' = [clock EXCEPT ![n] = t]
           /\ \E out \in Arriving(Copies(n, msg), FALSE) : net' = net \cup out
  /\ UNCHANGED <<members, stateVars, callVars, applied, memberOps>>

-----------------------------------------------------------------------------
(* Member lists: local to a node, changed by its admin API and by discovery, *)
(* which knows addresses only by a hash and may list one a second time.      *)

AddNode(n, m) ==
  /\ memberOps < MaxMemberOps /\ m \notin members[n]
  /\ members' = [members EXCEPT ![n] = @ \cup {m}]
  /\ memberOps' = memberOps + 1
  /\ UNCHANGED <<clock, stateVars, callVars, applied, net>>

RemoveNode(n, m) ==
  /\ memberOps < MaxMemberOps /\ m \in members[n]
  /\ members' = [members EXCEPT ![n] = @ \ {m}]
  /\ memberOps' = memberOps + 1
  /\ UNCHANGED <<clock, stateVars, callVars, applied, net>>

-----------------------------------------------------------------------------
Handle(n) == \E m \in net : \/ HandleMCollect(n, m)
                            \/ HandleMCollectAck(n, m)
                            \/ HandleMCommit(n, m)
                            \/ HandleClockBump(n, m)

Commit(r) == CommitMark(r) \/ CommitApply(r)

Next ==
  \/ \E n \in Node, c \in Change : Propose(n, c)
  \/ \E c \in Change : ProposeCheck(c) \/ ProposeTimeout(c) \/ ClientGone(c)
  \/ \E r \in commits : Commit(r)
  \/ \E n \in Node : Handle(n) \/ ClockBump(n)
  \/ \E n \in Node, m \in MemberId : AddNode(n, m) \/ RemoveNode(n, m)

Spec == Init /\ [][Next]_vars

(* Scheduling: the handler loop runs as long as its node does, a spawned     *)
(* task is polled until it ends, and the timer of a call fires.  Clients,    *)
(* operators and the clock-bump period promise nothing.                      *)
Fairness ==
  /\ \A n \in Node : WF_vars(Handle(n))
  /\ \A c \in Change : WF_vars(ProposeCheck(c)) /\ WF_vars(ProposeTimeout(c))
  /\ \A t \in Node \cup Change : WF_vars(\E r \in commits : r.task = t /\ Commit(r))

FairSpec == Spec /\ Fairness

-----------------------------------------------------------------------------
(* Properties.                                                              *)

Contents(s) == {s[i] : i \in DOMAIN s}
Holders(d, c) == {n \in Node : cmd[n][d] = c}

\* A dot stands for one changelog everywhere: no two nodes, messages or a node
\* and a message disagree on what it names ("unique command identifier").
Names(d) ==
  ({cmd[n][d] : n \in Node} \ {NoChange})
    \cup {m.change : m \in {x \in net : x.type \in {"MCollect", "MCommit"} /\ x.dot = d}}
DotNamesOneChange == \A d \in Dot : \A c1, c2 \in Names(d) : c1 = c2

\* A node's store takes a changelog at most once, although its handler and its
\* propose task may both find the quorum, MCommit may come twice (an address
\* listed under two ids) and the coordinator may hear its own messages.
AppliedAtMostOnce ==
  \A n \in Node : \A i, j \in DOMAIN applied[n] : applied[n][i] = applied[n][j] => i = j

\* No node takes a dot for committed before a fast quorum of distinct nodes
\* tracks that very changelog; so does no store apply one.
CommittedHeldByQuorum ==
  \A n \in Node : \A d \in committedDots[n] :
    \E c \in Change : /\ cmd[Home(d)][d] = c
                      /\ Cardinality(Holders(d, c)) >= FastQuorumSize(Home(d))

\* A client is told "ok" only for a write its node has applied and a quorum
\* holds, whatever races with the timeout and the client's hanging up.
OkIsDurable ==
  \A c \in Change : reply[c] = "ok" =>
    LET d == dotOf[c]
    IN  /\ c \in Contents(applied[Home(d)])
        /\ Cardinality(Holders(d, c)) >= FastQuorumSize(Home(d))

\* The metric `committed' counts each dot the node took for committed once.
CountIsExact == \A n \in Node : committedCount[n] = Cardinality(committedDots[n])

\* A node that tracks or has committed a command has a clock at least the
\* command's, so what it proposes later is stamped later; an ack is stamped
\* after the command it answers.
StampsAreCausal ==
  /\ \A n \in Node, d \in Dot :
       Tracked(n, d) \/ IsCommitted(n, d) => clock[n] >= cmdClock[Home(d)][d]
  /\ \A m \in net :
       m.type = "MCollectAck" => m.clock > cmdClock[Home(m.dot)][m.dot]

\* Once nothing is in flight and no task runs, all stores hold the same value
\* for every resource: the last write to a key is the same everywhere.
LastWrite(n, k) ==
  LET at == {i \in DOMAIN applied[n] : KeyOf[applied[n][i]] = k}
  IN  IF at = {} THEN NoChange ELSE applied[n][CHOOSE i \in at : \A j \in at : j <= i]
Quiet == net = {} /\ commits = {} /\ \A c \in Change : stage[c] # "sent"
StoresConverge ==
  Quiet => \A n1, n2 \in Node : \A k \in {KeyOf[c] : c \in Change} :
             LastWrite(n1, k) = LastWrite(n2, k)

\* The promise of module Replication: a change is held by the nodes that track
\* it under its dot, and chosen when its coordinator marks it committed.
HasDot(c) == dotOf[c] # NoDot
SubmittedAt == [c \in Change |-> IF HasDot(c) THEN Home(dotOf[c]) ELSE NoDot]
HeldBy == [c \in Change |-> IF HasDot(c) THEN Holders(dotOf[c], c) ELSE {}]
ChosenChanges == {c \in Change : HasDot(c) /\ done[Home(dotOf[c])][dotOf[c]]}

FastQuorums == [n \in Node |-> {S \in SUBSET Node : Cardinality(S) >= FastQuorumSize(n)}]

Promise == INSTANCE Replication WITH
  NoNode <- NoDot, Quorums <- FastQuorums,
  home <- SubmittedAt, held <- HeldBy, chosen <- ChosenChanges,
  written <- applied, answer <- reply

\* Every step of the protocol is a step of the promise or changes nothing in it.
KeepsPromise == Promise!Spec

\* Without losses a proposed change reaches every member's store, whether or
\* not it meets its timeout, unless the client hangs up during propose or a
\* member list changes (propose, handle_mcollect, commit_command).
EveryChangeSpreads ==
  \A c \in Change : stage[c] # "new" ~>
    \/ stage[c] = "gone" \/ memberOps > 0
    \/ \A n \in Node : c \in Contents(applied[n])

-----------------------------------------------------------------------------
(* The inductive invariant.  The command a coordinator tracks is the truth   *)
(* about its dot; everything else (other nodes' commands, acks, messages,    *)
(* commit marks, running commits, stores, replies) follows from it.          *)

Truth(d) == cmd[Home(d)][d]

\* A call past its first step has the dot its coordinator tracks it under.
CallsInv ==
  \A c \in Change :
    /\ stage[c] = "new" <=> dotOf[c] = NoDot
    /\ dotOf[c] # NoDot => /\ dotOf[c][2] < nextSeq[Home(dotOf[c])]
                           /\ Truth(dotOf[c]) = c
    /\ reply[c] # "none" => dotOf[c] # NoDot

\* What a node tracks under a dot is the change that has this dot, stamped as
\* its coordinator stamped it; whoever is counted as acked does track it.
TrackInv ==
  \A n \in Node, d \in Dot :
    /\ Tracked(n, d) => /\ dotOf[cmd[n][d]] = d
                        /\ cmdClock[n][d] = cmdClock[Home(d)][d]
                        /\ clock[n] >= cmdClock[n][d]
    /\ \A k \in acks[n][d] : Tracked(k, d)

\* Messages carry the truth, acks go to the coordinator of what they answer.
NetInv ==
  \A m \in net :
    /\ m.type \in {"MCollect", "MCommit"} =>
         /\ dotOf[m.change] = m.dot
         /\ m.from = Home(m.dot)
         /\ m.clock = cmdClock[Home(m.dot)][m.dot]
    /\ m.type = "MCommit" => done[Home(m.dot)][m.dot]
    /\ m.type = "MCollectAck" =>
         /\ Tracked(m.from, m.dot)
         /\ m.to = Home(m.dot)
         /\ m.clock > cmdClock[Home(m.dot)][m.dot]

\* Every mark follows the coordinator's, which followed a quorum of acks.
MarkInv ==
  \A n \in Node, d \in Dot :
    /\ done[n][d] => Tracked(n, d) /\ d \in committedDots[n]
    /\ d \in committedDots[n] => /\ done[Home(d)][d]
                                 /\ clock[n] >= cmdClock[Home(d)][d]
    /\ done[Home(d)][d] => EnoughAcks(Home(d), acks[Home(d)][d])

\* Only coordinators commit; of the tasks committing a dot one at most has
\* marked it, and it has not applied the change yet.
RunnerInv ==
  /\ \A r \in commits :
       /\ r.node = Home(r.dot)
       /\ Tracked(r.node, r.dot)
       /\ EnoughAcks(r.node, acks[r.node][r.dot])
       /\ r.at = "marked" => /\ done[r.node][r.dot]
                             /\ cmd[r.node][r.dot] \notin Contents(applied[r.node])
       /\ r.task \in Change => r.task = cmd[r.node][r.dot]
  /\ \A r, s \in commits :
       r.at = "marked" /\ s.at = "marked" /\ r.dot = s.dot => r = s

\* Stores only took committed changes, each once; an "ok" follows the store.
StoreInv ==
  /\ \A n \in Node : \A c \in Contents(applied[n]) :
       dotOf[c] # NoDot /\ dotOf[c] \in committedDots[n]
  /\ AppliedAtMostOnce
  /\ \A c \in Change : reply[c] = "ok" =>
       c \in Contents(applied[Home(dotOf[c])])
  /\ \A n \in Node, d \in Dot : pending[n][d] # NoChange =>
       Home(d) = n /\ pending[n][d] = cmd[n][d] /\ reply[cmd[n][d]] = "none"

IInv == TypeOK /\ CallsInv /\ TrackInv /\ NetInv /\ MarkInv /\ RunnerInv /\ StoreInv
        /\ CountIsExact

=============================================================================
