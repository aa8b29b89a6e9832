----------------------------- MODULE RaftStore ------------------------------
(***************************************************************************)
(* The replicated configuration stores of dgate's Raft mode:               *)
(* src/cluster/raft (the state machine, its snapshots, the log store) and  *)
(* what src/proxy does around it (proposals, the default namespace made at *)
(* boot).                                                                  *)
(*                                                                         *)
(* openraft is external.  It is taken to do what it promises: it decides   *)
(* on one sequence of entries, and hands them to every node's state        *)
(* machine in order, from the entry after the one the state machine says   *)
(* it applied last, or first hands it a snapshot another node took.  Blank *)
(* and membership entries change no store and are left out.                *)
(*                                                                         *)
(* The code keeps log, vote and the number of the last applied entry in    *)
(* memory, and the resources in storage that may be a file: a restarted    *)
(* node starts from the first entry again, over the store it had.          *)
(***************************************************************************)
EXTENDS Integers, Sequences, FiniteSets

CONSTANTS
  Node,
  Resource,
  Change,        \* the changelogs clients submit, each with a fresh id
  NoNode,
  Absent,        \* what is read of a resource that is not stored
  Builtin,       \* the default namespace the code makes itself
  KeyOf,         \* the resource a changelog writes
  Deletes,       \* the changelogs that delete it
  Bad,           \* changelogs whose item does not deserialise
  Faulty,        \* changelogs whose store operation may fail on a node
  Default,       \* the namespace "default"
  NoDefault,     \* disable_default_namespace
  Persistent,    \* file storage rather than memory storage
  MaxRestarts    \* bound on restarts

ASSUME ConstantsOK ==
  /\ KeyOf \in [Change -> Resource]
  /\ Deletes \subseteq Change /\ Bad \subseteq Change /\ Faulty \subseteq Change
  /\ NoNode \notin Node
  /\ Absent \notin Change /\ Builtin \notin Change
  /\ Default \in Resource
  /\ NoDefault \in BOOLEAN /\ Persistent \in BOOLEAN
  /\ MaxRestarts \in Nat

VARIABLES
  decided,      \* the entries Raft has decided on
  origin,       \* origin[c]: the node c was submitted to
  reply,        \* reply[c]: what its client got
  lastApplied,  \* lastApplied[n]: index of the last entry applied
  store,        \* store[n][k]: the resource tables of n
  snapshot,     \* snapshot[n]: indices of the entries in snapshot_data
  told,         \* told[n]: what the change channel carried since n started
  install,      \* install[n]: the snapshot n is installing
  boot,         \* boot[n]: where n's start is
  restarts      \* restarts so far (bounded)

vars == <<decided, origin, reply, lastApplied, store, snapshot, told, install, boot, restarts>>

Index == Nat \ {0}
Value == Change \cup {Absent, Builtin}
NoInstall == [on |-> FALSE, rest |-> {}, upto |-> 0, all |-> {}]

TypeOK ==
  /\ decided \in Seq(Change)
  /\ origin \in [Change -> Node \cup {NoNode}]
  /\ reply \in [Change -> {"none", "ok", "error"}]
  /\ lastApplied \in [Node -> Nat]
  /\ store \in [Node -> [Resource -> Value]]
  /\ snapshot \in [Node -> SUBSET Index]
  /\ told \in [Node -> Seq(Change)]
  /\ install \in [Node -> [on : BOOLEAN, rest : SUBSET Index, upto : Nat, all : SUBSET Index]]
  /\ boot \in [Node -> {"check", "write", "up"}]
  /\ restarts \in 0..MaxRestarts

Init ==
  /\ decided = <<>>
  /\ origin = [c \in Change |-> NoNode]
  /\ reply = [c \in Change |-> "none"]
  /\ lastApplied = [n \in Node |-> 0]
  /\ store = [n \in Node |-> [k \in Resource |-> Absent]]
  /\ snapshot = [n \in Node |-> {}]
  /\ told = [n \in Node |-> <<>>]
  /\ install = [n \in Node |-> NoInstall]
  /\ boot = [n \in Node |-> "check"]
  /\ restarts = 0

-----------------------------------------------------------------------------
(* Proposals: ProxyState::apply_changelog in cluster mode.                  *)

Submit(n, c) ==
  /\ origin[c] = NoNode
  /\ origin' = [origin EXCEPT ![c] = n]
  /\ UNCHANGED <<decided, reply, lastApplied, store, snapshot, told, install, boot, restarts>>

\* openraft: a submitted change becomes the next entry, or is refused (which
\* says nothing about its fate: the leader may have stepped down meanwhile).
Decide(c) ==
  /\ origin[c] # NoNode
  /\ \A i \in DOMAIN decided : decided[i] # c
  /\ decided' = Append(decided, c)
  /\ UNCHANGED <<origin, reply, lastApplied, store, snapshot, told, install, boot, restarts>>

Refuse(c) ==
  /\ origin[c] # NoNode /\ reply[c] = "none"
  /\ reply' = [reply EXCEPT ![c] = "error"]
  /\ UNCHANGED <<decided, origin, lastApplied, store, snapshot, told, install, boot, restarts>>

-----------------------------------------------------------------------------
(* The state machine.                                                       *)

Effect(c) == IF c \in Deletes THEN Absent ELSE c
Outcomes(c) ==
  IF c \in Bad THEN {FALSE} ELSE IF c \in Faulty THEN BOOLEAN ELSE {TRUE}

\* apply_changelog: the store, the change channel, the snapshot data.
ApplyChangelog(n, i, ok) ==
  LET c == decided[i]
  IN  IF ok
      THEN /\ store' = [store EXCEPT ![n][KeyOf[c]] = Effect(c)]
           /\ told' = [told EXCEPT ![n] = Append(@, c)]
           /\ snapshot' = [snapshot EXCEPT ![n] = @ \cup {i}]
      ELSE UNCHANGED <<store, told, snapshot>>

\* The caller sees success whatever the outcome of the apply was.
Answers(n, c, ok) ==
  reply' = IF origin[c] = n /\ reply[c] = "none" THEN [reply EXCEPT ![c] = "ok"] ELSE reply

Apply(n) ==
  LET i == lastApplied[n] + 1
  IN  /\ ~install[n].on /\ i \in DOMAIN decided
      /\ lastApplied' = [lastApplied EXCEPT ![n] = i]
      /\ \E ok \in Outcomes(decided[i]) :
           ApplyChangelog(n, i, ok) /\ Answers(n, decided[i], ok)
      /\ UNCHANGED <<decided, origin, install, boot, restarts>>

\* A node that is behind gets a snapshot another one took when it had applied u
\* entries.  snapshot_data lists changelogs in the order of their entries, so a
\* set of indices stands for it.
UpToBefore(n, u) == {i \in snapshot[n] : i < u}                      \* mutant
UpTo(n, u) == {i \in snapshot[n] : i <= u}
InstallBegin(n, m, u) ==
  /\ ~install[n].on /\ ~install[m].on
  /\ lastApplied[n] < u /\ u <= lastApplied[m]
  /\ install' = [install EXCEPT ![n] =
                   [on |-> TRUE, rest |-> UpTo(m, u), upto |-> u, all |-> UpTo(m, u)]]
  /\ UNCHANGED <<decided, origin, reply, lastApplied, store, snapshot, told, boot, restarts>>

Anywhere(i, S) == TRUE                                              \* mutant
Earliest(i, S) == \A j \in S : i <= j

\* The store is not cleared: the changelogs are applied over what is there.
InstallStep(n, i) ==
  /\ install[n].on /\ i \in install[n].rest /\ Earliest(i, install[n].rest)
  /\ install' = [install EXCEPT ![n].rest = @ \ {i}]
  /\ \E ok \in Outcomes(decided[i]) : ApplyChangelog(n, i, ok)
  /\ UNCHANGED <<decided, origin, reply, lastApplied, boot, restarts>>

InstallEnd(n) ==
  /\ install[n].on /\ install[n].rest = {}
  /\ lastApplied' = [lastApplied EXCEPT ![n] = install[n].upto]
  /\ snapshot' = [snapshot EXCEPT ![n] = install[n].all]
  /\ install' = [install EXCEPT ![n] = NoInstall]
  /\ UNCHANGED <<decided, origin, reply, store, told, boot, restarts>>

-----------------------------------------------------------------------------
(* A node's start: restore_from_changelogs after init_cluster.  No changelog *)
(* is ever appended in cluster mode, so only the default namespace is made,  *)
(* by this node for itself, while entries already arrive.                    *)

BootCheck(n) ==
  /\ boot[n] = "check"
  /\ boot' = [boot EXCEPT ![n] =
                IF ~NoDefault /\ store[n][Default] = Absent THEN "write" ELSE "up"]
  /\ UNCHANGED <<decided, origin, reply, lastApplied, store, snapshot, told, install, restarts>>

BootWrite(n) ==
  /\ boot[n] = "write"
  /\ store' = [store EXCEPT ![n][Default] = Builtin]
  /\ boot' = [boot EXCEPT ![n] = "up"]
  /\ UNCHANGED <<decided, origin, reply, lastApplied, snapshot, told, install, restarts>>

\* The process stops and starts again; its clients see their calls fail.
KeepsApplied(n) == lastApplied                                      \* mutant
ForgetsApplied(n) == [lastApplied EXCEPT ![n] = 0]
Restart(n) ==
  /\ restarts < MaxRestarts
  /\ restarts' = restarts + 1
  /\ reply' = [c \in Change |-> IF origin[c] = n /\ reply[c] = "none"
                                THEN "error" ELSE reply[c]]
  /\ lastApplied' = ForgetsApplied(n)
  /\ store' = IF Persistent THEN store ELSE [store EXCEPT ![n] = [k \in Resource |-> Absent]]
  /\ snapshot' = [snapshot EXCEPT ![n] = {}]
  /\ told' = [told EXCEPT ![n] = <<>>]
  /\ install' = [install EXCEPT ![n] = NoInstall]
  /\ boot' = [boot EXCEPT ![n] = "check"]
  /\ UNCHANGED <<decided, origin>>

-----------------------------------------------------------------------------
Install(n) ==
  \/ \E m \in Node : \E u \in 1..lastApplied[m] : InstallBegin(n, m, u)
  \/ \E i \in install[n].rest : InstallStep(n, i)
  \/ InstallEnd(n)

Next ==
  \/ \E n \in Node, c \in Change : Submit(n, c)
  \/ \E c \in Change : Decide(c) \/ Refuse(c)
  \/ \E n \in Node : Apply(n) \/ Install(n) \/ BootCheck(n) \/ BootWrite(n) \/ Restart(n)

Spec == Init /\ [][Next]_vars

-----------------------------------------------------------------------------
(* Properties.                                                              *)

\* The resources the stores must agree on: no write of them failed on one node
\* only, and nodes do not make them for themselves.
Shared == {k \in Resource : /\ \A c \in Faulty : KeyOf[c] # k
                            /\ NoDefault \/ k # Default}

\* The entries that write k, and the last one of them.
On(k) == {i \in DOMAIN decided : KeyOf[decided[i]] = k /\ decided[i] \notin Bad}
Last(k, i) == i \in On(k) /\ \A j \in On(k) : j <= i

Final(n, k) ==
  /\ On(k) = {} => store[n][k] = Absent
  /\ \A i \in On(k) : Last(k, i) => store[n][k] = Effect(decided[i])

\* Of the changes of k the channel carried, the last was the last one decided.
ToldLast(n, k) ==
  \A i \in On(k) : Last(k, i) =>
    \E p \in DOMAIN told[n] :
      /\ told[n][p] = decided[i]
      /\ \A q \in DOMAIN told[n] : KeyOf[told[n][q]] = k => q <= p

CaughtUp(n) == ~install[n].on /\ lastApplied[n] = Len(decided)

\* A node that has applied all entries stores the last write of every resource,
\* although a snapshot was replayed over a store nobody cleared or old entries
\* over newer values after a restart: the stores of two such nodes agree.
CaughtUpStoresAgree == \A n \in Node : CaughtUp(n) => \A k \in Shared : Final(n, k)

\* Its proxy was told of the last write of every resource since it started, so
\* it can serve what is stored although it compiled nothing at boot.
CaughtUpProxyKnows == \A n \in Node : CaughtUp(n) => \A k \in Shared : ToldLast(n, k)

\* A change the client was told ok for was decided, and every node that is past
\* it stores it or a later change of its resource ("The change will be applied
\* once it's committed and replicated"), whatever was installed or restarted.
\* Changes that cannot be applied are told ok for as well and are left out.
OkIsStored ==
  \A c \in Change \ Bad : reply[c] = "ok" =>
    \E i \in DOMAIN decided :
      /\ decided[i] = c
      /\ \A n \in Node : KeyOf[c] \in Shared /\ ~install[n].on /\ i <= lastApplied[n] =>
           \E j \in On(KeyOf[c]) : i <= j /\ store[n][KeyOf[c]] = Effect(decided[j])

-----------------------------------------------------------------------------
(* The inductive invariant.  Where n's state machine gets to without any     *)
(* further entry is Reach(n), and Rest(n) is what it still replays.          *)

Reach(n) == IF install[n].on THEN install[n].upto ELSE lastApplied[n]
Rest(n) == IF install[n].on THEN install[n].rest ELSE {}
Snap(n) == IF install[n].on THEN install[n].all ELSE snapshot[n]

\* Snapshots hold applied entries that can be applied, and of the shared
\* resources all of them; what remains of a replay follows what is done.
SnapInv ==
  \A n \in Node :
    /\ Reach(n) <= Len(decided)
    /\ \A i \in Snap(n) : i <= Reach(n) /\ decided[i] \notin Bad
    /\ \A k \in Shared : \A i \in On(k) : i <= Reach(n) => i \in Snap(n)
    /\ Rest(n) \subseteq Snap(n)
    /\ \A i \in Snap(n) \ Rest(n), j \in Rest(n) : i < j

\* What nothing remains to be applied of is final.
Reached(n, k) == \A i \in On(k) : i <= Reach(n) /\ i \notin Rest(n)
StoreInv ==
  \A n \in Node, k \in Shared : Reached(n, k) => Final(n, k) /\ ToldLast(n, k)

\* Only a node that may make the default namespace is about to.
BootInv == NoDefault => \A n \in Node : boot[n] # "write"

IInv == TypeOK /\ SnapInv /\ StoreInv /\ BootInv
=============================================================================
