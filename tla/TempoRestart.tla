---------------------------- MODULE TempoRestart ----------------------------
(***************************************************************************)
(* Tempo with restarts.  All protocol state is in memory: a node that      *)
(* comes back numbers its commands from 1 again, tracks nothing and has    *)
(* the member list of its configuration file.  Messages to and from its    *)
(* former life are still in flight.  Its resource store is kept when it is *)
(* file storage.                                                           *)
(***************************************************************************)
EXTENDS Tempo

CONSTANTS
  Persistent,    \* whether storage is file storage
  MaxRestarts    \* bound on restarts

ASSUME RestartConstantsOK == Persistent \in BOOLEAN /\ MaxRestarts \in Nat

VARIABLE restarts
rvars == <<vars, restarts>>

\* The calls n was serving when it stopped: their clients see the connection fail.
Serving(n) == {c \in Change : /\ dotOf[c] # NoDot /\ Home(dotOf[c]) = n
                              /\ reply[c] = "none"}

Restart(n) ==
  /\ restarts < MaxRestarts
  /\ restarts' = restarts + 1
  /\ members' = [members EXCEPT ![n] = InitialMembers[n]]
  /\ nextSeq' = [nextSeq EXCEPT ![n] = 1]
  /\ \E now \in PhysicalTime : clock' = [clock EXCEPT ![n] = now]
  /\ cmd' = [cmd EXCEPT ![n] = [d \in Dot |-> NoChange]]
  /\ cmdClock' = [cmdClock EXCEPT ![n] = [d \in Dot |-> 0]]
  /\ acks' = [acks EXCEPT ![n] = [d \in Dot |-> {}]]
  /\ done' = [done EXCEPT ![n] = [d \in Dot |-> FALSE]]
  /\ committedDots' = [committedDots EXCEPT ![n] = {}]
  /\ committedCount' = [committedCount EXCEPT ![n] = 0]
  /\ lastApplied' = [lastApplied EXCEPT ![n] = 0]
  /\ pending' = [pending EXCEPT ![n] = [d \in Dot |-> NoChange]]
  /\ commits' = {r \in commits : r.node # n}
  /\ stage' = [c \in Change |-> IF c \in Serving(n) THEN "gone" ELSE stage[c]]
  /\ applied' = IF Persistent THEN applied ELSE [applied EXCEPT ![n] = <<>>]
  /\ UNCHANGED <<dotOf, reply, net, memberOps>>

InitR == Init /\ restarts = 0
NextR == (Next /\ UNCHANGED restarts) \/ \E n \in Node : Restart(n)
SpecR == InitR /\ [][NextR]_rvars

-----------------------------------------------------------------------------
\* What a client was told "ok" for is in its node's file store for good, if no
\* member list names a node twice.
OkIsOnDisk ==
  \A c \in Change : reply[c] = "ok" => c \in Contents(applied[Home(dotOf[c])])

-----------------------------------------------------------------------------
(* The inductive invariant.  A node that starts again gives old dots to new   *)
(* changes, but a change never gets a second dot: whatever is tracked, under  *)
(* way or being committed under a dot is a change that took it.  That a node  *)
(* does not track a dot it is yet to give, and so answers the call it means,  *)
(* holds as long as it cannot hear its own MCollect, under an alias.          *)

NamesInv ==
  /\ \A c \in Change : /\ stage[c] = "new" <=> dotOf[c] = NoDot
                       /\ reply[c] # "none" => dotOf[c] # NoDot
  /\ \A n \in Node, d \in Dot : Tracked(n, d) =>
       /\ dotOf[cmd[n][d]] = d
       /\ Home(d) = n => d[2] < nextSeq[n]
  /\ \A m \in net :
       /\ m.to # m.from
       /\ m.type \in {"MCollect", "MCommit"} => dotOf[m.change] = m.dot
       /\ m.type = "MCollect" => m.from = Home(m.dot)
       /\ m.type = "MCollectAck" => m.to = Home(m.dot)

TasksInv ==
  /\ \A r \in commits : /\ r.node = Home(r.dot) /\ Tracked(r.node, r.dot)
                        /\ r.task \in Change => dotOf[r.task] # NoDot
  /\ \A n \in Node, d \in Dot : pending[n][d] # NoChange => pending[n][d] = cmd[n][d]

DiskKept == Persistent => OkIsOnDisk

DiskInv == TypeOK /\ restarts \in Nat /\ NamesInv /\ TasksInv /\ DiskKept

(* That a store takes a change once rests on the commit, not on what nodes    *)
(* remember: they forget what they committed, and would apply an MCommit they *)
(* hear again.  But a command is committed by one task of its coordinator,    *)
(* which after a restart has lost it; until then nobody has the change, and   *)
(* afterwards each member is sent it in one message.                          *)

\* No store has c, and no message is to bring it.
Unsent(c) ==
  /\ \A m \in net : m.type = "MCommit" => m.change # c
  /\ \A n \in Node : c \notin Contents(applied[n])

CommitsInv ==
  /\ \A r \in commits : r.at = "marked" =>
       /\ done[r.node][r.dot]
       /\ Unsent(cmd[r.node][r.dot])
       /\ \A q \in commits : q.at = "marked" /\ q.dot = r.dot => q = r
  /\ \A d \in Dot : Tracked(Home(d), d) /\ ~done[Home(d)][d] => Unsent(cmd[Home(d)][d])
  /\ \A c \in Change : dotOf[c] = NoDot => Unsent(c)

\* What is in flight brings each member something new.
FlightInv ==
  \A m \in net : m.type = "MCommit" =>
    /\ m.change \notin Contents(applied[AddrOf[m.to]])
    /\ \A x \in net : x.type = "MCommit" /\ x.change = m.change /\ x.to = m.to => x = m

OnceInv == CommitsInv /\ FlightInv /\ AppliedAtMostOnce
=============================================================================
