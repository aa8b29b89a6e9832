------------------------- MODULE TempoRestartProofs -------------------------
(***************************************************************************)
(* Proofs about TempoRestart, for any nodes, changes, losses and number of *)
(* restarts, if no node is listed under two ids: a store takes a change at *)
(* most once, and with file storage what a client was told "ok" for is in  *)
(* its node's store for good.  Much of Tempo's invariant does not survive  *)
(* a restart (dots are given again, old acks count for new commands);      *)
(* DiskInv and OnceInv are what does.                                      *)
(***************************************************************************)
EXTENDS TempoRestart, TempoProofs

\* Without aliases a member id is the node it leads to.
LEMMA IdsAreNodes ==
  ASSUME Alias = {}
  PROVE  \A m \in MemberId : m \in Node /\ AddrOf[m] = m
BY ConstantsOK DEF MemberId

\* The names given so far, over unchanged commands, dots and sequences.
LEMMA NamesFrame ==
  ASSUME NamesInv, UNCHANGED <<cmd, dotOf, nextSeq, reply>>,
         \A x \in Change : stage'[x] = "new" <=> stage[x] = "new",
         \A m \in net' : m \in net \/ (m.type = "ClockBump" /\ m.to # m.from)
  PROVE  NamesInv'
BY DEF NamesInv, Tracked

\* Tasks and stores, over unchanged ones.
LEMMA TasksFrame ==
  ASSUME TasksInv, DiskKept, UNCHANGED <<cmd, dotOf, pending, applied, reply>>,
         commits' \subseteq commits
  PROVE  TasksInv' /\ DiskKept'
BY DEF TasksInv, DiskKept, OkIsOnDisk, Tracked

-----------------------------------------------------------------------------
\* Nodes start with nothing named.
LEMMA DiskInit == InitR => DiskInv
<1> SUFFICES ASSUME InitR PROVE DiskInv
  OBVIOUS
<1>1. TypeOK
  BY InitHolds DEF InitR, IInv
<1>2. restarts \in Nat
  BY DEF InitR
<1>3. NamesInv
  BY DEF InitR, Init, NamesInv, Tracked
<1>4. TasksInv
  BY DEF InitR, Init, TasksInv
<1>5. DiskKept
  BY DEF InitR, Init, DiskKept, OkIsOnDisk
<1> QED BY <1>1, <1>2, <1>3, <1>4, <1>5 DEF DiskInv

\* A restart forgets what is named at a node; the store is kept.
LEMMA RestartStep ==
  ASSUME DiskInv, NEW n \in Node, Restart(n)
  PROVE  DiskInv'
<1>0. TypeOK /\ NamesInv /\ TasksInv /\ DiskKept
  BY DEF DiskInv
<1>1. PICK now \in PhysicalTime : clock' = [clock EXCEPT ![n] = now]
  BY DEF Restart
<1>2. /\ cmd' = [cmd EXCEPT ![n] = [d \in Dot |-> NoChange]]
      /\ pending' = [pending EXCEPT ![n] = [d \in Dot |-> NoChange]]
      /\ nextSeq' = [nextSeq EXCEPT ![n] = 1]
      /\ commits' = {r \in commits : r.node # n}
      /\ UNCHANGED <<dotOf, reply, net, memberOps>>
      /\ applied' = IF Persistent THEN applied ELSE [applied EXCEPT ![n] = <<>>]
  BY DEF Restart
<1>3. /\ stage' \in [Change -> {"new", "sent", "committing", "waiting", "gone"}]
      /\ \A x \in Change : stage'[x] = "new" <=> stage[x] = "new"
  <2>1. stage' = [c \in Change |-> IF c \in Serving(n) THEN "gone" ELSE stage[c]]
    BY DEF Restart
  <2>2. \A x \in Serving(n) : dotOf[x] # NoDot
    BY DEF Serving
  <2> QED BY <1>0, <2>1, <2>2 DEF TypeOK, NamesInv
<1>4. /\ cmd' \in [Node -> [Dot -> Change \cup {NoChange}]]
      /\ pending' \in [Node -> [Dot -> Change \cup {NoChange}]]
      /\ \A k \in Node, e \in Dot :
           IF k = n THEN cmd'[k][e] = NoChange /\ pending'[k][e] = NoChange
                    ELSE cmd'[k][e] = cmd[k][e] /\ pending'[k][e] = pending[k][e]
  BY <1>0, <1>2 DEF TypeOK
<1>5. TypeOK'
  <2>1. clock' \in [Node -> Nat]
    BY <1>0, <1>1, NowIsNumber DEF TypeOK
  <2>2. /\ members' \in [Node -> SUBSET MemberId]
        /\ nextSeq' \in [Node -> 1..(MaxSeq + 1)]
        /\ lastApplied' \in [Node -> 0..MaxSeq]
        /\ committedCount' \in [Node -> Nat]
        /\ committedDots' \in [Node -> SUBSET Dot]
    BY <1>0, ConstantsOK DEF TypeOK, Restart
  <2>3. /\ cmdClock' \in [Node -> [Dot -> Nat]]
        /\ acks' \in [Node -> [Dot -> SUBSET Node]]
        /\ done' \in [Node -> [Dot -> BOOLEAN]]
    BY <1>0 DEF TypeOK, Restart
  <2>4. commits' \subseteq Runner /\ applied' \in [Node -> Seq(Change)]
    BY <1>0, <1>2 DEF TypeOK
  <2> QED BY <1>0, <1>2, <1>3, <1>4, <2>1, <2>2, <2>3, <2>4 DEF TypeOK
<1>6. NamesInv'
  <2>1. ASSUME NEW k \in Node, NEW e \in Dot, Tracked(k, e)'
        PROVE  dotOf'[cmd'[k][e]] = e /\ (Home(e) = k => e[2] < nextSeq'[k])
    <3>1. k # n /\ cmd'[k][e] = cmd[k][e] /\ nextSeq'[k] = nextSeq[k]
      BY <1>0, <1>2, <1>4, <2>1 DEF Tracked, TypeOK
    <3> QED BY <1>0, <1>2, <2>1, <3>1 DEF NamesInv, Tracked
  <2> QED BY <1>0, <1>2, <1>3, <2>1 DEF NamesInv
<1>7. TasksInv'
  <2>1. ASSUME NEW r \in commits'
        PROVE  /\ r.node = Home(r.dot) /\ Tracked(r.node, r.dot)'
               /\ r.task \in Change => dotOf'[r.task] # NoDot
    <3>1. r \in commits /\ r.node # n /\ r.node \in Node /\ r.dot \in Dot
      BY <1>0, <1>2 DEF TypeOK, Runner
    <3> QED BY <1>0, <1>2, <1>4, <3>1 DEF TasksInv, Tracked
  <2>2. \A k \in Node, e \in Dot : pending'[k][e] # NoChange => pending'[k][e] = cmd'[k][e]
    BY <1>0, <1>4 DEF TasksInv
  <2> QED BY <2>1, <2>2 DEF TasksInv
<1>8. DiskKept'
  BY <1>0, <1>2 DEF DiskKept, OkIsOnDisk
<1>9. restarts' \in Nat
  BY DEF DiskInv, Restart
<1> QED BY <1>5, <1>6, <1>7, <1>8, <1>9 DEF DiskInv

-----------------------------------------------------------------------------
(* The steps of Tempo.                                                      *)

\* A proposal takes a dot its node does not track.
LEMMA ProposeNames ==
  ASSUME DiskInv, NEW n \in Node, NEW c \in Change, Propose(n, c), UNCHANGED restarts
  PROVE  DiskInv'
<1> DEFINE d == <<n, nextSeq[n]>>
<1>0. TypeOK /\ NamesInv /\ TasksInv /\ DiskKept
  BY DEF DiskInv
<1>1. d \in Dot /\ Home(d) = n /\ d[2] = nextSeq[n] /\ nextSeq[n] \in 1..MaxSeq
  BY <1>0, ConstantsOK, DotFacts DEF Propose, TypeOK
<1>2. PICK now \in PhysicalTime, cut \in BOOLEAN :
        LET t == Ticked(clock[n], now)
            msg == [type |-> "MCollect", from |-> n, to |-> n, dot |-> d,
                    change |-> c, clock |-> t]
        IN  /\ clock' = [clock EXCEPT ![n] = t]
            /\ AddCommand(n, d, c, t)
            /\ acks' = [acks EXCEPT ![n][d] = @ \cup {n}]
            /\ stage' = [stage EXCEPT ![c] = IF cut THEN "gone" ELSE "sent"]
            /\ \E out \in Arriving(Copies(n, msg), cut) : net' = net \cup out
  BY DEF Propose
<1> DEFINE t == Ticked(clock[n], now)
           msg == [type |-> "MCollect", from |-> n, to |-> n, dot |-> d,
                   change |-> c, clock |-> t]
<1>3. t \in Nat
  BY <1>0, NowIsNumber, ClockFacts DEF TypeOK
<1>4. PICK out \in Arriving(Copies(n, msg), cut) : net' = net \cup out
  BY <1>2
<1>5. /\ clock' = [clock EXCEPT ![n] = t]
      /\ AddCommand(n, d, c, t)
      /\ acks' = [acks EXCEPT ![n][d] = @ \cup {n}]
      /\ stage' = [stage EXCEPT ![c] = IF cut THEN "gone" ELSE "sent"]
  BY <1>2
<1>6. \A m \in out : /\ m \in Message /\ m.type = "MCollect" /\ m.from = n /\ m.dot = d
                      /\ m.change = c /\ m.to # n
  <2>1. \A m \in out : /\ m \in Message /\ m.type = "MCollect" /\ m.from = n /\ m.dot = d
                        /\ m.change = c
    <3> HIDE DEF d, t
    <3> QED BY <1>0, <1>1, <1>3, CommandCopies
  <2>2. \A m \in out : m.to # n
    <3> SUFFICES ASSUME NEW m \in out PROVE m.to # n
      OBVIOUS
    <3>1. PICK k \in members[n] \ {n} : m = [msg EXCEPT !.to = k]
      <4>1. m \in Copies(n, msg)
        BY ArrivingAre
      <4> QED BY <4>1, Zenon DEF Copies
    <3> QED BY <3>1
  <2> QED BY <2>1, <2>2
<1>7. /\ nextSeq' = [nextSeq EXCEPT ![n] = @ + 1]
      /\ dotOf' = [dotOf EXCEPT ![c] = d]
      /\ pending' = [pending EXCEPT ![n][d] = c]
      /\ UNCHANGED <<members, done, committedDots, committedCount, lastApplied,
                    commits, reply, applied, memberOps>>
      /\ stage[c] = "new"
  BY DEF Propose, BumpSequence
<1> HIDE DEF d, t, msg
<1>8. ~Tracked(n, d) /\ dotOf[c] = NoDot /\ reply[c] = "none"
  BY <1>0, <1>1, <1>7 DEF NamesInv, TypeOK
<1>9. /\ cmd' \in [Node -> [Dot -> Change \cup {NoChange}]]
      /\ \A k \in Node, e \in Dot : cmd'[k][e] = IF k = n /\ e = d THEN c ELSE cmd[k][e]
  <2>1. cmd' = [cmd EXCEPT ![n][d] = c]
    BY <1>5, <1>8 DEF AddCommand
  <2>2. cmd \in [Node -> [Dot -> Change \cup {NoChange}]] /\ c \in Change \cup {NoChange}
    BY <1>0 DEF TypeOK
  <2> QED BY <1>1, <2>1, <2>2, CellChange
<1>10. cmdClock' \in [Node -> [Dot -> Nat]]
  <2>1. cmdClock' = [cmdClock EXCEPT ![n][d] = t]
    BY <1>5, <1>8 DEF AddCommand
  <2> QED BY <1>0, <1>1, <1>3, <2>1, CellChange DEF TypeOK
<1>11. acks' \in [Node -> [Dot -> SUBSET Node]]
  <2>1. acks \in [Node -> [Dot -> SUBSET Node]] /\ (acks[n][d] \cup {n}) \in SUBSET Node
    BY <1>0, <1>1 DEF TypeOK
  <2>2. acks' = [acks EXCEPT ![n][d] = acks[n][d] \cup {n}]
    BY <1>5, <2>1, <1>1
  <2> QED BY <1>1, <2>1, <2>2, CellChange
<1>12. /\ pending' \in [Node -> [Dot -> Change \cup {NoChange}]]
       /\ \A k \in Node, e \in Dot :
            pending'[k][e] = IF k = n /\ e = d THEN c ELSE pending[k][e]
  <2>1. pending \in [Node -> [Dot -> Change \cup {NoChange}]] /\ c \in Change \cup {NoChange}
    BY <1>0 DEF TypeOK
  <2> QED BY <1>1, <1>7, <2>1, CellChange
<1>13. /\ dotOf' \in [Change -> Dot \cup {NoDot}]
       /\ \A x \in Change : dotOf'[x] = IF x = c THEN d ELSE dotOf[x]
  BY <1>0, <1>1, <1>7 DEF TypeOK
<1>14. /\ stage' \in [Change -> {"new", "sent", "committing", "waiting", "gone"}]
       /\ \A x \in Change : stage'[x] = "new" <=> x # c /\ stage[x] = "new"
  BY <1>0, <1>5 DEF TypeOK
<1>15. /\ nextSeq' \in [Node -> 1..(MaxSeq + 1)]
       /\ \A k \in Node : nextSeq'[k] = IF k = n THEN nextSeq[k] + 1 ELSE nextSeq[k]
  BY <1>0, <1>1, <1>7, ConstantsOK DEF TypeOK
<1>16. TypeOK'
  <2>1. clock' \in [Node -> Nat]
    BY <1>0, <1>3, <1>5 DEF TypeOK
  <2>2. net' \subseteq Message
    BY <1>0, <1>4, <1>6 DEF TypeOK
  <2> QED BY <1>0, <1>7, <1>9, <1>10, <1>11, <1>12, <1>13, <1>14, <1>15, <2>1, <2>2
          DEF TypeOK
<1>17. NamesInv'
  <2>1. \A x \in Change : /\ stage'[x] = "new" <=> dotOf'[x] = NoDot
                          /\ reply'[x] # "none" => dotOf'[x] # NoDot
    BY <1>0, <1>1, <1>7, <1>8, <1>13, <1>14, DotFacts DEF NamesInv
  <2>2. ASSUME NEW k \in Node, NEW e \in Dot, Tracked(k, e)'
        PROVE  dotOf'[cmd'[k][e]] = e /\ (Home(e) = k => e[2] < nextSeq'[k])
    <3>1. CASE k = n /\ e = d
      <4>1. cmd'[k][e] = c /\ dotOf'[c] = d
        BY <1>1, <1>9, <1>13, <3>1
      <4>2. nextSeq'[n] = nextSeq[n] + 1 /\ nextSeq[n] \in Int
        BY <1>1, <1>15
      <4> QED BY <1>1, <3>1, <4>1, <4>2
    <3>2. CASE ~(k = n /\ e = d)
      <4>1. Tracked(k, e) /\ cmd'[k][e] = cmd[k][e]
        BY <1>9, <2>2, <3>2 DEF Tracked
      <4>2. cmd[k][e] \in Change /\ dotOf[cmd[k][e]] = e /\ cmd[k][e] # c
        BY <1>0, <1>8, <4>1, DotFacts DEF NamesInv, Tracked, TypeOK
      <4>3. Home(e) = k => e[2] < nextSeq[k]
        BY <1>0, <4>1 DEF NamesInv
      <4>4. nextSeq[k] \in Int /\ nextSeq'[k] \in Int /\ e[2] \in Int
            /\ nextSeq'[k] >= nextSeq[k]
        <5>1. e[2] \in 1..MaxSeq /\ nextSeq[k] \in 1..(MaxSeq + 1) /\ MaxSeq \in Nat
          BY <1>0, ConstantsOK, DotFacts DEF TypeOK
        <5> QED BY <1>15, <5>1
      <4>5. Home(e) = k => e[2] < nextSeq'[k]
        BY <4>3, <4>4
      <4> QED BY <1>13, <4>1, <4>2, <4>5
    <3> QED BY <3>1, <3>2
  <2>3. ASSUME NEW m \in net'
        PROVE  /\ m.to # m.from
               /\ m.type \in {"MCollect", "MCommit"} => dotOf'[m.change] = m.dot
               /\ m.type = "MCollect" => m.from = Home(m.dot)
               /\ m.type = "MCollectAck" => m.to = Home(m.dot)
    <3>1. CASE m \in out
      BY <1>1, <1>6, <1>13, <3>1
    <3>2. CASE m \in net
      <4>1. ASSUME m.type \in {"MCollect", "MCommit"} PROVE dotOf'[m.change] = m.dot
        <5>1. m.change \in Change /\ m.dot \in Dot /\ dotOf[m.change] = m.dot
          BY <1>0, <3>2, <4>1, MessageKinds DEF NamesInv, TypeOK
        <5> QED BY <1>8, <1>13, <5>1, DotFacts
      <4> QED BY <1>0, <3>2, <4>1 DEF NamesInv
    <3> QED BY <1>4, <3>1, <3>2
  <2> QED BY <2>1, <2>2, <2>3 DEF NamesInv
<1>18. TasksInv'
  <2>1. ASSUME NEW r \in commits'
        PROVE  /\ r.node = Home(r.dot) /\ Tracked(r.node, r.dot)'
               /\ r.task \in Change => dotOf'[r.task] # NoDot
    <3>1. r \in commits /\ r.node \in Node /\ r.dot \in Dot
      BY <1>0, <1>7 DEF TypeOK, Runner
    <3>2. c # NoChange
      BY ConstantsOK
    <3>3. Tracked(r.node, r.dot)'
      BY <1>0, <1>9, <3>1, <3>2 DEF TasksInv, Tracked
    <3>4. r.node = Home(r.dot) /\ (r.task \in Change => dotOf[r.task] # NoDot)
      BY <1>0, <3>1 DEF TasksInv
    <3> QED BY <1>1, <1>13, <3>3, <3>4, DotFacts
  <2>2. \A k \in Node, e \in Dot : pending'[k][e] # NoChange => pending'[k][e] = cmd'[k][e]
    BY <1>0, <1>9, <1>12 DEF TasksInv
  <2> QED BY <2>1, <2>2 DEF TasksInv
<1>19. DiskKept'
  BY <1>0, <1>7, <1>8, <1>13 DEF DiskKept, OkIsOnDisk
<1> QED BY <1>16, <1>17, <1>18, <1>19 DEF DiskInv

\* The call's own check may start a commit of what it tracks.
LEMMA CheckNames ==
  ASSUME DiskInv, NEW c \in Change, ProposeCheck(c), UNCHANGED restarts
  PROVE  DiskInv'
<1> DEFINE d == dotOf[c]
           n == Home(d)
           r == [task |-> c, node |-> n, dot |-> d, at |-> "decided"]
<1>0. TypeOK /\ NamesInv /\ TasksInv /\ DiskKept
  BY DEF DiskInv
<1>1. d \in Dot /\ n \in Node /\ d # NoDot
  BY <1>0, DotFacts DEF ProposeCheck, NamesInv, TypeOK
<1>2. UNCHANGED <<members, clock, stateVars, nextSeq, pending, dotOf, reply, applied, net,
                  memberOps>>
  BY DEF ProposeCheck
<1>3. /\ stage' \in [Change -> {"new", "sent", "committing", "waiting", "gone"}]
      /\ \A x \in Change : stage'[x] = "new" <=> stage[x] = "new"
  BY <1>0 DEF ProposeCheck, TypeOK
<1>4. \/ commits' = commits
      \/ Tracked(n, d) /\ commits' = commits \cup {r}
  BY DEF ProposeCheck, Uncommitted
<1>5. r \in Runner
  BY <1>1 DEF Runner
<1>6. TypeOK'
  BY <1>0, <1>2, <1>3, <1>4, <1>5 DEF TypeOK, stateVars
<1>7. NamesInv'
  BY <1>0, <1>2, <1>3, NamesFrame DEF stateVars
<1>8. TasksInv' /\ DiskKept'
  <2>1. r.node = Home(r.dot) /\ r.task \in Change /\ dotOf[r.task] # NoDot
        /\ r.node = n /\ r.dot = d
    BY <1>1
  <2> HIDE DEF r, n, d
  <2> QED BY <1>0, <1>2, <1>4, <2>1 DEF TasksInv, DiskKept, OkIsOnDisk, Tracked, stateVars
<1> QED BY <1>6, <1>7, <1>8 DEF DiskInv

\* A timeout and a client's hanging up end a call without an "ok".
LEMMA EndNames ==
  ASSUME DiskInv, NEW c \in Change, ProposeTimeout(c) \/ ClientGone(c), UNCHANGED restarts
  PROVE  DiskInv'
<1> DEFINE d == dotOf[c]
<1>0. TypeOK /\ NamesInv /\ TasksInv /\ DiskKept
  BY DEF DiskInv
<1>1. /\ UNCHANGED <<members, clock, stateVars, nextSeq, commits, dotOf, applied, net,
                     memberOps>>
      /\ stage' \in [Change -> {"new", "sent", "committing", "waiting", "gone"}]
      /\ \A x \in Change : stage'[x] = "new" <=> stage[x] = "new"
  BY <1>0 DEF ProposeTimeout, ClientGone, TypeOK
<1>2. d \in Dot /\ Home(d) \in Node
  BY <1>0, DotFacts DEF ProposeTimeout, ClientGone, NamesInv, TypeOK
<1>3. /\ reply' \in [Change -> {"none", "ok", "error", "timeout"}]
      /\ \A x \in Change : reply'[x] # "none" => reply[x] # "none" \/ x = c
      /\ \A x \in Change : reply'[x] = "ok" => reply[x] = "ok"
  BY <1>0 DEF ProposeTimeout, ClientGone, TypeOK
<1>4. /\ pending' \in [Node -> [Dot -> Change \cup {NoChange}]]
      /\ \A k \in Node, e \in Dot : pending'[k][e] \in {pending[k][e], NoChange}
  <2>1. pending \in [Node -> [Dot -> Change \cup {NoChange}]]
        /\ NoChange \in Change \cup {NoChange}
    BY <1>0 DEF TypeOK
  <2>2. CASE ProposeTimeout(c)
    <3>1. pending' = [pending EXCEPT ![Home(d)][d] = NoChange]
      BY <2>2 DEF ProposeTimeout
    <3> HIDE DEF d
    <3> QED BY <1>2, <2>1, <3>1, CellChange
  <2>3. CASE ClientGone(c)
    BY <2>1, <2>3 DEF ClientGone
  <2> QED BY <2>2, <2>3
<1>5. TypeOK'
  BY <1>0, <1>1, <1>3, <1>4 DEF TypeOK, stateVars
<1>6. NamesInv'
  BY <1>0, <1>1, <1>2, <1>3, DotFacts DEF NamesInv, Tracked, stateVars
<1>7. TasksInv' /\ DiskKept'
  BY <1>0, <1>1, <1>3, <1>4 DEF TasksInv, DiskKept, OkIsOnDisk, Tracked, stateVars
<1> QED BY <1>5, <1>6, <1>7 DEF DiskInv

\* Clock bumps and member lists name nothing.
LEMMA BumpNames ==
  ASSUME DiskInv, NEW n \in Node, ClockBump(n), UNCHANGED restarts
  PROVE  DiskInv'
<1>0. TypeOK /\ NamesInv /\ TasksInv /\ DiskKept
  BY DEF DiskInv
<1>1. PICK now \in PhysicalTime :
        LET t == Ticked(clock[n], now)
            msg == [type |-> "ClockBump", from |-> n, to |-> n, clock |-> t]
        IN  /\ clock' = [clock EXCEPT ![n] = t]
            /\ \E out \in Arriving(Copies(n, msg), FALSE) : net' = net \cup out
  BY DEF ClockBump
<1> DEFINE t == Ticked(clock[n], now)
           msg == [type |-> "ClockBump", from |-> n, to |-> n, clock |-> t]
<1>2. t \in Nat
  BY <1>0, NowIsNumber, ClockFacts DEF TypeOK
<1>3. clock' = [clock EXCEPT ![n] = t]
  BY <1>1
<1>4. PICK out \in Arriving(Copies(n, msg), FALSE) : net' = net \cup out
  BY <1>1
<1>5. \A m \in out : m \in Message /\ m.type = "ClockBump" /\ m.to # m.from
  <2> SUFFICES ASSUME NEW m \in out
               PROVE  m \in Message /\ m.type = "ClockBump" /\ m.to # m.from
    OBVIOUS
  <2> HIDE DEF t
  <2>1. PICK k \in members[n] \ {n} : m = [msg EXCEPT !.to = k]
    <3>1. m \in Copies(n, msg)
      BY ArrivingAre
    <3> QED BY <3>1, Zenon DEF Copies
  <2>2. k \in MemberId
    BY <1>0 DEF TypeOK
  <2>3. m = [type |-> "ClockBump", from |-> n, to |-> k, clock |-> t]
    BY <2>1
  <2> QED BY <1>2, <2>1, <2>2, <2>3 DEF Message
<1> HIDE DEF t, msg
<1>6. UNCHANGED <<members, stateVars, callVars, applied, memberOps>>
  BY DEF ClockBump
<1>7. TypeOK'
  BY <1>0, <1>2, <1>3, <1>4, <1>5, <1>6 DEF TypeOK, stateVars, callVars
<1>8. NamesInv'
  BY <1>0, <1>4, <1>5, <1>6, NamesFrame DEF stateVars, callVars
<1>9. TasksInv' /\ DiskKept'
  BY <1>0, <1>6, TasksFrame DEF stateVars, callVars
<1> QED BY <1>7, <1>8, <1>9 DEF DiskInv

LEMMA MemberNames ==
  ASSUME DiskInv, NEW n \in Node, NEW m \in MemberId, AddNode(n, m) \/ RemoveNode(n, m),
         UNCHANGED restarts
  PROVE  DiskInv'
<1>0. TypeOK /\ NamesInv /\ TasksInv /\ DiskKept
  BY DEF DiskInv
<1>1. UNCHANGED <<clock, stateVars, callVars, applied, net>>
  BY DEF AddNode, RemoveNode
<1>2. TypeOK'
  <2>1. members' \in [Node -> SUBSET MemberId]
    <3>1. members \in [Node -> SUBSET MemberId] /\ m \in MemberId
      BY <1>0 DEF TypeOK
    <3>2. \/ members' = [members EXCEPT ![n] = @ \cup {m}]
          \/ members' = [members EXCEPT ![n] = @ \ {m}]
      BY DEF AddNode, RemoveNode
    <3> QED BY <3>1, <3>2
  <2>2. memberOps' \in 0..MaxMemberOps
    BY <1>0, ConstantsOK DEF AddNode, RemoveNode, TypeOK
  <2> QED BY <1>0, <1>1, <2>1, <2>2 DEF TypeOK, stateVars, callVars
<1>3. NamesInv'
  BY <1>0, <1>1, NamesFrame DEF stateVars, callVars
<1>4. TasksInv' /\ DiskKept'
  BY <1>0, <1>1, TasksFrame DEF stateVars, callVars
<1> QED BY <1>2, <1>3, <1>4 DEF DiskInv

\* What the invariant says of a running commit.
LEMMA TaskFacts ==
  ASSUME DiskInv, NEW r \in commits
  PROVE  /\ r.node \in Node /\ r.dot \in Dot /\ r.node = Home(r.dot) /\ r \in Runner
         /\ cmd[r.node][r.dot] \in Change /\ dotOf[cmd[r.node][r.dot]] = r.dot
         /\ r.task \in Change => dotOf[r.task] # NoDot
<1>1. r \in Runner
  BY DEF DiskInv, TypeOK
<1>2. r.node \in Node /\ r.dot \in Dot
  BY <1>1 DEF Runner
<1> QED BY <1>1, <1>2 DEF DiskInv, NamesInv, TasksInv, Tracked, TypeOK

\* A task that ends its commit goes back to wait for its response, or is dropped.
LEMMA TaskWaits ==
  ASSUME DiskInv, NEW r \in commits, NEW s \in {"waiting", "gone"},
         stage' = IF r.task \in Change THEN [stage EXCEPT ![r.task] = s] ELSE stage
  PROVE  /\ stage' \in [Change -> {"new", "sent", "committing", "waiting", "gone"}]
         /\ \A x \in Change : stage'[x] = "new" <=> stage[x] = "new"
<1>1. stage' \in [Change -> {"new", "sent", "committing", "waiting", "gone"}]
  BY DEF DiskInv, TypeOK
<1>2. r.task \in Change => stage[r.task] # "new"
  BY TaskFacts DEF DiskInv, NamesInv
<1> QED BY <1>1, <1>2 DEF DiskInv, TypeOK

\* What a node marks keeps its type.
LEMMA MarkTypes ==
  ASSUME TypeOK, NEW n \in Node, NEW d \in Dot, MarkCommitted(n, d)
  PROVE  /\ committedDots' \in [Node -> SUBSET Dot]
         /\ committedCount' \in [Node -> Nat]
         /\ lastApplied' \in [Node -> 0..MaxSeq]
         /\ done' \in [Node -> [Dot -> BOOLEAN]]
<1>1. CASE Tracked(n, d) /\ done[n][d]
  BY <1>1 DEF MarkCommitted, TypeOK
<1>2. CASE ~(Tracked(n, d) /\ done[n][d])
  <2>1. /\ committedDots' = [committedDots EXCEPT ![n] = @ \cup {d}]
        /\ committedCount' = [committedCount EXCEPT ![n] = @ + 1]
        /\ done' = IF Tracked(n, d) THEN [done EXCEPT ![n][d] = TRUE] ELSE done
        /\ lastApplied' = IF Tracked(n, d) /\ Home(d) = n
                          THEN [lastApplied EXCEPT ![n] = Larger(@, d[2])] ELSE lastApplied
    BY <1>2 DEF MarkCommitted
  <2>2. committedDots' \in [Node -> SUBSET Dot] /\ committedCount' \in [Node -> Nat]
    BY <2>1 DEF TypeOK
  <2>3. done' \in [Node -> [Dot -> BOOLEAN]]
    <3>1. done \in [Node -> [Dot -> BOOLEAN]]
      BY DEF TypeOK
    <3> QED BY <2>1, <3>1, FlagSet
  <2>4. lastApplied' \in [Node -> 0..MaxSeq]
    <3>1. Larger(lastApplied[n], d[2]) \in 0..MaxSeq
      BY DotFacts, ConstantsOK DEF TypeOK, Larger
    <3> QED BY <2>1, <3>1 DEF TypeOK
  <2> QED BY <2>2, <2>3, <2>4
<1> QED BY <1>1, <1>2

\* Marking a command names nothing new.
LEMMA MarkNames ==
  ASSUME DiskInv, NEW r \in commits, CommitMark(r), UNCHANGED restarts
  PROVE  DiskInv'
<1> DEFINE s == [r EXCEPT !.at = "marked"]
<1>0. TypeOK /\ NamesInv /\ TasksInv /\ DiskKept
  BY DEF DiskInv
<1>1. r.node \in Node /\ r.dot \in Dot /\ r \in Runner
  BY TaskFacts
<1>2. UNCHANGED <<members, clock, cmd, cmdClock, acks, nextSeq, pending, dotOf, reply,
                  applied, net, memberOps>>
  BY DEF CommitMark
<1>3. \/ /\ MarkCommitted(r.node, r.dot)
         /\ commits' = (commits \ {r}) \cup {s}
         /\ UNCHANGED stage
      \/ /\ commits' = commits \ {r}
         /\ stage' = IF r.task \in Change THEN [stage EXCEPT ![r.task] = "waiting"] ELSE stage
         /\ UNCHANGED <<done, committedDots, committedCount, lastApplied>>
  BY DEF CommitMark
<1>4. /\ committedDots' \in [Node -> SUBSET Dot]
      /\ committedCount' \in [Node -> Nat]
      /\ lastApplied' \in [Node -> 0..MaxSeq]
      /\ done' \in [Node -> [Dot -> BOOLEAN]]
  BY <1>0, <1>1, <1>3, MarkTypes DEF TypeOK
<1>5. /\ stage' \in [Change -> {"new", "sent", "committing", "waiting", "gone"}]
      /\ \A x \in Change : stage'[x] = "new" <=> stage[x] = "new"
  BY <1>0, <1>3, TaskWaits DEF TypeOK
<1>6. s \in Runner /\ s.node = r.node /\ s.dot = r.dot /\ s.task = r.task
  BY <1>1 DEF Runner
<1> HIDE DEF s
<1>7. TypeOK'
  <2>1. commits' \subseteq Runner
    BY <1>0, <1>3, <1>6 DEF TypeOK
  <2> QED BY <1>0, <1>2, <1>4, <1>5, <2>1 DEF TypeOK
<1>8. NamesInv'
  BY <1>0, <1>2, <1>5, NamesFrame
<1>9. TasksInv'
  <2>1. \A q \in commits' : \E p \in commits : p.node = q.node /\ p.dot = q.dot /\ p.task = q.task
    BY <1>3, <1>6
  <2> QED BY <1>0, <1>2, <2>1 DEF TasksInv, Tracked
<1>10. DiskKept'
  BY <1>0, <1>2 DEF DiskKept, OkIsOnDisk
<1> QED BY <1>7, <1>8, <1>9, <1>10 DEF DiskInv

\* What a node stores stays stored; one more change may be.
LEMMA StoreGrows ==
  ASSUME TypeOK, NEW n \in Node, NEW c \in Change, NEW ok \in BOOLEAN, ApplyChange(n, c, ok)
  PROVE  /\ applied' \in [Node -> Seq(Change)]
         /\ \A k \in Node : Contents(applied[k]) \subseteq Contents(applied'[k])
         /\ ok => c \in Contents(applied'[n])
<1>1. CASE ~ok
  BY <1>1 DEF ApplyChange, TypeOK
<1>2. CASE ok
  <2>1. applied' = [applied EXCEPT ![n] = Append(applied[n], c)]
    BY <1>2 DEF ApplyChange
  <2>2. applied \in [Node -> Seq(Change)] /\ applied[n] \in Seq(Change)
    BY DEF TypeOK
  <2>3. Contents(Append(applied[n], c)) = Contents(applied[n]) \cup {c}
    BY <2>2, AppendContents
  <2>4. Append(applied[n], c) \in Seq(Change)
    BY <2>2
  <2> QED BY <2>1, <2>2, <2>3, <2>4
<1> QED BY <1>1, <1>2

\* The coordinator answers the call whose change it stored.
LEMMA ApplyNames ==
  ASSUME DiskInv, NEW r \in commits, CommitApply(r), UNCHANGED restarts
  PROVE  DiskInv'
<1> DEFINE n == r.node
           d == r.dot
           c == cmd[n][d]
           w == pending[n][d]
           msg == [type |-> "MCommit", from |-> n, to |-> n, dot |-> d, change |-> c,
                   clock |-> cmdClock[n][d]]
<1>0. TypeOK /\ NamesInv /\ TasksInv /\ DiskKept
  BY DEF DiskInv
<1>1. n \in Node /\ d \in Dot /\ n = Home(d) /\ c \in Change /\ dotOf[c] = d
  BY TaskFacts
<1>2. /\ pending' = [pending EXCEPT ![n][d] = NoChange]
      /\ commits' = commits \ {r}
      /\ UNCHANGED <<members, clock, stateVars, nextSeq, dotOf, memberOps>>
  BY DEF CommitApply
<1>3. PICK ok \in Outcomes(c), cut \in BOOLEAN :
           /\ ApplyChange(n, c, ok)
           /\ reply' = IF w # NoChange /\ stage[w] # "gone" /\ ~cut
                       THEN [reply EXCEPT ![w] = ReplyTo(ok)] ELSE reply
           /\ stage' = IF r.task \in Change
                       THEN [stage EXCEPT ![r.task] = IF cut THEN "gone" ELSE "waiting"]
                       ELSE stage
           /\ \E out \in Arriving(Copies(n, msg), cut) : net' = net \cup out
  BY DEF CommitApply
<1>4. PICK out \in Arriving(Copies(n, msg), cut) : net' = net \cup out
  BY <1>3
<1>5. cmdClock[n][d] \in Nat /\ (w # NoChange => w = c)
  BY <1>0, <1>1 DEF TypeOK, TasksInv
<1>6. \A m \in out : /\ m \in Message /\ m.type = "MCommit" /\ m.from = n /\ m.dot = d
                     /\ m.change = c /\ m.to # n
  <2>1. \A m \in out : /\ m \in Message /\ m.type = "MCommit" /\ m.from = n /\ m.dot = d
                       /\ m.change = c
    <3> DEFINE t == cmdClock[n][d]
    <3> HIDE DEF n, d, c, t
    <3> QED BY <1>0, <1>1, <1>5, CommandCopies DEF t
  <2>2. \A m \in out : m.to # n
    <3> SUFFICES ASSUME NEW m \in out PROVE m.to # n
      OBVIOUS
    <3>1. PICK k \in members[n] \ {n} : m = [msg EXCEPT !.to = k]
      <4>1. m \in Copies(n, msg)
        BY ArrivingAre
      <4> QED BY <4>1, Zenon DEF Copies
    <3> QED BY <3>1
  <2> QED BY <2>1, <2>2
<1> HIDE DEF n, d, c, w, msg
<1>7. ok \in BOOLEAN
  BY <1>1, OutcomesAre
<1>8. /\ applied' \in [Node -> Seq(Change)]
      /\ \A k \in Node : Contents(applied[k]) \subseteq Contents(applied'[k])
      /\ ok => c \in Contents(applied'[n])
  BY <1>0, <1>1, <1>3, <1>7, StoreGrows
<1>9. /\ reply' \in [Change -> {"none", "ok", "error", "timeout"}]
      /\ \A x \in Change : x # c => reply'[x] = reply[x]
      /\ reply'[c] = "ok" => ok \/ reply[c] = "ok"
  BY <1>0, <1>1, <1>3, <1>5, <1>7 DEF TypeOK, ReplyTo
<1>10. /\ stage' \in [Change -> {"new", "sent", "committing", "waiting", "gone"}]
       /\ \A x \in Change : stage'[x] = "new" <=> stage[x] = "new"
  BY <1>3, TaskWaits
<1>11. /\ pending' \in [Node -> [Dot -> Change \cup {NoChange}]]
       /\ \A k \in Node, e \in Dot :
            pending'[k][e] = IF k = n /\ e = d THEN NoChange ELSE pending[k][e]
  <2>1. pending \in [Node -> [Dot -> Change \cup {NoChange}]]
        /\ NoChange \in Change \cup {NoChange}
    BY <1>0 DEF TypeOK
  <2> QED BY <1>1, <1>2, <2>1, CellChange
<1>12. TypeOK'
  <2>1. net' \subseteq Message
    BY <1>0, <1>4, <1>6 DEF TypeOK
  <2> QED BY <1>0, <1>2, <1>8, <1>9, <1>10, <1>11, <2>1 DEF TypeOK, stateVars
<1>13. NamesInv'
  <2>1. \A x \in Change : reply'[x] # "none" => dotOf[x] # NoDot
    BY <1>0, <1>1, <1>9, DotFacts DEF NamesInv
  <2>2. \A m \in net' : /\ m.to # m.from
                        /\ m.type \in {"MCollect", "MCommit"} => dotOf[m.change] = m.dot
                        /\ m.type = "MCollect" => m.from = Home(m.dot)
                        /\ m.type = "MCollectAck" => m.to = Home(m.dot)
    BY <1>0, <1>1, <1>4, <1>6 DEF NamesInv
  <2> QED BY <1>0, <1>2, <1>10, <2>1, <2>2 DEF NamesInv, Tracked, stateVars
<1>14. TasksInv'
  BY <1>0, <1>2, <1>11 DEF TasksInv, Tracked, stateVars
<1>15. DiskKept'
  <2> SUFFICES ASSUME Persistent, NEW x \in Change, reply'[x] = "ok"
               PROVE  x \in Contents(applied'[Home(dotOf[x])])
    BY <1>2 DEF DiskKept, OkIsOnDisk
  <2>1. CASE x = c /\ ok
    BY <1>1, <1>8, <2>1
  <2>2. CASE reply[x] = "ok"
    <3>1. x \in Contents(applied[Home(dotOf[x])]) /\ Home(dotOf[x]) \in Node
      BY <1>0, <2>2, DotFacts DEF DiskKept, OkIsOnDisk, NamesInv, TypeOK
    <3> QED BY <1>8, <3>1
  <2> QED BY <1>9, <2>1, <2>2
<1> QED BY <1>12, <1>13, <1>14, <1>15 DEF DiskInv

-----------------------------------------------------------------------------
(* The message handler.                                                     *)

\* A message was sent by another node than takes it.
LEMMA SenderIsOther ==
  ASSUME Alias = {}, DiskInv, NEW n \in Node, NEW m \in net, Receives(n, m)
  PROVE  m.to = n /\ m.from # n
<1>1. m \in Message
  BY DEF DiskInv, TypeOK
<1>2. AddrOf[m.to] = n /\ m.to # m.from
  BY DEF Receives, DiskInv, NamesInv
<1> QED BY <1>1, <1>2, MessageKinds, IdsAreNodes

\* A receiver tracks a change of another coordinator.
LEMMA CollectNames ==
  ASSUME Alias = {}, DiskInv, NEW n \in Node, NEW m \in net, HandleMCollect(n, m),
         UNCHANGED restarts
  PROVE  DiskInv'
<1> DEFINE d == m.dot
           c == m.change
<1>0. TypeOK /\ NamesInv /\ TasksInv /\ DiskKept
  BY DEF DiskInv
<1>1. m.type = "MCollect" /\ m \in Message
  BY <1>0 DEF HandleMCollect, TypeOK
<1>2. /\ d \in Dot /\ c \in Change /\ m.from \in Node /\ m.to \in MemberId /\ m.clock \in Nat
      /\ dotOf[c] = d /\ m.from = Home(d) /\ n # Home(d)
  BY <1>0, <1>1, MessageKinds, SenderIsOther DEF HandleMCollect, NamesInv
<1>3. /\ AddCommand(n, d, c, m.clock)
      /\ UNCHANGED <<members, acks, done, committedDots, committedCount, lastApplied, callVars,
                     applied, memberOps>>
  BY DEF HandleMCollect
<1>4. PICK now \in PhysicalTime, later \in PhysicalTime :
        LET t == Ticked(Updated(clock[n], m.clock, now), later)
            ack == [type |-> "MCollectAck", from |-> n, to |-> m.from, dot |-> m.dot,
                    clock |-> t]
        IN  /\ clock' = [clock EXCEPT ![n] = t]
            /\ \E out \in Arriving(Answer(n, ack), FALSE) : net' = (net \ {m}) \cup out
  BY DEF HandleMCollect
<1> DEFINE t == Ticked(Updated(clock[n], m.clock, now), later)
           ack == [type |-> "MCollectAck", from |-> n, to |-> m.from, dot |-> m.dot,
                   clock |-> t]
<1>5. t \in Nat
  <2> DEFINE u == Updated(clock[n], m.clock, now)
  <2>1. u \in Nat
    BY <1>0, <1>2, NowIsNumber, ClockFacts DEF TypeOK
  <2> HIDE DEF u
  <2>2. Ticked(u, later) \in Nat
    BY <2>1, NowIsNumber, ClockFacts
  <2> QED BY <2>2 DEF u
<1>6. clock' = [clock EXCEPT ![n] = t]
  BY <1>4
<1>7. PICK out \in Arriving(Answer(n, ack), FALSE) : net' = (net \ {m}) \cup out
  BY <1>4
<1>8. \A x \in out : x = ack
  BY ArrivingAre DEF Answer
<1>9. ack \in Message /\ ack.type = "MCollectAck" /\ ack.from = n /\ ack.to = Home(d)
      /\ ack.dot = d
  <2> HIDE DEF t
  <2> QED BY <1>2, <1>5 DEF Message, MemberId
<1> HIDE DEF d, c, t, ack
<1>10. /\ cmd' \in [Node -> [Dot -> Change \cup {NoChange}]]
       /\ cmdClock' \in [Node -> [Dot -> Nat]]
       /\ \A k \in Node, e \in Dot :
            IF k = n /\ e = d /\ ~Tracked(n, d)
            THEN cmd'[k][e] = c ELSE cmd'[k][e] = cmd[k][e]
  <2>0. cmd \in [Node -> [Dot -> Change \cup {NoChange}]] /\ cmdClock \in [Node -> [Dot -> Nat]]
    BY <1>0 DEF TypeOK
  <2>1. CASE Tracked(n, d)
    <3>1. cmd' = cmd /\ cmdClock' = cmdClock
      BY <1>3, <2>1 DEF AddCommand
    <3> QED BY <2>0, <2>1, <3>1
  <2>2. CASE ~Tracked(n, d)
    <3>1. cmd' = [cmd EXCEPT ![n][d] = c] /\ cmdClock' = [cmdClock EXCEPT ![n][d] = m.clock]
      BY <1>3, <2>2 DEF AddCommand
    <3>2. /\ cmd' \in [Node -> [Dot -> Change \cup {NoChange}]]
          /\ \A k \in Node, e \in Dot :
               cmd'[k][e] = IF k = n /\ e = d THEN c ELSE cmd[k][e]
      BY <1>2, <2>0, <3>1, CellChange
    <3>3. cmdClock' \in [Node -> [Dot -> Nat]]
      BY <1>2, <2>0, <3>1, CellChange
    <3> QED BY <2>2, <3>2, <3>3
  <2> QED BY <2>1, <2>2
<1>11. TypeOK'
  <2>1. clock' \in [Node -> Nat]
    BY <1>0, <1>5, <1>6 DEF TypeOK
  <2>2. net' \subseteq Message
    BY <1>0, <1>7, <1>8, <1>9 DEF TypeOK
  <2> QED BY <1>0, <1>3, <1>10, <2>1, <2>2 DEF TypeOK, callVars
<1>12. NamesInv'
  <2>1. ASSUME NEW k \in Node, NEW e \in Dot, Tracked(k, e)'
        PROVE  dotOf[cmd'[k][e]] = e /\ (Home(e) = k => e[2] < nextSeq[k])
    <3>1. CASE k = n /\ e = d /\ ~Tracked(n, d)
      BY <1>2, <1>10, <3>1
    <3>2. CASE ~(k = n /\ e = d /\ ~Tracked(n, d))
      <4>1. Tracked(k, e) /\ cmd'[k][e] = cmd[k][e]
        BY <1>10, <2>1, <3>2 DEF Tracked
      <4> QED BY <1>0, <4>1 DEF NamesInv
    <3> QED BY <3>1, <3>2
  <2>2. \A x \in net' : /\ x.to # x.from
                        /\ x.type \in {"MCollect", "MCommit"} => dotOf[x.change] = x.dot
                        /\ x.type = "MCollect" => x.from = Home(x.dot)
                        /\ x.type = "MCollectAck" => x.to = Home(x.dot)
    BY <1>0, <1>2, <1>7, <1>8, <1>9 DEF NamesInv
  <2> QED BY <1>0, <1>3, <2>1, <2>2 DEF NamesInv, callVars
<1>13. TasksInv'
  <2>1. ASSUME NEW r \in commits PROVE Tracked(r.node, r.dot)'
    <3>1. r.node \in Node /\ r.dot \in Dot /\ Tracked(r.node, r.dot)
      BY <1>0, TaskFacts DEF TasksInv
    <3> QED BY <1>2, <1>10, <3>1, ConstantsOK DEF Tracked
  <2>2. ASSUME NEW k \in Node, NEW e \in Dot, pending[k][e] # NoChange
        PROVE  pending[k][e] = cmd'[k][e]
    <3>1. pending[k][e] = cmd[k][e] /\ Tracked(k, e)
      BY <1>0, <2>2 DEF TasksInv, Tracked
    <3> QED BY <1>10, <3>1
  <2> QED BY <1>0, <1>3, <2>1, <2>2 DEF TasksInv, callVars
<1>14. DiskKept'
  BY <1>0, <1>3 DEF DiskKept, OkIsOnDisk, callVars
<1> QED BY <1>11, <1>12, <1>13, <1>14 DEF DiskInv

\* An ack may start a commit of what its coordinator tracks, although it may
\* have been meant for a command of the coordinator's former life.
LEMMA AckNames ==
  ASSUME Alias = {}, DiskInv, NEW n \in Node, NEW m \in net, HandleMCollectAck(n, m),
         UNCHANGED restarts
  PROVE  DiskInv'
<1> DEFINE d == m.dot
           r == [task |-> n, node |-> n, dot |-> d, at |-> "decided"]
<1>0. TypeOK /\ NamesInv /\ TasksInv /\ DiskKept
  BY DEF DiskInv
<1>1. /\ m \in Message /\ m.type = "MCollectAck"
      /\ d \in Dot /\ m.from \in Node /\ m.clock \in Nat /\ n = Home(d)
  <2>1. m \in Message /\ m.type = "MCollectAck" /\ Receives(n, m)
    BY <1>0 DEF HandleMCollectAck, TypeOK
  <2>2. m.to = n /\ m.to = Home(d)
    BY <1>0, <2>1, SenderIsOther DEF NamesInv
  <2> QED BY <2>1, <2>2, MessageKinds
<1>2. /\ net' = net \ {m}
      /\ acks' = IF Tracked(n, d) THEN [acks EXCEPT ![n][d] = @ \cup {m.from}] ELSE acks
      /\ \/ Tracked(n, d) /\ commits' = commits \cup {r}
         \/ commits' = commits
      /\ UNCHANGED <<members, cmd, cmdClock, done, committedDots, committedCount, lastApplied,
                     nextSeq, pending, stage, dotOf, reply, applied, memberOps>>
  BY DEF HandleMCollectAck, Uncommitted
<1>3. PICK now \in PhysicalTime : clock' = [clock EXCEPT ![n] = Updated(@, m.clock, now)]
  BY DEF HandleMCollectAck
<1>4. r \in Runner /\ r.node = n /\ r.dot = d /\ r.task = n
  BY <1>1 DEF Runner
<1> HIDE DEF d, r
<1>5. TypeOK'
  <2>1. clock' \in [Node -> Nat]
    <3>1. Updated(clock[n], m.clock, now) \in Nat
      BY <1>0, <1>1, NowIsNumber, ClockFacts DEF TypeOK
    <3> QED BY <1>0, <1>3, <3>1 DEF TypeOK
  <2>2. acks' \in [Node -> [Dot -> SUBSET Node]]
    <3>1. acks \in [Node -> [Dot -> SUBSET Node]] /\ (acks[n][d] \cup {m.from}) \in SUBSET Node
      BY <1>0, <1>1 DEF TypeOK
    <3>2. CASE Tracked(n, d)
      <4>1. acks' = [acks EXCEPT ![n][d] = acks[n][d] \cup {m.from}]
        BY <1>1, <1>2, <3>1, <3>2
      <4> QED BY <1>1, <3>1, <4>1, CellChange
    <3>3. CASE ~Tracked(n, d)
      BY <1>2, <3>1, <3>3
    <3> QED BY <3>2, <3>3
  <2>3. net' \subseteq Message /\ commits' \subseteq Runner
    BY <1>0, <1>2, <1>4 DEF TypeOK
  <2> QED BY <1>0, <1>2, <2>1, <2>2, <2>3 DEF TypeOK
<1>6. NamesInv'
  BY <1>0, <1>2, NamesFrame
<1>7. TasksInv'
  <2>1. r.task \notin Change
    BY <1>4, ConstantsOK
  <2> QED BY <1>0, <1>1, <1>2, <1>4, <2>1 DEF TasksInv, Tracked
<1>8. DiskKept'
  BY <1>0, <1>2 DEF DiskKept, OkIsOnDisk
<1> QED BY <1>5, <1>6, <1>7, <1>8 DEF DiskInv

\* A member stores what an MCommit says, or has it committed already.
LEMMA CommitMessageNames ==
  ASSUME DiskInv, NEW n \in Node, NEW m \in net, HandleMCommit(n, m), UNCHANGED restarts
  PROVE  DiskInv'
<1> DEFINE d == m.dot
           c == m.change
<1>0. TypeOK /\ NamesInv /\ TasksInv /\ DiskKept
  BY DEF DiskInv
<1>1. m.clock \in Nat /\ d \in Dot /\ c \in Change
  BY <1>0, MessageKinds DEF HandleMCommit, TypeOK
<1>2. /\ net' = net \ {m}
      /\ UNCHANGED <<members, cmd, cmdClock, acks, callVars, memberOps>>
      /\ \/ UNCHANGED <<applied, done, committedDots, committedCount, lastApplied>>
         \/ /\ \E ok \in Outcomes(c) : ApplyChange(n, c, ok)
            /\ MarkCommitted(n, d)
  BY DEF HandleMCommit
<1>3. PICK now \in PhysicalTime : clock' = [clock EXCEPT ![n] = Updated(@, m.clock, now)]
  BY DEF HandleMCommit
<1> HIDE DEF d, c
<1>4. clock' \in [Node -> Nat]
  <2>1. Updated(clock[n], m.clock, now) \in Nat
    BY <1>0, <1>1, NowIsNumber, ClockFacts DEF TypeOK
  <2> QED BY <1>0, <1>3, <2>1 DEF TypeOK
<1>5. /\ committedDots' \in [Node -> SUBSET Dot]
      /\ committedCount' \in [Node -> Nat]
      /\ lastApplied' \in [Node -> 0..MaxSeq]
      /\ done' \in [Node -> [Dot -> BOOLEAN]]
  BY <1>0, <1>1, <1>2, MarkTypes DEF TypeOK
<1>6. /\ applied' \in [Node -> Seq(Change)]
      /\ \A k \in Node : Contents(applied[k]) \subseteq Contents(applied'[k])
  BY <1>0, <1>1, <1>2, OutcomesAre, StoreGrows DEF TypeOK
<1>7. TypeOK'
  BY <1>0, <1>2, <1>4, <1>5, <1>6 DEF TypeOK, callVars
<1>8. NamesInv'
  BY <1>0, <1>2, NamesFrame DEF callVars
<1>9. TasksInv'
  BY <1>0, <1>2 DEF TasksInv, Tracked, callVars
<1>10. DiskKept'
  <2> SUFFICES ASSUME Persistent, NEW x \in Change, reply[x] = "ok"
               PROVE  x \in Contents(applied'[Home(dotOf[x])])
    BY <1>2 DEF DiskKept, OkIsOnDisk, callVars
  <2>1. x \in Contents(applied[Home(dotOf[x])]) /\ Home(dotOf[x]) \in Node
    BY <1>0, DotFacts DEF DiskKept, OkIsOnDisk, NamesInv, TypeOK
  <2> QED BY <1>6, <2>1
<1> QED BY <1>7, <1>8, <1>9, <1>10 DEF DiskInv

\* A received bump names nothing.
LEMMA BumpMessageNames ==
  ASSUME DiskInv, NEW n \in Node, NEW m \in net, HandleClockBump(n, m), UNCHANGED restarts
  PROVE  DiskInv'
<1>0. TypeOK /\ NamesInv /\ TasksInv /\ DiskKept
  BY DEF DiskInv
<1>1. UNCHANGED <<members, stateVars, callVars, applied, memberOps>> /\ net' = net \ {m}
  BY DEF HandleClockBump
<1>2. PICK now \in PhysicalTime : clock' = [clock EXCEPT ![n] = Updated(@, m.clock, now)]
  BY DEF HandleClockBump
<1>3. clock' \in [Node -> Nat]
  <2>1. m.clock \in Nat
    BY <1>0, MessageKinds DEF TypeOK
  <2>2. Updated(clock[n], m.clock, now) \in Nat
    BY <1>0, <2>1, NowIsNumber, ClockFacts DEF TypeOK
  <2> QED BY <1>0, <1>2, <2>2 DEF TypeOK
<1>4. TypeOK'
  BY <1>0, <1>1, <1>3 DEF TypeOK, stateVars, callVars
<1>5. NamesInv'
  BY <1>0, <1>1, NamesFrame DEF stateVars, callVars
<1>6. TasksInv' /\ DiskKept'
  BY <1>0, <1>1, TasksFrame DEF stateVars, callVars
<1> QED BY <1>4, <1>5, <1>6 DEF DiskInv

-----------------------------------------------------------------------------
\* Every step keeps the invariant.
LEMMA DiskStep ==
  ASSUME Alias = {}, DiskInv, [NextR]_rvars
  PROVE  DiskInv'
<1>1. ASSUME NEW n \in Node, Restart(n) PROVE DiskInv'
  BY <1>1, RestartStep
<1>2. CASE Next /\ UNCHANGED restarts
  <2>1. ASSUME NEW n \in Node, NEW c \in Change, Propose(n, c) PROVE DiskInv'
    BY <1>2, <2>1, ProposeNames
  <2>2. ASSUME NEW c \in Change, ProposeCheck(c) \/ ProposeTimeout(c) \/ ClientGone(c)
        PROVE  DiskInv'
    BY <1>2, <2>2, CheckNames, EndNames
  <2>3. ASSUME NEW r \in commits, Commit(r) PROVE DiskInv'
    BY <1>2, <2>3, MarkNames, ApplyNames DEF Commit
  <2>4. ASSUME NEW n \in Node, Handle(n) PROVE DiskInv'
    BY <1>2, <2>4, CollectNames, AckNames, CommitMessageNames, BumpMessageNames DEF Handle
  <2>5. ASSUME NEW n \in Node, ClockBump(n) PROVE DiskInv'
    BY <1>2, <2>5, BumpNames
  <2>6. ASSUME NEW n \in Node, NEW m \in MemberId, AddNode(n, m) \/ RemoveNode(n, m)
        PROVE  DiskInv'
    BY <1>2, <2>6, MemberNames
  <2> QED BY <1>2, <2>1, <2>2, <2>3, <2>4, <2>5, <2>6 DEF Next
<1>3. CASE UNCHANGED rvars
  <2>1. UNCHANGED <<vars, restarts>>
    BY <1>3 DEF rvars
  <2> QED BY <2>1 DEF DiskInv, TypeOK, NamesInv, TasksInv, DiskKept, OkIsOnDisk, Tracked, vars, stateVars,
             callVars
<1> QED BY <1>1, <1>2, <1>3 DEF NextR

\* The inductive invariant over restarts (TempoConsensus::new, propose,
\* handle_message, commit_command).
THEOREM DiskInvariance == ASSUME Alias = {} PROVE SpecR => []DiskInv
<1>1. InitR => DiskInv
  BY DiskInit
<1>2. DiskInv /\ [NextR]_rvars => DiskInv'
  BY DiskStep
<1> QED BY <1>1, <1>2, PTL DEF SpecR

\* With file storage an "ok" outlives every restart, although a node that starts
\* again gives old dots to new calls and counts old acks for them
\* (commit_command, apply_changelog, next_sequence).
THEOREM OksAreOnDisk == ASSUME Persistent, Alias = {} PROVE SpecR => []OkIsOnDisk
<1>1. DiskInv => OkIsOnDisk
  BY DEF DiskInv, DiskKept
<1> QED BY <1>1, DiskInvariance, PTL

-----------------------------------------------------------------------------
(* A store takes a change once, over restarts.                              *)

\* A change stays unsent where no message and no store takes it.
LEMMA UnsentKept ==
  ASSUME NEW c, Unsent(c),
         \A m \in net' : m.type = "MCommit" => m \in net \/ m.change # c,
         \A k \in Node : c \in Contents(applied'[k]) => c \in Contents(applied[k])
  PROVE  Unsent(c)'
BY DEF Unsent

\* A step that marks, tracks, sends and stores nothing.
LEMMA OnceFrame ==
  ASSUME OnceInv, UNCHANGED <<cmd, done, dotOf, applied>>,
         \A r \in commits' : r.at = "marked" => r \in commits,
         \A m \in net' : m.type = "MCommit" => m \in net
  PROVE  OnceInv'
<1>1. \A c : Unsent(c) => Unsent(c)'
  BY DEF Unsent
<1>2. CommitsInv'
  BY <1>1 DEF OnceInv, CommitsInv, Tracked
<1>3. FlightInv'
  BY DEF OnceInv, FlightInv
<1>4. AppliedAtMostOnce'
  BY DEF OnceInv, AppliedAtMostOnce
<1> QED BY <1>2, <1>3, <1>4 DEF OnceInv

\* Nodes start with empty stores.
LEMMA OnceInit == InitR => OnceInv
<1> SUFFICES ASSUME InitR PROVE OnceInv
  OBVIOUS
<1>1. /\ commits = {} /\ net = {}
      /\ \A n \in Node : applied[n] = <<>> /\ Contents(applied[n]) = {}
  BY DEF InitR, Init, Contents
<1>2. CommitsInv
  <2>1. \A c : Unsent(c)
    BY <1>1 DEF Unsent
  <2> QED BY <1>1, <2>1 DEF CommitsInv
<1>3. FlightInv
  BY <1>1 DEF FlightInv
<1>4. AppliedAtMostOnce
  BY <1>1 DEF AppliedAtMostOnce
<1> QED BY <1>2, <1>3, <1>4 DEF OnceInv

\* A restart forgets the commands a node was to commit; it sends nothing.
LEMMA RestartOnce ==
  ASSUME DiskInv, OnceInv, NEW n \in Node, Restart(n)
  PROVE  OnceInv'
<1>0. TypeOK /\ TasksInv /\ CommitsInv /\ FlightInv /\ AppliedAtMostOnce
  BY DEF DiskInv, OnceInv
<1>1. /\ cmd' = [cmd EXCEPT ![n] = [d \in Dot |-> NoChange]]
      /\ done' = [done EXCEPT ![n] = [d \in Dot |-> FALSE]]
      /\ commits' = {r \in commits : r.node # n}
      /\ applied' = IF Persistent THEN applied ELSE [applied EXCEPT ![n] = <<>>]
      /\ UNCHANGED <<dotOf, net>>
  BY DEF Restart
<1>2. \A k \in Node, e \in Dot :
         IF k = n THEN cmd'[k][e] = NoChange
                  ELSE cmd'[k][e] = cmd[k][e] /\ done'[k][e] = done[k][e]
  BY <1>0, <1>1 DEF TypeOK
<1>3. \A k \in Node : applied'[k] = applied[k] \/ applied'[k] = <<>>
  BY <1>0, <1>1 DEF TypeOK
<1>4. \A k \in Node : Contents(applied'[k]) \subseteq Contents(applied[k])
  BY <1>3 DEF Contents
<1>5. \A c : Unsent(c) => Unsent(c)'
  BY <1>1, <1>4, UnsentKept
<1>6. CommitsInv'
  <2>1. ASSUME NEW r \in commits', r.at = "marked"
        PROVE  /\ done'[r.node][r.dot] /\ Unsent(cmd[r.node][r.dot])'
               /\ cmd'[r.node][r.dot] = cmd[r.node][r.dot]
               /\ \A q \in commits' : q.at = "marked" /\ q.dot = r.dot => q = r
    <3>1. r \in commits /\ r.node # n /\ r.node \in Node /\ r.dot \in Dot
      BY <1>0, <1>1 DEF TypeOK, Runner
    <3>2. done[r.node][r.dot] /\ Unsent(cmd[r.node][r.dot])
      BY <1>0, <2>1, <3>1 DEF CommitsInv
    <3>3. cmd'[r.node][r.dot] = cmd[r.node][r.dot] /\ done'[r.node][r.dot] = done[r.node][r.dot]
      BY <1>2, <3>1
    <3>4. \A q \in commits' : q.at = "marked" /\ q.dot = r.dot => q = r
      BY <1>0, <1>1, <2>1, <3>1 DEF CommitsInv
    <3> QED BY <1>5, <3>2, <3>3, <3>4
  <2>2. ASSUME NEW d \in Dot, Tracked(Home(d), d)', ~done'[Home(d)][d]
        PROVE  Unsent(cmd[Home(d)][d])'
    <3>1. Home(d) \in Node
      BY DotFacts
    <3>2. Home(d) # n /\ cmd'[Home(d)][d] = cmd[Home(d)][d]
      BY <1>2, <2>2, <3>1 DEF Tracked
    <3>3. Unsent(cmd[Home(d)][d])
      BY <1>0, <1>2, <2>2, <3>1, <3>2 DEF CommitsInv, Tracked
    <3> QED BY <1>5, <3>2, <3>3
  <2>3. \A c \in Change : dotOf'[c] = NoDot => Unsent(c)'
    BY <1>0, <1>1, <1>5 DEF CommitsInv
  <2> QED BY <2>1, <2>2, <2>3 DEF CommitsInv
<1>7. FlightInv'
  <2>1. \A m \in net : m.type = "MCommit" => AddrOf[m.to] \in Node
    BY <1>0, MessageKinds, ConstantsOK DEF TypeOK
  <2> QED BY <1>0, <1>1, <1>4, <2>1 DEF FlightInv
<1>8. AppliedAtMostOnce'
  BY <1>0, <1>3 DEF AppliedAtMostOnce
<1> QED BY <1>6, <1>7, <1>8 DEF OnceInv

\* A proposed change was never sent.
LEMMA ProposeOnce ==
  ASSUME DiskInv, OnceInv, NEW n \in Node, NEW c \in Change, Propose(n, c)
  PROVE  OnceInv'
<1> DEFINE d == <<n, nextSeq[n]>>
<1>0. TypeOK /\ NamesInv /\ TasksInv /\ CommitsInv /\ FlightInv /\ AppliedAtMostOnce
  BY DEF DiskInv, OnceInv
<1>1. d \in Dot /\ Home(d) = n /\ d[2] = nextSeq[n] /\ nextSeq[n] \in 1..MaxSeq
  BY <1>0, ConstantsOK, DotFacts DEF Propose, TypeOK
<1>2. PICK now \in PhysicalTime, cut \in BOOLEAN :
        LET t == Ticked(clock[n], now)
            msg == [type |-> "MCollect", from |-> n, to |-> n, dot |-> d,
                    change |-> c, clock |-> t]
        IN  /\ AddCommand(n, d, c, t)
            /\ \E out \in Arriving(Copies(n, msg), cut) : net' = net \cup out
  BY DEF Propose
<1> DEFINE t == Ticked(clock[n], now)
           msg == [type |-> "MCollect", from |-> n, to |-> n, dot |-> d,
                   change |-> c, clock |-> t]
<1>3. t \in Nat
  BY <1>0, NowIsNumber, ClockFacts DEF TypeOK
<1>4. PICK out \in Arriving(Copies(n, msg), cut) : net' = net \cup out
  BY <1>2
<1>5. \A m \in out : m.type = "MCollect"
  <2> HIDE DEF d, t
  <2> QED BY <1>0, <1>1, <1>3, CommandCopies
<1>6. AddCommand(n, d, c, t)
  BY <1>2
<1>7. /\ dotOf' = [dotOf EXCEPT ![c] = d] /\ stage[c] = "new"
      /\ UNCHANGED <<done, commits, applied>>
  BY DEF Propose
<1> HIDE DEF d, t, msg
<1>8. ~Tracked(n, d) /\ dotOf[c] = NoDot
  BY <1>0, <1>1, <1>7 DEF NamesInv, TypeOK
<1>9. \A k \in Node, e \in Dot : cmd'[k][e] = IF k = n /\ e = d THEN c ELSE cmd[k][e]
  <2>1. cmd' = [cmd EXCEPT ![n][d] = c]
    BY <1>6, <1>8 DEF AddCommand
  <2>2. cmd \in [Node -> [Dot -> Change \cup {NoChange}]] /\ c \in Change \cup {NoChange}
    BY <1>0 DEF TypeOK
  <2> QED BY <1>1, <2>1, <2>2, CellChange
<1>10. \A m \in net' : m.type = "MCommit" => m \in net
  BY <1>4, <1>5
<1>11. \A x : Unsent(x) => Unsent(x)'
  BY <1>7, <1>10, UnsentKept
<1>12. CommitsInv'
  <2>1. ASSUME NEW r \in commits', r.at = "marked"
        PROVE  /\ done'[r.node][r.dot] /\ Unsent(cmd[r.node][r.dot])'
               /\ \A q \in commits' : q.at = "marked" /\ q.dot = r.dot => q = r
    <3>1. r \in commits /\ r.node \in Node /\ r.dot \in Dot /\ Tracked(r.node, r.dot)
      BY <1>0, <1>7 DEF TypeOK, Runner, TasksInv
    <3>2. cmd'[r.node][r.dot] = cmd[r.node][r.dot]
      BY <1>8, <1>9, <3>1
    <3>3. /\ done[r.node][r.dot] /\ Unsent(cmd[r.node][r.dot])
          /\ \A q \in commits : q.at = "marked" /\ q.dot = r.dot => q = r
      BY <1>0, <2>1, <3>1 DEF CommitsInv
    <3> QED BY <1>7, <1>11, <3>2, <3>3
  <2>2. ASSUME NEW e \in Dot, Tracked(Home(e), e)', ~done'[Home(e)][e]
        PROVE  Unsent(cmd[Home(e)][e])'
    <3>1. Home(e) \in Node
      BY DotFacts
    <3>2. CASE e = d
      BY <1>0, <1>1, <1>8, <1>9, <1>11, <3>2 DEF CommitsInv
    <3>3. CASE e # d
      <4>1. cmd'[Home(e)][e] = cmd[Home(e)][e]
        BY <1>9, <3>1, <3>3
      <4>2. Unsent(cmd[Home(e)][e])
        BY <1>0, <1>7, <2>2, <4>1 DEF CommitsInv, Tracked
      <4> QED BY <1>11, <4>1, <4>2
    <3> QED BY <3>2, <3>3
  <2>3. ASSUME NEW x \in Change, dotOf'[x] = NoDot PROVE Unsent(x)'
    <3>1. dotOf[x] = NoDot
      BY <1>0, <1>1, <1>7, <2>3, DotFacts DEF TypeOK
    <3> QED BY <1>0, <1>11, <3>1 DEF CommitsInv
  <2> QED BY <2>1, <2>2, <2>3 DEF CommitsInv
<1>13. FlightInv'
  BY <1>0, <1>7, <1>10 DEF FlightInv
<1>14. AppliedAtMostOnce'
  BY <1>0, <1>7 DEF AppliedAtMostOnce
<1> QED BY <1>12, <1>13, <1>14 DEF OnceInv

\* The task that marks a command has it alone.
LEMMA MarkOnce ==
  ASSUME DiskInv, OnceInv, NEW r \in commits, CommitMark(r)
  PROVE  OnceInv'
<1> DEFINE s == [r EXCEPT !.at = "marked"]
<1>0. TypeOK /\ TasksInv /\ CommitsInv /\ FlightInv /\ AppliedAtMostOnce
  BY DEF DiskInv, OnceInv
<1>1. r.node \in Node /\ r.dot \in Dot /\ r \in Runner /\ r.node = Home(r.dot)
  BY TaskFacts
<1>2. UNCHANGED <<cmd, dotOf, applied, net>>
  BY DEF CommitMark
<1>3. CASE Uncommitted(r.node, r.dot)
  <2>1. MarkCommitted(r.node, r.dot) /\ commits' = (commits \ {r}) \cup {s}
    BY <1>3 DEF CommitMark
  <2>2. s.node = r.node /\ s.dot = r.dot /\ s.at = "marked"
    BY <1>1 DEF Runner
  <2> HIDE DEF s
  <2>3. /\ done' = [done EXCEPT ![r.node][r.dot] = TRUE]
        /\ Tracked(r.node, r.dot) /\ ~done[r.node][r.dot]
    BY <1>3, <2>1 DEF MarkCommitted, Uncommitted
  <2>4. \A k \in Node, e \in Dot : done'[k][e] <=> done[k][e] \/ (k = r.node /\ e = r.dot)
    <3>1. done \in [Node -> [Dot -> BOOLEAN]]
      BY <1>0 DEF TypeOK
    <3> QED BY <1>1, <2>3, <3>1, FlagSet
  <2>5. \A x : Unsent(x) => Unsent(x)'
    BY <1>2, UnsentKept
  <2>6. \A q \in commits : q.at = "marked" => q.dot # r.dot
    <3> SUFFICES ASSUME NEW q \in commits, q.at = "marked", q.dot = r.dot PROVE FALSE
      OBVIOUS
    <3>1. q.node = r.node
      BY <1>1, TaskFacts
    <3> QED BY <1>0, <2>3, <3>1 DEF CommitsInv
  <2>7. CommitsInv'
    <3>1. ASSUME NEW q \in commits', q.at = "marked"
          PROVE  /\ done'[q.node][q.dot] /\ Unsent(cmd[q.node][q.dot])'
                 /\ \A p \in commits' : p.at = "marked" /\ p.dot = q.dot => p = q
      <4>1. CASE q = s
        <5>1. Unsent(cmd[r.node][r.dot])
          BY <1>0, <1>1, <2>3 DEF CommitsInv
        <5>2. \A p \in commits' : p.at = "marked" /\ p.dot = r.dot => p = s
          BY <2>1, <2>6
        <5> QED BY <1>1, <1>2, <2>2, <2>4, <2>5, <4>1, <5>1, <5>2
      <4>2. CASE q # s
        <5>1. q \in commits /\ q.node \in Node /\ q.dot \in Dot /\ q.dot # r.dot
          BY <1>0, <2>1, <2>6, <3>1, <4>2 DEF TypeOK, Runner
        <5>2. /\ done[q.node][q.dot] /\ Unsent(cmd[q.node][q.dot])
              /\ \A p \in commits : p.at = "marked" /\ p.dot = q.dot => p = q
          BY <1>0, <3>1, <5>1 DEF CommitsInv
        <5> QED BY <1>2, <2>1, <2>2, <2>4, <2>5, <5>1, <5>2
      <4> QED BY <4>1, <4>2
    <3>2. ASSUME NEW e \in Dot, Tracked(Home(e), e)', ~done'[Home(e)][e]
          PROVE  Unsent(cmd[Home(e)][e])'
      <4>1. Home(e) \in Node
        BY DotFacts
      <4>2. Tracked(Home(e), e) /\ ~done[Home(e)][e]
        BY <1>2, <2>4, <3>2, <4>1 DEF Tracked
      <4> QED BY <1>0, <1>2, <2>5, <4>2 DEF CommitsInv
    <3>3. \A x \in Change : dotOf'[x] = NoDot => Unsent(x)'
      BY <1>0, <1>2, <2>5 DEF CommitsInv
    <3> QED BY <3>1, <3>2, <3>3 DEF CommitsInv
  <2> QED BY <1>0, <1>2, <2>7 DEF OnceInv, FlightInv, AppliedAtMostOnce
<1>4. CASE ~Uncommitted(r.node, r.dot)
  <2>1. commits' = commits \ {r} /\ UNCHANGED done
    BY <1>4 DEF CommitMark
  <2> QED BY <1>2, <2>1, OnceFrame
<1> QED BY <1>3, <1>4

\* A receiver tracks a command of another coordinator.
LEMMA CollectOnce ==
  ASSUME Alias = {}, DiskInv, OnceInv, NEW n \in Node, NEW m \in net, HandleMCollect(n, m)
  PROVE  OnceInv'
<1> DEFINE d == m.dot
<1>0. TypeOK /\ TasksInv /\ CommitsInv /\ FlightInv /\ AppliedAtMostOnce
  BY DEF DiskInv, OnceInv
<1>1. d \in Dot /\ n # Home(d) /\ m.change \in Change
  <2>1. m.type = "MCollect" /\ m \in Message
    BY <1>0 DEF HandleMCollect, TypeOK
  <2> QED BY <2>1, MessageKinds, SenderIsOther DEF HandleMCollect, DiskInv, NamesInv
<1>2. AddCommand(n, d, m.change, m.clock) /\ UNCHANGED <<done, callVars, applied>>
  BY DEF HandleMCollect
<1>3. PICK now \in PhysicalTime, later \in PhysicalTime :
        LET t == Ticked(Updated(clock[n], m.clock, now), later)
            ack == [type |-> "MCollectAck", from |-> n, to |-> m.from, dot |-> m.dot,
                    clock |-> t]
        IN  /\ clock' = [clock EXCEPT ![n] = t]
            /\ \E out \in Arriving(Answer(n, ack), FALSE) : net' = (net \ {m}) \cup out
  BY DEF HandleMCollect
<1> DEFINE t == Ticked(Updated(clock[n], m.clock, now), later)
           ack == [type |-> "MCollectAck", from |-> n, to |-> m.from, dot |-> m.dot,
                   clock |-> t]
<1>4. \A x \in net' : x.type = "MCommit" => x \in net
  <2>1. PICK out \in Arriving(Answer(n, ack), FALSE) : net' = (net \ {m}) \cup out
    BY <1>3
  <2>2. \A x \in out : x = ack
    BY ArrivingAre DEF Answer
  <2>3. ack.type = "MCollectAck"
    OBVIOUS
  <2> HIDE DEF ack
  <2> QED BY <2>1, <2>2, <2>3
<1> HIDE DEF d, t, ack
<1>5. \A k \in Node, e \in Dot : k # n \/ e # d => cmd'[k][e] = cmd[k][e]
  <2>1. cmd \in [Node -> [Dot -> Change \cup {NoChange}]] /\ m.change \in Change \cup {NoChange}
    BY <1>0, <1>1 DEF TypeOK
  <2>2. cmd' = cmd \/ cmd' = [cmd EXCEPT ![n][d] = m.change]
    BY <1>2 DEF AddCommand
  <2> QED BY <1>1, <2>1, <2>2, CellChange
<1>6. \A e \in Dot : Home(e) \in Node /\ cmd'[Home(e)][e] = cmd[Home(e)][e]
  BY <1>1, <1>5, DotFacts
<1>7. \A x : Unsent(x) => Unsent(x)'
  BY <1>2, <1>4, UnsentKept
<1>8. CommitsInv'
  <2>1. ASSUME NEW r \in commits', r.at = "marked"
        PROVE  /\ done'[r.node][r.dot] /\ Unsent(cmd[r.node][r.dot])'
               /\ \A q \in commits' : q.at = "marked" /\ q.dot = r.dot => q = r
    <3>1. r \in commits /\ r.dot \in Dot /\ r.node = Home(r.dot) /\ commits' = commits
      BY <1>2, TaskFacts DEF callVars
    <3>2. /\ done[r.node][r.dot] /\ Unsent(cmd[r.node][r.dot])
          /\ \A q \in commits : q.at = "marked" /\ q.dot = r.dot => q = r
      BY <1>0, <2>1, <3>1 DEF CommitsInv
    <3> QED BY <1>2, <1>6, <1>7, <3>1, <3>2
  <2>2. ASSUME NEW e \in Dot, Tracked(Home(e), e)', ~done'[Home(e)][e]
        PROVE  Unsent(cmd[Home(e)][e])'
    <3>1. Unsent(cmd[Home(e)][e])
      BY <1>0, <1>2, <1>6, <2>2 DEF CommitsInv, Tracked
    <3> QED BY <1>6, <1>7, <3>1
  <2>3. \A x \in Change : dotOf'[x] = NoDot => Unsent(x)'
    BY <1>0, <1>2, <1>7 DEF CommitsInv, callVars
  <2> QED BY <2>1, <2>2, <2>3 DEF CommitsInv
<1>9. FlightInv'
  BY <1>0, <1>2, <1>4 DEF FlightInv
<1>10. AppliedAtMostOnce'
  BY <1>0, <1>2 DEF AppliedAtMostOnce
<1> QED BY <1>8, <1>9, <1>10 DEF OnceInv

\* The coordinator stores a change nobody has and sends each member one message.
LEMMA ApplyOnce ==
  ASSUME Alias = {}, DiskInv, OnceInv, NEW r \in commits, CommitApply(r)
  PROVE  OnceInv'
<1> DEFINE n == r.node
           d == r.dot
           c == cmd[n][d]
           msg == [type |-> "MCommit", from |-> n, to |-> n, dot |-> d, change |-> c,
                   clock |-> cmdClock[n][d]]
<1>0. TypeOK /\ TasksInv /\ NamesInv /\ CommitsInv /\ FlightInv /\ AppliedAtMostOnce
  BY DEF DiskInv, OnceInv
<1>1. n \in Node /\ d \in Dot /\ n = Home(d) /\ c \in Change /\ dotOf[c] = d
  BY TaskFacts
<1>2. /\ r.at = "marked" /\ commits' = commits \ {r}
      /\ UNCHANGED <<cmd, done, dotOf>>
  BY DEF CommitApply, stateVars
<1>3. PICK ok \in Outcomes(c), cut \in BOOLEAN :
           /\ ApplyChange(n, c, ok)
           /\ \E out \in Arriving(Copies(n, msg), cut) : net' = net \cup out
  BY DEF CommitApply
<1>4. PICK out \in Arriving(Copies(n, msg), cut) : net' = net \cup out
  BY <1>3
<1>5. /\ \A m \in out : m.type = "MCommit" /\ m.change = c /\ m.to \in MemberId /\ m.to # n
      /\ \A m, x \in out : m.to = x.to => m = x
  <2>1. ASSUME NEW m \in out
        PROVE  \E k \in members[n] \ {n} : m = [msg EXCEPT !.to = k]
    <3>1. m \in Copies(n, msg)
      BY ArrivingAre
    <3> QED BY <3>1, Zenon DEF Copies
  <2>2. members[n] \subseteq MemberId
    BY <1>0, <1>1 DEF TypeOK
  <2> QED BY <2>1, <2>2
<1> HIDE DEF n, d, c, msg
<1>6. done[n][d] /\ Unsent(c) /\ \A q \in commits : q.at = "marked" /\ q.dot = d => q = r
  BY <1>0, <1>2 DEF CommitsInv, n, d, c
<1>7. /\ applied' \in [Node -> Seq(Change)]
      /\ \A k \in Node : Contents(applied'[k]) =
           IF k = n /\ ok THEN Contents(applied[k]) \cup {c} ELSE Contents(applied[k])
      /\ AppliedAtMostOnce'
  <2>1. ok \in BOOLEAN /\ c \notin Contents(applied[n])
    BY <1>1, <1>6, OutcomesAre DEF Unsent
  <2> QED BY <1>0, <1>1, <1>3, <2>1, ApplyFacts
<1>8. \A x : Unsent(x) /\ x # c => Unsent(x)'
  <2> SUFFICES ASSUME NEW x, Unsent(x), x # c PROVE Unsent(x)'
    OBVIOUS
  <2> QED BY <1>4, <1>5, <1>7, UnsentKept
<1>9. CommitsInv'
  <2>1. ASSUME NEW q \in commits', q.at = "marked"
        PROVE  /\ done'[q.node][q.dot] /\ Unsent(cmd[q.node][q.dot])'
               /\ \A p \in commits' : p.at = "marked" /\ p.dot = q.dot => p = q
    <3>1. q \in commits /\ q.dot # d
      BY <1>2, <1>6, <2>1
    <3>2. cmd[q.node][q.dot] # c
      BY <1>1, <3>1, TaskFacts
    <3>3. /\ done[q.node][q.dot] /\ Unsent(cmd[q.node][q.dot])
          /\ \A p \in commits : p.at = "marked" /\ p.dot = q.dot => p = q
      BY <1>0, <2>1, <3>1 DEF CommitsInv
    <3> QED BY <1>2, <1>8, <3>2, <3>3
  <2>2. ASSUME NEW e \in Dot, Tracked(Home(e), e)', ~done'[Home(e)][e]
        PROVE  Unsent(cmd[Home(e)][e])'
    <3>1. e # d /\ Tracked(Home(e), e) /\ ~done[Home(e)][e]
      BY <1>1, <1>2, <1>6, <2>2 DEF Tracked
    <3>2. cmd[Home(e)][e] # c
      BY <1>0, <1>1, <3>1, DotFacts DEF NamesInv
    <3>3. Unsent(cmd[Home(e)][e])
      BY <1>0, <3>1 DEF CommitsInv
    <3> QED BY <1>2, <1>8, <3>2, <3>3
  <2>3. \A x \in Change : dotOf'[x] = NoDot => Unsent(x)'
    BY <1>0, <1>1, <1>2, <1>8, DotFacts DEF CommitsInv
  <2> QED BY <2>1, <2>2, <2>3 DEF CommitsInv
<1>10. FlightInv'
  <2>1. \A m \in net : m.type = "MCommit" => m.change # c /\ AddrOf[m.to] \in Node
    BY <1>0, <1>6, MessageKinds, ConstantsOK DEF Unsent, TypeOK
  <2>2. \A m \in out : AddrOf[m.to] \in Node /\ AddrOf[m.to] # n
    BY <1>5, IdsAreNodes
  <2>3. ASSUME NEW m \in net', m.type = "MCommit"
        PROVE  m.change \notin Contents(applied'[AddrOf[m.to]])
    <3>1. CASE m \in net
      BY <1>0, <1>7, <2>1, <2>3, <3>1 DEF FlightInv
    <3>2. CASE m \in out
      BY <1>5, <1>6, <1>7, <2>2, <3>2 DEF Unsent
    <3> QED BY <1>4, <3>1, <3>2
  <2>4. ASSUME NEW m \in net', NEW x \in net', m.type = "MCommit", x.type = "MCommit",
               x.change = m.change, x.to = m.to
        PROVE  x = m
    <3>1. CASE m \in net /\ x \in net
      BY <1>0, <2>4, <3>1 DEF FlightInv
    <3>2. CASE m \in out /\ x \in out
      BY <1>5, <2>4, <3>2
    <3> QED BY <1>4, <1>5, <2>1, <2>4, <3>1, <3>2
  <2> QED BY <2>3, <2>4 DEF FlightInv
<1> QED BY <1>7, <1>9, <1>10 DEF OnceInv

\* A member takes the one message that brings it a change; that it forgot what it
\* has committed does no harm.
LEMMA CommitMessageOnce ==
  ASSUME Alias = {}, DiskInv, OnceInv, NEW n \in Node, NEW m \in net, HandleMCommit(n, m)
  PROVE  OnceInv'
<1> DEFINE d == m.dot
           c == m.change
<1>0. TypeOK /\ TasksInv /\ CommitsInv /\ FlightInv /\ AppliedAtMostOnce
  BY DEF DiskInv, OnceInv
<1>1. d \in Dot /\ c \in Change /\ m.type = "MCommit" /\ AddrOf[m.to] = n
  BY <1>0, MessageKinds DEF HandleMCommit, Receives, TypeOK
<1>2. /\ net' = net \ {m}
      /\ UNCHANGED <<cmd, callVars>>
      /\ \/ UNCHANGED <<applied, done>>
         \/ /\ \E ok \in Outcomes(c) : ApplyChange(n, c, ok)
            /\ MarkCommitted(n, d)
  BY DEF HandleMCommit
<1> HIDE DEF d, c
<1>3. CASE UNCHANGED <<applied, done>>
  BY <1>2, <1>3, OnceFrame DEF callVars
<1>4. CASE MarkCommitted(n, d) /\ \E ok \in Outcomes(c) : ApplyChange(n, c, ok)
  <2>1. PICK ok \in Outcomes(c) : ApplyChange(n, c, ok)
    BY <1>4
  <2>2. c \notin Contents(applied[n]) /\ ~Unsent(c)
    BY <1>0, <1>1 DEF FlightInv, Unsent, c
  <2>3. /\ applied' \in [Node -> Seq(Change)]
        /\ \A k \in Node : Contents(applied'[k]) =
             IF k = n /\ ok THEN Contents(applied[k]) \cup {c} ELSE Contents(applied[k])
        /\ AppliedAtMostOnce'
    <3>1. ok \in BOOLEAN
      BY <1>1, OutcomesAre
    <3> QED BY <1>0, <1>1, <2>1, <2>2, <3>1, ApplyFacts
  <2>4. \A k \in Node, e \in Dot : done[k][e] => done'[k][e]
    <3>1. done \in [Node -> [Dot -> BOOLEAN]]
      BY <1>0 DEF TypeOK
    <3>2. done' = done \/ done' = [done EXCEPT ![n][d] = TRUE]
      BY <1>4 DEF MarkCommitted
    <3>3. CASE done' = [done EXCEPT ![n][d] = TRUE]
      BY <1>1, <3>1, <3>3, FlagSet
    <3> QED BY <3>2, <3>3
  <2>5. \A x : Unsent(x) => Unsent(x)'
    <3> SUFFICES ASSUME NEW x, Unsent(x) PROVE Unsent(x)'
      OBVIOUS
    <3> QED BY <1>2, <2>2, <2>3, UnsentKept
  <2>6. CommitsInv'
    <3>1. ASSUME NEW r \in commits', r.at = "marked"
          PROVE  /\ done'[r.node][r.dot] /\ Unsent(cmd[r.node][r.dot])'
                 /\ \A q \in commits' : q.at = "marked" /\ q.dot = r.dot => q = r
      <4>1. r \in commits /\ r.node \in Node /\ r.dot \in Dot /\ commits' = commits
        BY <1>2, TaskFacts DEF callVars
      <4>2. /\ done[r.node][r.dot] /\ Unsent(cmd[r.node][r.dot])
            /\ \A q \in commits : q.at = "marked" /\ q.dot = r.dot => q = r
        BY <1>0, <3>1, <4>1 DEF CommitsInv
      <4> QED BY <1>2, <2>4, <2>5, <4>1, <4>2
    <3>2. ASSUME NEW e \in Dot, Tracked(Home(e), e)', ~done'[Home(e)][e]
          PROVE  Unsent(cmd[Home(e)][e])'
      <4>1. Home(e) \in Node
        BY DotFacts
      <4>2. Unsent(cmd[Home(e)][e])
        BY <1>0, <1>2, <2>4, <3>2, <4>1 DEF CommitsInv, Tracked
      <4> QED BY <1>2, <2>5, <4>2
    <3>3. \A x \in Change : dotOf'[x] = NoDot => Unsent(x)'
      BY <1>0, <1>2, <2>5 DEF CommitsInv, callVars
    <3> QED BY <3>1, <3>2, <3>3 DEF CommitsInv
  <2>7. FlightInv'
    <3>1. ASSUME NEW x \in net', x.type = "MCommit"
          PROVE  /\ x.change \notin Contents(applied'[AddrOf[x.to]])
                 /\ \A y \in net' : y.type = "MCommit" /\ y.change = x.change /\ y.to = x.to => y = x
      <4>1. x \in net /\ x # m /\ AddrOf[x.to] \in Node
        BY <1>0, <1>2, <3>1, MessageKinds, ConstantsOK DEF TypeOK
      <4>2. /\ x.change \notin Contents(applied[AddrOf[x.to]])
            /\ \A y \in net : y.type = "MCommit" /\ y.change = x.change /\ y.to = x.to => y = x
        BY <1>0, <3>1, <4>1 DEF FlightInv
      <4>3. ~(AddrOf[x.to] = n /\ x.change = c)
        <5>1. AddrOf[x.to] = x.to /\ AddrOf[m.to] = m.to
          BY <1>0, <1>1, <3>1, <4>1, MessageKinds, IdsAreNodes DEF TypeOK
        <5> QED BY <1>1, <4>1, <4>2, <5>1 DEF c
      <4> QED BY <1>2, <2>3, <4>1, <4>2, <4>3
    <3> QED BY <3>1 DEF FlightInv
  <2> QED BY <2>3, <2>6, <2>7 DEF OnceInv
<1> QED BY <1>2, <1>3, <1>4

\* Every step keeps the invariant.
LEMMA OnceStep ==
  ASSUME Alias = {}, DiskInv, OnceInv, [NextR]_rvars
  PROVE  OnceInv'
<1>1. ASSUME NEW n \in Node, Restart(n) PROVE OnceInv'
  BY <1>1, RestartOnce
<1>2. CASE Next /\ UNCHANGED restarts
  <2>1. ASSUME NEW n \in Node, NEW c \in Change, Propose(n, c) PROVE OnceInv'
    BY <2>1, ProposeOnce
  <2>2. ASSUME NEW c \in Change, ProposeCheck(c) \/ ProposeTimeout(c) \/ ClientGone(c)
        PROVE  OnceInv'
    <3>1. UNCHANGED <<cmd, done, dotOf, applied, net>>
      BY <2>2 DEF ProposeCheck, ProposeTimeout, ClientGone, stateVars
    <3>2. \A r \in commits' : r.at = "marked" => r \in commits
      BY <2>2 DEF ProposeCheck, ProposeTimeout, ClientGone
    <3> QED BY <3>1, <3>2, OnceFrame
  <2>3. ASSUME NEW r \in commits, Commit(r) PROVE OnceInv'
    BY <2>3, MarkOnce, ApplyOnce DEF Commit
  <2>4. ASSUME NEW n \in Node, NEW m \in net, HandleMCollectAck(n, m) PROVE OnceInv'
    <3>1. UNCHANGED <<cmd, done, dotOf, applied>> /\ net' = net \ {m}
      BY <2>4 DEF HandleMCollectAck
    <3>2. \A r \in commits' : r.at = "marked" => r \in commits
      BY <2>4 DEF HandleMCollectAck
    <3> QED BY <3>1, <3>2, OnceFrame
  <2>5. ASSUME NEW n \in Node, NEW m \in net, HandleClockBump(n, m) PROVE OnceInv'
    BY <2>5, OnceFrame DEF HandleClockBump, stateVars, callVars
  <2>6. ASSUME NEW n \in Node, Handle(n) PROVE OnceInv'
    BY <2>4, <2>5, <2>6, CollectOnce, CommitMessageOnce DEF Handle
  <2>7. ASSUME NEW n \in Node, ClockBump(n) PROVE OnceInv'
    <3>1. PICK t : LET msg == [type |-> "ClockBump", from |-> n, to |-> n, clock |-> t]
                   IN  \E out \in Arriving(Copies(n, msg), FALSE) : net' = net \cup out
      BY <2>7 DEF ClockBump
    <3> DEFINE msg == [type |-> "ClockBump", from |-> n, to |-> n, clock |-> t]
    <3>2. PICK out \in Arriving(Copies(n, msg), FALSE) : net' = net \cup out
      BY <3>1
    <3>3. ASSUME NEW m \in out PROVE m.type = "ClockBump"
      <4>1. m \in Copies(n, msg)
        BY ArrivingAre
      <4>2. PICK k \in members[n] \ {n} : m = [msg EXCEPT !.to = k]
        BY <4>1, Zenon DEF Copies
      <4> QED BY <4>2
    <3> HIDE DEF msg
    <3>4. UNCHANGED <<stateVars, callVars, applied>>
      BY <2>7 DEF ClockBump
    <3> QED BY <3>2, <3>3, <3>4, OnceFrame DEF stateVars, callVars
  <2>8. ASSUME NEW n \in Node, NEW m \in MemberId, AddNode(n, m) \/ RemoveNode(n, m)
        PROVE  OnceInv'
    BY <2>8, OnceFrame DEF AddNode, RemoveNode, stateVars, callVars
  <2> QED BY <1>2, <2>1, <2>2, <2>3, <2>6, <2>7, <2>8 DEF Next
<1>3. CASE UNCHANGED rvars
  BY <1>3, OnceFrame DEF rvars, vars, stateVars, callVars
<1> QED BY <1>1, <1>2, <1>3 DEF NextR

\* A node's store takes a change at most once, although a node that starts again
\* has forgotten what it committed, and numbers new commands as it did old ones
\* (handle_message, commit_command, is_committed, next_sequence).
THEOREM TakenOnceOverRestarts == ASSUME Alias = {} PROVE SpecR => []AppliedAtMostOnce
<1>1. InitR => DiskInv /\ OnceInv
  BY DiskInit, OnceInit
<1>2. DiskInv /\ OnceInv /\ [NextR]_rvars => DiskInv' /\ OnceInv'
  BY DiskStep, OnceStep
<1>3. OnceInv => AppliedAtMostOnce
  BY DEF OnceInv
<1> QED BY <1>1, <1>2, <1>3, PTL DEF SpecR
=============================================================================
