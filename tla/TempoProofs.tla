----------------------------- MODULE TempoProofs ----------------------------
(***************************************************************************)
(* Proofs about Tempo, for any nodes, member lists, quorum sizes, changes, *)
(* clock readings and losses: the inductive invariant IInv, what follows   *)
(* from it, and that the protocol implements Replication.  First facts     *)
(* about the data, then one lemma per action, then the theorems.           *)
(***************************************************************************)
EXTENDS Tempo, FiniteSetTheorems, TLAPS

\* A dot is its coordinator and a sequence number; NoDot is none.
LEMMA DotFacts ==
  /\ \A d \in Dot : Home(d) \in Node /\ d[2] \in 1..MaxSeq /\ d = <<Home(d), d[2]>>
  /\ \A n \in Node, s \in 1..MaxSeq : <<n, s>> \in Dot /\ Home(<<n, s>>) = n
  /\ NoDot \notin Dot
BY DEF Dot, Home, NoDot

\* Finitely many nodes number finitely many commands.
LEMMA DotsFinite == IsFiniteSet(Dot)
<1>1. IsFiniteSet(1..MaxSeq)
  BY ConstantsOK, FS_Interval
<1> QED
  BY <1>1, ConstantsOK, FS_Product DEF Dot

\* The fast quorum is a number, configured or computed from the member list.
LEMMA QuorumIsNumber == \A n \in Node : FastQuorumSize(n) \in Int
<1> TAKE n \in Node
<1>1. CASE FastQuorumOverride # {}
  <2> DEFINE q == CHOOSE x \in FastQuorumOverride : TRUE
  <2>1. q \in FastQuorumOverride
    BY <1>1, Zenon
  <2>2. FastQuorumSize(n) = q
    BY <1>1, Zenon DEF FastQuorumSize
  <2> HIDE DEF q
  <2>3. q \in Int
    BY <2>1, ConstantsOK
  <2> QED BY <2>2, <2>3
<1>2. CASE FastQuorumOverride = {}
  <2>1. Cardinality(InitialMembers[n]) \in Nat
    <3>1. InitialMembers[n] \subseteq Node \cup Alias
      BY ConstantsOK DEF MemberId
    <3>2. IsFiniteSet(Node \cup Alias)
      BY ConstantsOK, FS_Union
    <3> QED BY <3>1, <3>2, FS_Subset, FS_CardinalityType
  <2> QED BY <1>2, <2>1 DEF FastQuorumSize
<1> QED BY <1>1, <1>2

\* A set that has enough acks keeps having them when acks are added.
LEMMA AcksOnlyHelp ==
  ASSUME NEW n \in Node, NEW S, NEW T, S \subseteq T, T \subseteq Node, EnoughAcks(n, S)
  PROVE  EnoughAcks(n, T)
<1>1. /\ IsFiniteSet(T)
      /\ IsFiniteSet(S)
  BY ConstantsOK, FS_Subset
<1>2. Cardinality(S) <= Cardinality(T)
  BY <1>1, FS_Subset
<1>3. Cardinality(S) \in Nat /\ Cardinality(T) \in Nat
  BY <1>1, FS_CardinalityType
<1> QED BY <1>2, <1>3, QuorumIsNumber DEF EnoughAcks

\* A tick passes the clock, an update reaches what was received.
LEMMA ClockFacts ==
  ASSUME NEW a \in Nat, NEW b \in Nat, NEW t \in Nat
  PROVE  /\ Ticked(a, t) \in Nat /\ Ticked(a, t) > a
         /\ Updated(a, b, t) \in Nat /\ Updated(a, b, t) >= a /\ Updated(a, b, t) >= b
BY DEF Ticked, Updated, Larger

\* A reading of the system clock is a number.
LEMMA NowIsNumber == \A now \in PhysicalTime : now \in Nat
BY ConstantsOK

\* The fields a message has by its type.
LEMMA MessageKinds ==
  ASSUME NEW m \in Message
  PROVE  /\ m.from \in Node /\ m.to \in MemberId /\ m.clock \in Nat
         /\ m.type \in {"MCollect", "MCommit"} =>
              /\ m.dot \in Dot /\ m.change \in Change
         /\ m.type = "MCollectAck" => m.dot \in Dot
         /\ m.type \in {"MCollect", "MCommit", "MCollectAck", "ClockBump"}
BY DEF Message

\* Nothing arrives that was not posted.
LEMMA ArrivingAre ==
  ASSUME NEW S, NEW cut, NEW out \in Arriving(S, cut)
  PROVE  out \subseteq S
BY DEF Arriving

\* A broadcast command reaches members unchanged.
LEMMA CommandCopies ==
  ASSUME TypeOK, NEW n \in Node, NEW type \in {"MCollect", "MCommit"}, NEW d \in Dot,
         NEW c \in Change, NEW t \in Nat, NEW cut,
         NEW out \in Arriving(Copies(n, [type |-> type, from |-> n, to |-> n, dot |-> d,
                                         change |-> c, clock |-> t]), cut)
  PROVE  \A m \in out : /\ m \in Message /\ m.type = type /\ m.from = n /\ m.dot = d
                        /\ m.change = c /\ m.clock = t
<1> DEFINE msg == [type |-> type, from |-> n, to |-> n, dot |-> d, change |-> c, clock |-> t]
<1> SUFFICES ASSUME NEW m \in out
             PROVE  /\ m \in Message /\ m.type = type /\ m.from = n /\ m.dot = d
                    /\ m.change = c /\ m.clock = t
  OBVIOUS
<1>1. PICK k \in members[n] : m = [msg EXCEPT !.to = k]
  <2>1. m \in Copies(n, msg)
    BY ArrivingAre
  <2> QED BY <2>1, Zenon DEF Copies
<1>2. k \in MemberId
  BY DEF TypeOK
<1>3. m = [type |-> type, from |-> n, to |-> k, dot |-> d, change |-> c, clock |-> t]
  BY <1>1
<1> QED BY <1>2, <1>3 DEF Message

\* What a store holds after one more change.
LEMMA AppendContents ==
  ASSUME NEW S, NEW s \in Seq(S), NEW e \in S
  PROVE  Contents(Append(s, e)) = Contents(s) \cup {e}
<1>1. /\ DOMAIN Append(s, e) = 1..(Len(s) + 1)
      /\ \A i \in 1..Len(s) : Append(s, e)[i] = s[i]
      /\ Append(s, e)[Len(s) + 1] = e
      /\ DOMAIN s = 1..Len(s) /\ Len(s) \in Nat
  OBVIOUS
<1>2. Contents(s) \cup {e} \subseteq Contents(Append(s, e))
  BY <1>1 DEF Contents
<1>3. Contents(Append(s, e)) \subseteq Contents(s) \cup {e}
  BY <1>1 DEF Contents
<1> QED BY <1>2, <1>3

\* f with one cell changed, cell by cell.
LEMMA CellChange ==
  ASSUME NEW A, NEW B, NEW C, NEW f \in [A -> [B -> C]], NEW a \in A, NEW b \in B,
         NEW v \in C
  PROVE  LET g == [f EXCEPT ![a][b] = v]
         IN  /\ g \in [A -> [B -> C]]
             /\ \A x \in A, y \in B : g[x][y] = IF x = a /\ y = b THEN v ELSE f[x][y]
OBVIOUS

\* A table of flags with one flag raised.
LEMMA FlagSet ==
  ASSUME NEW A, NEW B, NEW f \in [A -> [B -> BOOLEAN]], NEW a \in A, NEW b \in B
  PROVE  LET g == [f EXCEPT ![a][b] = TRUE]
         IN  /\ g \in [A -> [B -> BOOLEAN]]
             /\ \A x \in A, y \in B : g[x][y] <=> f[x][y] \/ (x = a /\ y = b)
OBVIOUS

-----------------------------------------------------------------------------
\* Nodes start with nothing tracked, committed or in flight.
LEMMA InitHolds == Init => IInv
<1> SUFFICES ASSUME Init PROVE IInv
  OBVIOUS
<1> USE DEF Init
<1>1. TypeOK
  <2>1. /\ members \in [Node -> SUBSET MemberId]
        /\ nextSeq \in [Node -> 1..(MaxSeq + 1)]
        /\ lastApplied \in [Node -> 0..MaxSeq]
        /\ memberOps \in 0..MaxMemberOps
    BY ConstantsOK DEF MemberId
  <2>2. clock \in [Node -> Nat] /\ applied \in [Node -> Seq(Change)]
    BY NowIsNumber
  <2>3. /\ cmd \in [Node -> [Dot -> Change \cup {NoChange}]]
        /\ cmdClock \in [Node -> [Dot -> Nat]]
        /\ acks \in [Node -> [Dot -> SUBSET Node]]
        /\ done \in [Node -> [Dot -> BOOLEAN]]
    OBVIOUS
  <2> QED BY <2>1, <2>2, <2>3 DEF TypeOK
<1>2. CallsInv
  BY DEF CallsInv
<1>3. TrackInv
  BY DEF TrackInv, Tracked
<1>4. NetInv
  BY DEF NetInv
<1>5. MarkInv
  BY DotFacts DEF MarkInv
<1>6. RunnerInv
  BY DEF RunnerInv
<1>7. StoreInv
  BY DEF StoreInv, AppliedAtMostOnce, Contents
<1>8. CountIsExact
  BY FS_EmptySet DEF CountIsExact
<1> QED BY <1>1, <1>2, <1>3, <1>4, <1>5, <1>6, <1>7, <1>8 DEF IInv

\* A proposal takes a dot nobody knows and tracks it at its home.
LEMMA ProposeStep ==
  ASSUME IInv, NEW n \in Node, NEW c \in Change, Propose(n, c)
  PROVE  IInv'
<1> DEFINE d == <<n, nextSeq[n]>>
<1>0. TypeOK /\ CallsInv /\ TrackInv /\ NetInv /\ MarkInv /\ RunnerInv /\ StoreInv
      /\ CountIsExact
  BY DEF IInv
<1>1. d \in Dot /\ Home(d) = n /\ d[2] = nextSeq[n] /\ nextSeq[n] \in 1..MaxSeq
  BY <1>0, ConstantsOK, DotFacts DEF Propose, TypeOK
<1>2. PICK now \in PhysicalTime, cut \in BOOLEAN :
        LET t == Ticked(clock[n], now)
            msg == [type |-> "MCollect", from |-> n, to |-> n, dot |-> d,
                    change |-> c, clock |-> t]
        IN  /\ clock' = [clock EXCEPT ![n] = t]
            /\ AddCommand(n, d, c, t)
            /\ acks' = [acks EXCEPT ![n][d] = @ \cup {n}]
            /\ stage' = [stage EXCEPT ![c] = IF cut THEN "gone" ELSE "sent"]
            /\ \E out \in Arriving(Copies(n, msg), cut) : net' = net \cup out
  BY DEF Propose
<1> DEFINE t == Ticked(clock[n], now)
           msg == [type |-> "MCollect", from |-> n, to |-> n, dot |-> d,
                   change |-> c, clock |-> t]
<1>3. t \in Nat /\ t > clock[n]
  BY <1>0, NowIsNumber, ClockFacts DEF TypeOK
<1>4. PICK out \in Arriving(Copies(n, msg), cut) : net' = net \cup out
  BY <1>2
<1>5. /\ clock' = [clock EXCEPT ![n] = t]
      /\ AddCommand(n, d, c, t)
      /\ acks' = [acks EXCEPT ![n][d] = @ \cup {n}]
      /\ stage' = [stage EXCEPT ![c] = IF cut THEN "gone" ELSE "sent"]
  BY <1>2
<1>6. \A m \in out : /\ m \in Message /\ m.type = "MCollect" /\ m.from = n /\ m.dot = d
                      /\ m.change = c /\ m.clock = t
  <2> HIDE DEF d, t
  <2> QED BY <1>0, <1>1, <1>3, CommandCopies
<1>7. /\ nextSeq' = [nextSeq EXCEPT ![n] = @ + 1]
      /\ dotOf' = [dotOf EXCEPT ![c] = d]
      /\ pending' = [pending EXCEPT ![n][d] = c]
      /\ UNCHANGED <<members, done, committedDots, committedCount, lastApplied,
                    commits, reply, applied, memberOps>>
      /\ stage[c] = "new"
  BY DEF Propose, BumpSequence
<1> HIDE DEF d, t, msg
\* The dot is new: nobody tracks, counts or mentions it.
<1>8. /\ \A x \in Change : dotOf[x] # d
      /\ \A k \in Node : ~Tracked(k, d) /\ ~done[k][d] /\ d \notin committedDots[k]
                         /\ acks[k][d] = {} /\ pending[k][d] = NoChange
      /\ \A m \in net : m.type # "ClockBump" => m.dot # d
      /\ \A r \in commits : r.dot # d
  <2>1. ASSUME NEW x \in Change PROVE dotOf[x] # d
    <3>1. dotOf[x] # NoDot => dotOf[x][2] < nextSeq[Home(dotOf[x])]
      BY <1>0 DEF CallsInv
    <3> QED BY <3>1, <1>1, DotFacts
  <2>2. \A k \in Node : ~Tracked(k, d)
    BY <1>0, <1>1, <2>1 DEF TrackInv, Tracked, TypeOK
  <2>3. \A k \in Node : ~done[k][d] /\ d \notin committedDots[k] /\ acks[k][d] = {}
    BY <1>0, <1>1, <2>2 DEF MarkInv, TrackInv, TypeOK
  <2>6. \A k \in Node : pending[k][d] = NoChange
    BY <1>0, <1>1, <2>2 DEF StoreInv, TypeOK, Tracked
  <2>4. \A m \in net : m.type # "ClockBump" => m.dot # d
    BY <1>0, <1>1, <2>1, <2>2, MessageKinds DEF NetInv, TypeOK
  <2>5. \A r \in commits : r.dot # d
    BY <1>0, <1>1, <2>2 DEF RunnerInv
  <2> QED BY <2>1, <2>2, <2>3, <2>4, <2>5, <2>6
\* The next state, cell by cell.
<1>9. /\ cmd' \in [Node -> [Dot -> Change \cup {NoChange}]]
      /\ \A k \in Node, e \in Dot : cmd'[k][e] = IF k = n /\ e = d THEN c ELSE cmd[k][e]
  <2>1. cmd' = [cmd EXCEPT ![n][d] = c]
    BY <1>1, <1>5, <1>8 DEF AddCommand
  <2>2. cmd \in [Node -> [Dot -> Change \cup {NoChange}]] /\ c \in Change \cup {NoChange}
    BY <1>0 DEF TypeOK
  <2> QED BY <1>1, <2>1, <2>2, CellChange
<1>10. /\ cmdClock' \in [Node -> [Dot -> Nat]]
       /\ \A k \in Node, e \in Dot :
            cmdClock'[k][e] = IF k = n /\ e = d THEN t ELSE cmdClock[k][e]
  <2>1. cmdClock' = [cmdClock EXCEPT ![n][d] = t]
    BY <1>1, <1>5, <1>8 DEF AddCommand
  <2>2. cmdClock \in [Node -> [Dot -> Nat]]
    BY <1>0 DEF TypeOK
  <2> QED BY <1>1, <1>3, <2>1, <2>2, CellChange
<1>11. /\ acks' \in [Node -> [Dot -> SUBSET Node]]
       /\ \A k \in Node, e \in Dot : acks'[k][e] = IF k = n /\ e = d THEN {n} ELSE acks[k][e]
  <2>1. acks' = [acks EXCEPT ![n][d] = {n}]
    BY <1>0, <1>1, <1>5, <1>8 DEF TypeOK
  <2>2. acks \in [Node -> [Dot -> SUBSET Node]] /\ {n} \in SUBSET Node
    BY <1>0 DEF TypeOK
  <2> QED BY <1>1, <2>1, <2>2, CellChange
<1>25. /\ pending' \in [Node -> [Dot -> Change \cup {NoChange}]]
       /\ \A k \in Node, e \in Dot :
            pending'[k][e] = IF k = n /\ e = d THEN c ELSE pending[k][e]
  <2>1. pending \in [Node -> [Dot -> Change \cup {NoChange}]] /\ c \in Change \cup {NoChange}
    BY <1>0 DEF TypeOK
  <2> QED BY <1>1, <1>7, <2>1, CellChange
<1>12. /\ clock' \in [Node -> Nat] /\ clock'[n] = t
       /\ \A k \in Node : clock'[k] >= clock[k]
  BY <1>0, <1>5, <1>3 DEF TypeOK
<1>13. dotOf[c] = NoDot /\ reply[c] = "none"
  BY <1>0, <1>7 DEF CallsInv, TypeOK
<1>14. /\ dotOf' \in [Change -> Dot \cup {NoDot}]
       /\ \A x \in Change : dotOf'[x] = IF x = c THEN d ELSE dotOf[x]
  BY <1>0, <1>1, <1>7 DEF TypeOK
<1>15. \A k \in Node, e \in Dot : Tracked(k, e)' <=> Tracked(k, e) \/ (k = n /\ e = d)
  BY <1>0, <1>9, ConstantsOK DEF TypeOK, Tracked
<1>16. \A e \in Dot : /\ e = d => cmdClock'[Home(e)][e] = t
                      /\ e # d => cmdClock'[Home(e)][e] = cmdClock[Home(e)][e]
  BY <1>1, <1>10, DotFacts
<1>17. TypeOK'
  <2>1. nextSeq' \in [Node -> 1..(MaxSeq + 1)]
    BY <1>0, <1>1, <1>7, ConstantsOK DEF TypeOK
  <2>2. net' \subseteq Message
    BY <1>0, <1>4, <1>6 DEF TypeOK
  <2>3. stage' \in [Change -> {"new", "sent", "committing", "waiting", "gone"}]
    BY <1>0, <1>5 DEF TypeOK
  <2>4. pending' \in [Node -> [Dot -> Change \cup {NoChange}]]
    BY <1>25
  <2> QED BY <1>0, <1>9, <1>10, <1>11, <1>12, <1>7, <1>14, <2>1, <2>2, <2>3, <2>4 DEF TypeOK
<1>18. CallsInv'
  <2> SUFFICES ASSUME NEW x \in Change
               PROVE  /\ stage'[x] = "new" <=> dotOf'[x] = NoDot
                      /\ dotOf'[x] # NoDot => /\ dotOf'[x][2] < nextSeq'[Home(dotOf'[x])]
                                              /\ cmd'[Home(dotOf'[x])][dotOf'[x]] = x
                      /\ reply'[x] # "none" => dotOf'[x] # NoDot
    BY DEF CallsInv, Truth
  <2>1. CASE x = c
    <3>1. dotOf'[x] = d /\ stage'[x] # "new" /\ reply'[x] = "none" /\ cmd'[n][d] = x
      BY <1>0, <1>1, <1>5, <1>9, <1>7, <1>13, <1>14, <2>1 DEF TypeOK
    <3>2. d[2] < nextSeq'[n]
      BY <1>0, <1>1, <1>7 DEF TypeOK
    <3> QED BY <1>1, <3>1, <3>2, DotFacts
  <2>2. CASE x # c
    <3>1. dotOf'[x] = dotOf[x] /\ stage'[x] = stage[x] /\ reply'[x] = reply[x]
      BY <1>0, <1>5, <1>7, <1>14, <2>2 DEF TypeOK
    <3>2. ASSUME dotOf[x] # NoDot
          PROVE  /\ dotOf[x][2] < nextSeq'[Home(dotOf[x])]
                 /\ cmd'[Home(dotOf[x])][dotOf[x]] = x
      <4>1. dotOf[x] \in Dot /\ dotOf[x] # d
        BY <1>0, <1>8, <3>2 DEF TypeOK
      <4>2. dotOf[x][2] < nextSeq[Home(dotOf[x])] /\ cmd[Home(dotOf[x])][dotOf[x]] = x
        BY <1>0, <3>2 DEF CallsInv, Truth
      <4>3. \A k \in Node : nextSeq'[k] \in Int /\ nextSeq'[k] >= nextSeq[k]
        BY <1>0, <1>7, ConstantsOK DEF TypeOK
      <4> QED BY <1>0, <1>9, <4>1, <4>2, <4>3, DotFacts DEF TypeOK
    <3> QED BY <1>0, <3>1, <3>2 DEF CallsInv
  <2> QED BY <2>1, <2>2
<1>19. TrackInv'
  <2> SUFFICES ASSUME NEW k \in Node, NEW e \in Dot
               PROVE  /\ Tracked(k, e)' => /\ dotOf'[cmd'[k][e]] = e
                                           /\ cmdClock'[k][e] = cmdClock'[Home(e)][e]
                                           /\ clock'[k] >= cmdClock'[k][e]
                      /\ \A j \in acks'[k][e] : Tracked(j, e)'
    BY DEF TrackInv
  <2>1. CASE e = d
    <3>1. Tracked(k, e)' => k = n
      BY <1>8, <1>15, <2>1
    <3>2. acks'[k][e] \subseteq {n} /\ Tracked(n, e)'
      BY <1>8, <1>11, <1>15, <2>1
    <3> QED BY <1>1, <1>3, <1>9, <1>10, <1>12, <1>14, <2>1, <3>1, <3>2
  <2>2. CASE e # d
    <3>1. cmd'[k][e] = cmd[k][e] /\ acks'[k][e] = acks[k][e]
          /\ cmdClock'[k][e] = cmdClock[k][e]
      BY <1>9, <1>10, <1>11, <2>2
    <3>2. ASSUME Tracked(k, e)
          PROVE  dotOf'[cmd[k][e]] = e /\ cmdClock[k][e] = cmdClock[Home(e)][e]
                 /\ clock'[k] >= cmdClock[k][e]
      <4>1. cmd[k][e] \in Change /\ dotOf[cmd[k][e]] = e
        BY <1>0, <3>2 DEF TrackInv, TypeOK, Tracked
      <4>2. cmd[k][e] # c
        BY <1>13, <4>1, DotFacts
      <4>3. cmdClock[k][e] = cmdClock[Home(e)][e] /\ clock[k] >= cmdClock[k][e]
        BY <1>0, <3>2 DEF TrackInv
      <4>4. clock'[k] \in Nat /\ clock[k] \in Nat /\ cmdClock[k][e] \in Nat
        BY <1>0, <1>12 DEF TypeOK
      <4>5. clock'[k] >= cmdClock[k][e]
        BY <1>12, <4>3, <4>4
      <4> QED BY <1>14, <4>1, <4>2, <4>3, <4>5
    <3>3. \A j \in acks[k][e] : Tracked(j, e)
      BY <1>0 DEF TrackInv
    <3> QED BY <1>0, <1>15, <1>16, <2>2, <3>1, <3>2, <3>3 DEF TypeOK, Tracked
  <2> QED BY <2>1, <2>2
<1>20. NetInv'
  <2> SUFFICES ASSUME NEW m \in net'
               PROVE  /\ m.type \in {"MCollect", "MCommit"} =>
                           /\ dotOf'[m.change] = m.dot
                           /\ m.from = Home(m.dot)
                           /\ m.clock = cmdClock'[Home(m.dot)][m.dot]
                      /\ m.type = "MCommit" => done'[Home(m.dot)][m.dot]
                      /\ m.type = "MCollectAck" =>
                           /\ Tracked(m.from, m.dot)'
                           /\ m.to = Home(m.dot)
                           /\ m.clock > cmdClock'[Home(m.dot)][m.dot]
    BY DEF NetInv
  <2>1. CASE m \in out
    BY <1>1, <1>10, <1>6, <1>14, <2>1
  <2>2. CASE m \in net
    <3>1. m \in Message
      BY <1>0, <2>2 DEF TypeOK
    <3>2. m.type # "ClockBump" => m.dot \in Dot /\ m.dot # d
      BY <1>8, <2>2, <3>1, MessageKinds
    <3>3. ASSUME m.type \in {"MCollect", "MCommit"}
          PROVE  dotOf'[m.change] = m.dot
      <4>1. m.change \in Change /\ dotOf[m.change] = m.dot
        BY <1>0, <2>2, <3>1, <3>3, MessageKinds DEF NetInv
      <4>2. m.change # c
        BY <1>13, <3>2, <3>3, <4>1, DotFacts
      <4> QED BY <1>14, <4>1, <4>2
    <3> QED BY <1>0, <1>7, <1>15, <1>16, <2>2, <3>1, <3>2, <3>3, MessageKinds DEF NetInv
  <2> QED BY <1>4, <2>1, <2>2
<1>21. MarkInv'
  <2> SUFFICES ASSUME NEW k \in Node, NEW e \in Dot
               PROVE  /\ done[k][e] => Tracked(k, e)' /\ e \in committedDots[k]
                      /\ e \in committedDots[k] => /\ done[Home(e)][e]
                                                   /\ clock'[k] >= cmdClock'[Home(e)][e]
                      /\ done[Home(e)][e] => EnoughAcks(Home(e), acks'[Home(e)][e])
    BY <1>7 DEF MarkInv, EnoughAcks
  <2>1. CASE e = d
    BY <1>8, <2>1, DotFacts
  <2>2. CASE e # d
    <3>1. clock'[k] >= clock[k] /\ clock'[k] \in Int /\ clock[k] \in Int
          /\ cmdClock[Home(e)][e] \in Int
      BY <1>0, <1>12, DotFacts DEF TypeOK
    <3>2. acks'[Home(e)][e] = acks[Home(e)][e]
      BY <1>11, <2>2, DotFacts
    <3> QED BY <1>0, <1>15, <1>16, <2>2, <3>1, <3>2 DEF MarkInv
  <2> QED BY <2>1, <2>2
<1>22. RunnerInv'
  <2> SUFFICES ASSUME NEW r \in commits
               PROVE  /\ r.node = Home(r.dot)
                      /\ Tracked(r.node, r.dot)'
                      /\ EnoughAcks(r.node, acks'[r.node][r.dot])
                      /\ r.at = "marked" => /\ done[r.node][r.dot]
                                            /\ cmd'[r.node][r.dot] \notin Contents(applied[r.node])
                      /\ r.task \in Change => r.task = cmd'[r.node][r.dot]
    BY <1>0, <1>7 DEF RunnerInv, EnoughAcks
  <2>1. r.node \in Node /\ r.dot \in Dot /\ r.dot # d
    BY <1>0, <1>8 DEF TypeOK, Runner
  <2> QED BY <1>0, <1>9, <1>11, <1>15, <2>1 DEF RunnerInv
<1>23. StoreInv'
  <2>1. \A x \in Change : dotOf[x] # NoDot => dotOf'[x] = dotOf[x]
    BY <1>13, <1>14
  <2>2. \A k \in Node : \A x \in Contents(applied[k]) :
          x \in Change /\ dotOf[x] # NoDot /\ dotOf[x] \in committedDots[k]
    BY <1>0 DEF StoreInv, TypeOK, Contents
  <2>3. AppliedAtMostOnce'
    BY <1>0, <1>7 DEF StoreInv, AppliedAtMostOnce
  <2>4. \A x \in Change : reply[x] = "ok" => x \in Contents(applied[Home(dotOf[x])])
                                             /\ dotOf[x] # NoDot
    BY <1>0 DEF StoreInv, CallsInv
  <2>5. ASSUME NEW k \in Node, NEW e \in Dot, pending'[k][e] # NoChange
        PROVE  Home(e) = k /\ pending'[k][e] = cmd'[k][e] /\ reply[cmd'[k][e]] = "none"
    <3>1. CASE e # d
      <4>1. pending'[k][e] = pending[k][e] /\ cmd'[k][e] = cmd[k][e]
        BY <1>9, <1>25, <3>1
      <4> QED BY <1>0, <2>5, <4>1 DEF StoreInv
    <3>2. CASE e = d
      <4>1. k = n
        BY <1>8, <1>25, <2>5, <3>2
      <4> QED BY <1>1, <1>9, <1>13, <1>25, <3>2, <4>1
    <3> QED BY <3>1, <3>2
  <2> QED BY <1>7, <2>1, <2>2, <2>3, <2>4, <2>5 DEF StoreInv, Contents
<1>24. CountIsExact'
  BY <1>0, <1>7 DEF CountIsExact
<1> QED BY <1>17, <1>18, <1>19, <1>20, <1>21, <1>22, <1>23, <1>24 DEF IInv

-----------------------------------------------------------------------------
(* Frames: the parts of the invariant a step cannot disturb.                *)

\* Calls that keep their dots and replies.
LEMMA CallsFrame ==
  ASSUME CallsInv, UNCHANGED <<cmd, dotOf, nextSeq, reply>>,
         \A x \in Change : stage'[x] = "new" <=> stage[x] = "new"
  PROVE  CallsInv'
BY DEF CallsInv, Truth

\* Clocks only rise, nobody's commands or marks change.
LEMMA StateFrame ==
  ASSUME TypeOK, TrackInv, MarkInv, UNCHANGED <<stateVars, dotOf>>,
         clock' \in [Node -> Nat], \A k \in Node : clock'[k] >= clock[k]
  PROVE  TrackInv' /\ MarkInv'
<1> USE DEF stateVars
<1>1. \A k \in Node, e \in Dot : /\ clock[k] \in Int /\ clock'[k] \in Int
                                 /\ cmdClock[k][e] \in Int /\ cmdClock[Home(e)][e] \in Int
  BY DotFacts DEF TypeOK
<1>2. TrackInv'
  BY <1>1 DEF TrackInv, Tracked
<1>3. MarkInv'
  BY <1>1, DotFacts DEF MarkInv, Tracked, EnoughAcks
<1> QED BY <1>2, <1>3

\* Messages that only disappear, or clock bumps that come.
LEMMA NetFrame ==
  ASSUME NetInv, UNCHANGED <<stateVars, dotOf>>,
         \A m \in net' : m \in net \/ m.type = "ClockBump"
  PROVE  NetInv'
BY DEF NetInv, stateVars, Tracked

\* Commits that neither start nor end, over unchanged stores.
LEMMA RunnerFrame ==
  ASSUME RunnerInv, UNCHANGED <<stateVars, applied, commits>>
  PROVE  RunnerInv'
BY DEF RunnerInv, stateVars, Tracked, EnoughAcks

\* Stores, replies and waiting channels left alone.
LEMMA StoreFrame ==
  ASSUME StoreInv, CountIsExact, UNCHANGED <<stateVars, dotOf, applied, reply, pending>>
  PROVE  StoreInv' /\ CountIsExact'
BY DEF StoreInv, AppliedAtMostOnce, CountIsExact, stateVars, Tracked

\* A stuttering step.
LEMMA UnchangedStep == ASSUME IInv, UNCHANGED vars PROVE IInv'
<1>1. TypeOK'
  BY DEF IInv, TypeOK, vars, stateVars, callVars
<1>2. clock' \in [Node -> Nat] /\ \A k \in Node : clock'[k] >= clock[k]
  BY DEF IInv, TypeOK, vars
<1>3. CallsInv'
  BY CallsFrame DEF IInv, vars, callVars, stateVars
<1>4. UNCHANGED <<stateVars, dotOf, net, applied, commits, reply, pending>>
  BY DEF vars, callVars
<1>5. TrackInv' /\ MarkInv'
  BY <1>2, <1>4, StateFrame DEF IInv
<1>6. NetInv' /\ RunnerInv' /\ StoreInv' /\ CountIsExact'
  BY <1>4, NetFrame, RunnerFrame, StoreFrame DEF IInv
<1> QED BY <1>1, <1>3, <1>5, <1>6 DEF IInv

\* Changing a member list touches nothing the invariant speaks of.
LEMMA MemberStep ==
  ASSUME IInv, NEW n \in Node, NEW m \in MemberId, AddNode(n, m) \/ RemoveNode(n, m)
  PROVE  IInv'
<1>1. UNCHANGED <<clock, stateVars, callVars, applied, net>>
  BY DEF AddNode, RemoveNode
<1>2. TypeOK'
  <2>1. members' \in [Node -> SUBSET MemberId]
    <3>1. members[n] \cup {m} \in SUBSET MemberId /\ members[n] \ {m} \in SUBSET MemberId
      BY DEF IInv, TypeOK
    <3> QED BY <3>1 DEF AddNode, RemoveNode, IInv, TypeOK
  <2>2. memberOps' \in 0..MaxMemberOps
    BY ConstantsOK DEF AddNode, RemoveNode, IInv, TypeOK
  <2> QED BY <1>1, <2>1, <2>2 DEF IInv, TypeOK, stateVars, callVars
<1>3. clock' \in [Node -> Nat] /\ \A k \in Node : clock'[k] >= clock[k]
  BY <1>1 DEF IInv, TypeOK
<1>4. CallsInv'
  BY <1>1, CallsFrame DEF IInv, callVars, stateVars
<1>5. UNCHANGED <<stateVars, dotOf, net, applied, commits, reply, pending>>
  BY <1>1 DEF callVars
<1>6. TrackInv' /\ MarkInv'
  BY <1>3, <1>5, StateFrame DEF IInv
<1>7. NetInv' /\ RunnerInv' /\ StoreInv' /\ CountIsExact'
  BY <1>5, NetFrame, RunnerFrame, StoreFrame DEF IInv
<1> QED BY <1>2, <1>4, <1>6, <1>7 DEF IInv

\* The periodic task raises its clock and posts bumps.
LEMMA ClockBumpStep ==
  ASSUME IInv, NEW n \in Node, ClockBump(n)
  PROVE  IInv'
<1>0. TypeOK
  BY DEF IInv
<1>1. PICK now \in PhysicalTime :
        LET t == Ticked(clock[n], now)
            msg == [type |-> "ClockBump", from |-> n, to |-> n, clock |-> t]
        IN  /\ clock' = [clock EXCEPT ![n] = t]
            /\ \E out \in Arriving(Copies(n, msg), FALSE) : net' = net \cup out
  BY DEF ClockBump
<1> DEFINE t == Ticked(clock[n], now)
           msg == [type |-> "ClockBump", from |-> n, to |-> n, clock |-> t]
<1>2. t \in Nat /\ t > clock[n]
  BY <1>0, NowIsNumber, ClockFacts DEF TypeOK
<1>3. clock' = [clock EXCEPT ![n] = t]
  BY <1>1
<1>4. PICK out \in Arriving(Copies(n, msg), FALSE) : net' = net \cup out
  BY <1>1
<1>5. \A m \in out : m \in Message /\ m.type = "ClockBump"
  <2> SUFFICES ASSUME NEW m \in out PROVE m \in Message /\ m.type = "ClockBump"
    OBVIOUS
  <2> HIDE DEF t
  <2>1. PICK k \in members[n] : m = [msg EXCEPT !.to = k]
    <3>1. m \in Copies(n, msg)
      BY ArrivingAre
    <3> QED BY <3>1, Zenon DEF Copies
  <2>2. k \in MemberId
    BY <1>0 DEF TypeOK
  <2>3. m = [type |-> "ClockBump", from |-> n, to |-> k, clock |-> t]
    BY <2>1
  <2> QED BY <1>2, <2>2, <2>3 DEF Message
<1> HIDE DEF t, msg
<1>6. UNCHANGED <<members, stateVars, callVars, applied, memberOps>>
  BY DEF ClockBump
<1>7. clock' \in [Node -> Nat] /\ \A k \in Node : clock'[k] >= clock[k]
  BY <1>0, <1>2, <1>3 DEF TypeOK
<1>8. TypeOK'
  BY <1>0, <1>4, <1>5, <1>6, <1>7 DEF TypeOK, stateVars, callVars
<1>9. CallsInv'
  BY <1>6, CallsFrame DEF IInv, callVars, stateVars
<1>10. TrackInv' /\ MarkInv'
  BY <1>6, <1>7, StateFrame DEF IInv, callVars
<1>11. NetInv'
  BY <1>4, <1>5, <1>6, NetFrame DEF IInv, callVars
<1>12. RunnerInv' /\ StoreInv' /\ CountIsExact'
  BY <1>6, RunnerFrame, StoreFrame DEF IInv, callVars
<1> QED BY <1>8, <1>9, <1>10, <1>11, <1>12 DEF IInv

\* A received bump raises the clock.
LEMMA HandleClockBumpStep ==
  ASSUME IInv, NEW n \in Node, NEW m \in net, HandleClockBump(n, m)
  PROVE  IInv'
<1>0. TypeOK
  BY DEF IInv
<1>1. UNCHANGED <<members, stateVars, callVars, applied, memberOps>> /\ net' = net \ {m}
  BY DEF HandleClockBump
<1>2. PICK now \in PhysicalTime : clock' = [clock EXCEPT ![n] = Updated(@, m.clock, now)]
  BY DEF HandleClockBump
<1>3. m.clock \in Nat
  BY <1>0, MessageKinds DEF TypeOK
<1>4. clock' \in [Node -> Nat] /\ \A k \in Node : clock'[k] >= clock[k]
  <2>1. Updated(clock[n], m.clock, now) \in Nat /\ Updated(clock[n], m.clock, now) >= clock[n]
    BY <1>0, <1>3, NowIsNumber, ClockFacts DEF TypeOK
  <2> QED BY <1>0, <1>2, <2>1 DEF TypeOK
<1>5. TypeOK'
  BY <1>0, <1>1, <1>4 DEF TypeOK, stateVars, callVars
<1>6. CallsInv'
  BY <1>1, CallsFrame DEF IInv, callVars, stateVars
<1>7. TrackInv' /\ MarkInv'
  BY <1>1, <1>4, StateFrame DEF IInv, callVars
<1>8. NetInv' /\ RunnerInv' /\ StoreInv' /\ CountIsExact'
  BY <1>1, NetFrame, RunnerFrame, StoreFrame DEF IInv, callVars
<1> QED BY <1>5, <1>6, <1>7, <1>8 DEF IInv

\* The call's own check may start a commit that has its acks.
LEMMA ProposeCheckStep ==
  ASSUME IInv, NEW c \in Change, ProposeCheck(c)
  PROVE  IInv'
<1> DEFINE d == dotOf[c]
           n == Home(d)
           r == [task |-> c, node |-> n, dot |-> d, at |-> "decided"]
<1>0. TypeOK /\ CallsInv /\ RunnerInv
  BY DEF IInv
<1>1. d \in Dot /\ n \in Node /\ cmd[n][d] = c
  <2>1. d # NoDot
    BY <1>0 DEF ProposeCheck, CallsInv
  <2>2. d \in Dot
    BY <1>0, <2>1 DEF TypeOK
  <2> QED BY <1>0, <2>1, <2>2, DotFacts DEF CallsInv, Truth
<1>2. UNCHANGED <<members, clock, stateVars, nextSeq, pending, dotOf, reply, applied, net,
                  memberOps>>
  BY DEF ProposeCheck
<1>3. /\ stage[c] = "sent"
      /\ stage' \in [Change -> {"new", "sent", "committing", "waiting", "gone"}]
      /\ \A x \in Change : stage'[x] = "new" <=> stage[x] = "new"
  BY <1>0 DEF ProposeCheck, TypeOK
<1>4. \/ commits' = commits
      \/ EnoughAcks(n, acks[n][d]) /\ commits' = commits \cup {r}
  BY DEF ProposeCheck
<1>5. r \in Runner
  BY <1>1 DEF Runner
<1>6. TypeOK'
  BY <1>0, <1>2, <1>3, <1>4, <1>5 DEF TypeOK, stateVars
<1>7. RunnerInv'
  <2>1. CASE commits' = commits
    BY <1>0, <1>2, <2>1, RunnerFrame
  <2>2. CASE EnoughAcks(n, acks[n][d]) /\ commits' = commits \cup {r}
    <3>1. /\ r.node = Home(r.dot) /\ Tracked(r.node, r.dot)
          /\ EnoughAcks(r.node, acks[r.node][r.dot])
          /\ r.at = "decided" /\ r.task = cmd[r.node][r.dot]
      BY <1>1, <2>2, ConstantsOK DEF Tracked
    <3> HIDE DEF r, n, d
    <3> QED BY <1>0, <1>2, <2>2, <3>1 DEF RunnerInv, stateVars, Tracked, EnoughAcks
  <2> QED BY <1>4, <2>1, <2>2
<1>8. clock' \in [Node -> Nat] /\ \A k \in Node : clock'[k] >= clock[k]
  BY <1>0, <1>2 DEF TypeOK
<1> QED
  BY <1>2, <1>3, <1>6, <1>7, <1>8, CallsFrame, StateFrame, NetFrame, StoreFrame
  DEF IInv, stateVars

\* A client that hangs up leaves the command where it is.
LEMMA ClientGoneStep ==
  ASSUME IInv, NEW c \in Change, ClientGone(c)
  PROVE  IInv'
<1>0. TypeOK
  BY DEF IInv
<1>1. /\ UNCHANGED <<members, clock, stateVars, nextSeq, pending, commits, dotOf, reply,
                     applied, net, memberOps>>
      /\ stage' \in [Change -> {"new", "sent", "committing", "waiting", "gone"}]
      /\ \A x \in Change : stage'[x] = "new" <=> stage[x] = "new"
  BY <1>0 DEF ClientGone, TypeOK
<1>2. TypeOK'
  BY <1>0, <1>1 DEF TypeOK, stateVars
<1>3. clock' \in [Node -> Nat] /\ \A k \in Node : clock'[k] >= clock[k]
  BY <1>0, <1>1 DEF TypeOK
<1> QED
  BY <1>1, <1>2, <1>3, CallsFrame, StateFrame, NetFrame, RunnerFrame, StoreFrame
  DEF IInv, stateVars

\* A timeout withdraws the response channel and nothing else.
LEMMA ProposeTimeoutStep ==
  ASSUME IInv, NEW c \in Change, ProposeTimeout(c)
  PROVE  IInv'
<1> DEFINE d == dotOf[c]
<1>0. TypeOK /\ CallsInv /\ TrackInv /\ StoreInv /\ CountIsExact
  BY DEF IInv
<1>1. d \in Dot /\ Home(d) \in Node
  <2>1. d # NoDot
    BY <1>0 DEF ProposeTimeout, CallsInv
  <2> QED BY <1>0, <2>1, DotFacts DEF TypeOK
<1>2. /\ UNCHANGED <<members, clock, stateVars, nextSeq, commits, stage, dotOf, applied, net,
                     memberOps>>
      /\ reply[c] = "none" /\ stage[c] = "waiting"
      /\ reply' = [reply EXCEPT ![c] = "timeout"]
      /\ pending' = [pending EXCEPT ![Home(d)][d] = NoChange]
  BY DEF ProposeTimeout
<1>3. TypeOK'
  BY <1>0, <1>1, <1>2 DEF TypeOK, stateVars
<1>4. clock' \in [Node -> Nat] /\ \A k \in Node : clock'[k] >= clock[k]
  BY <1>0, <1>2 DEF TypeOK
<1>5. CallsInv'
  BY <1>0, <1>2 DEF CallsInv, Truth, stateVars, TypeOK
<1>6. StoreInv' /\ CountIsExact'
  <2>1. ASSUME NEW k \in Node, NEW e \in Dot, pending'[k][e] # NoChange
        PROVE  /\ pending'[k][e] = pending[k][e] /\ Home(e) = k
               /\ pending[k][e] = cmd[k][e] /\ reply'[cmd[k][e]] = "none"
    <3>1. pending'[k][e] = pending[k][e] /\ ~(k = Home(d) /\ e = d)
      <4>1. pending \in [Node -> [Dot -> Change \cup {NoChange}]]
            /\ NoChange \in Change \cup {NoChange}
        BY <1>0 DEF TypeOK
      <4> QED BY <1>1, <1>2, <2>1, <4>1, CellChange
    <3>2. /\ Home(e) = k /\ pending[k][e] = cmd[k][e] /\ reply[cmd[k][e]] = "none"
          /\ cmd[k][e] \in Change /\ dotOf[cmd[k][e]] = e
      BY <1>0, <2>1, <3>1 DEF StoreInv, TrackInv, Tracked, TypeOK
    <3>3. cmd[k][e] # c
      BY <3>1, <3>2
    <3> QED BY <1>0, <1>2, <3>1, <3>2, <3>3 DEF TypeOK
  <2>2. \A x \in Change : reply'[x] = "ok" => reply[x] = "ok"
    BY <1>0, <1>2 DEF TypeOK
  <2> QED
    BY <1>0, <1>2, <2>1, <2>2
    DEF StoreInv, AppliedAtMostOnce, CountIsExact, stateVars, Tracked
<1> QED
  BY <1>2, <1>3, <1>4, <1>5, <1>6, StateFrame, NetFrame, RunnerFrame DEF IInv

\* What the invariant says of a running commit.
LEMMA RunnerFacts ==
  ASSUME IInv, NEW r \in commits
  PROVE  /\ r.node \in Node /\ r.dot \in Dot /\ r.node = Home(r.dot)
         /\ r.at \in {"decided", "marked"} /\ r \in Runner
         /\ cmd[r.node][r.dot] \in Change /\ dotOf[cmd[r.node][r.dot]] = r.dot
         /\ r.task \in Change => r.task = cmd[r.node][r.dot]
<1>1. r \in Runner
  BY DEF IInv, TypeOK
<1>2. r.node \in Node /\ r.dot \in Dot /\ r.at \in {"decided", "marked"}
  BY <1>1 DEF Runner
<1> QED BY <1>1, <1>2 DEF IInv, RunnerInv, TrackInv, Tracked, TypeOK

\* A task that ends its commit goes back to wait for its response, or is dropped.
LEMMA BackToWaiting ==
  ASSUME IInv, NEW r \in commits, NEW s \in {"waiting", "gone"},
         stage' = IF r.task \in Change THEN [stage EXCEPT ![r.task] = s] ELSE stage
  PROVE  /\ stage' \in [Change -> {"new", "sent", "committing", "waiting", "gone"}]
         /\ \A x \in Change : stage'[x] = "new" <=> stage[x] = "new"
<1>1. stage' \in [Change -> {"new", "sent", "committing", "waiting", "gone"}]
  BY DEF IInv, TypeOK
<1>2. r.task \in Change => stage[r.task] # "new"
  BY RunnerFacts, DotFacts DEF IInv, CallsInv
<1> QED BY <1>1, <1>2 DEF IInv, TypeOK

\* Marking a dot the node has not committed yet.
LEMMA MarkFacts ==
  ASSUME TypeOK, CountIsExact, NEW n \in Node, NEW d \in Dot,
         d \notin committedDots[n], ~done[n][d], MarkCommitted(n, d)
  PROVE  /\ committedDots' \in [Node -> SUBSET Dot]
         /\ \A k \in Node : committedDots'[k] =
              IF k = n THEN committedDots[k] \cup {d} ELSE committedDots[k]
         /\ committedCount' \in [Node -> Nat] /\ lastApplied' \in [Node -> 0..MaxSeq]
         /\ done' \in [Node -> [Dot -> BOOLEAN]]
         /\ \A k \in Node, e \in Dot :
              done'[k][e] <=> done[k][e] \/ (k = n /\ e = d /\ Tracked(n, d))
         /\ CountIsExact'
<1>1. /\ committedDots' = [committedDots EXCEPT ![n] = @ \cup {d}]
      /\ committedCount' = [committedCount EXCEPT ![n] = @ + 1]
      /\ done' = IF Tracked(n, d) THEN [done EXCEPT ![n][d] = TRUE] ELSE done
      /\ lastApplied' = IF Tracked(n, d) /\ Home(d) = n
                        THEN [lastApplied EXCEPT ![n] = Larger(@, d[2])] ELSE lastApplied
  BY DEF MarkCommitted
<1>2. /\ committedDots' \in [Node -> SUBSET Dot] /\ committedCount' \in [Node -> Nat]
      /\ \A k \in Node : committedDots'[k] =
              IF k = n THEN committedDots[k] \cup {d} ELSE committedDots[k]
  <2>1. committedDots \in [Node -> SUBSET Dot] /\ committedCount \in [Node -> Nat]
    BY DEF TypeOK
  <2>2. /\ committedDots' \in [Node -> SUBSET Dot]
        /\ \A k \in Node : committedDots'[k] =
              IF k = n THEN committedDots[k] \cup {d} ELSE committedDots[k]
    BY <1>1, <2>1
  <2>3. committedCount' \in [Node -> Nat]
    BY <1>1, <2>1
  <2> QED BY <2>2, <2>3
<1>3. /\ done' \in [Node -> [Dot -> BOOLEAN]]
      /\ \A k \in Node, e \in Dot :
              done'[k][e] <=> done[k][e] \/ (k = n /\ e = d /\ Tracked(n, d))
  <2>1. done \in [Node -> [Dot -> BOOLEAN]]
    BY DEF TypeOK
  <2>2. CASE Tracked(n, d)
    BY <1>1, <2>1, <2>2, FlagSet
  <2>3. CASE ~Tracked(n, d)
    <3>1. done' = done
      BY <1>1, <2>3
    <3> QED BY <2>1, <2>3, <3>1
  <2> QED BY <2>2, <2>3
<1>4. lastApplied' \in [Node -> 0..MaxSeq]
  <2>1. Larger(lastApplied[n], d[2]) \in 0..MaxSeq
    BY DotFacts, ConstantsOK DEF TypeOK, Larger
  <2> QED BY <1>1, <2>1 DEF TypeOK
<1>5. CountIsExact'
  <2>1. IsFiniteSet(committedDots[n])
    BY DotsFinite, FS_Subset DEF TypeOK
  <2>2. Cardinality(committedDots[n] \cup {d}) = Cardinality(committedDots[n]) + 1
    BY <2>1, FS_AddElement
  <2> QED BY <1>1, <1>2, <2>2 DEF CountIsExact, TypeOK
<1> QED BY <1>2, <1>3, <1>4, <1>5

\* The mark is set once, by the first of the tasks that found the quorum.
LEMMA CommitMarkStep ==
  ASSUME IInv, NEW r \in commits, CommitMark(r)
  PROVE  IInv'
<1> DEFINE n == r.node
           d == r.dot
<1>0. TypeOK /\ CallsInv /\ TrackInv /\ NetInv /\ MarkInv /\ RunnerInv /\ StoreInv
      /\ CountIsExact
  BY DEF IInv
<1>1. /\ n \in Node /\ d \in Dot /\ n = Home(d) /\ r \in Runner
      /\ cmd[n][d] \in Change /\ dotOf[cmd[n][d]] = d
      /\ r.task \in Change => r.task = cmd[n][d]
  BY RunnerFacts
<1>2. UNCHANGED <<members, clock, cmd, cmdClock, acks, nextSeq, pending, dotOf, reply,
                  applied, net, memberOps>>
  BY DEF CommitMark
<1>3. clock' \in [Node -> Nat] /\ \A k \in Node : clock'[k] >= clock[k]
  BY <1>0, <1>2 DEF TypeOK
<1>4. CASE Uncommitted(n, d)
  <2> DEFINE s == [r EXCEPT !.at = "marked"]
  <2>1. MarkCommitted(n, d) /\ commits' = (commits \ {r}) \cup {s} /\ stage' = stage
    BY <1>4 DEF CommitMark
  <2>2. ~done[n][d] /\ d \notin committedDots[n]
    BY <1>0, <1>1, <1>4 DEF Uncommitted, MarkInv
  <2>3. s \in Runner /\ s.node = n /\ s.dot = d /\ s.at = "marked" /\ s.task = r.task
    BY <1>1 DEF Runner
  <2> HIDE DEF s, n, d
  <2>4. /\ committedDots' \in [Node -> SUBSET Dot]
        /\ \A k \in Node : committedDots'[k] =
             IF k = n THEN committedDots[k] \cup {d} ELSE committedDots[k]
        /\ committedCount' \in [Node -> Nat] /\ lastApplied' \in [Node -> 0..MaxSeq]
        /\ done' \in [Node -> [Dot -> BOOLEAN]]
        /\ \A k \in Node, e \in Dot :
             done'[k][e] <=> done[k][e] \/ (k = n /\ e = d /\ Tracked(n, d))
        /\ CountIsExact'
    BY <1>0, <1>1, <2>1, <2>2, MarkFacts
  <2>5. Tracked(n, d)
    BY <1>4 DEF Uncommitted
  <2>6. \A k \in Node, e \in Dot : done[k][e] => done'[k][e]
    BY <2>2, <2>4
  <2>7. TypeOK'
    BY <1>0, <1>2, <2>1, <2>3, <2>4 DEF TypeOK
  <2>8. CallsInv'
    BY <1>0, <1>2, <2>1, CallsFrame
  <2>9. TrackInv'
    BY <1>0, <1>2 DEF TrackInv, Tracked
  <2>10. NetInv'
    <3>1. \A m \in net : m.type = "MCommit" => done'[Home(m.dot)][m.dot]
      BY <1>0, <2>6, MessageKinds, DotFacts DEF NetInv, TypeOK
    <3> QED BY <1>0, <1>2, <3>1 DEF NetInv, Tracked
  <2>11. MarkInv'
    <3> SUFFICES ASSUME NEW k \in Node, NEW e \in Dot
                 PROVE  /\ done'[k][e] => Tracked(k, e) /\ e \in committedDots'[k]
                        /\ e \in committedDots'[k] => /\ done'[Home(e)][e]
                                                      /\ clock[k] >= cmdClock[Home(e)][e]
                        /\ done'[Home(e)][e] => EnoughAcks(Home(e), acks[Home(e)][e])
      BY <1>2 DEF MarkInv, Tracked, EnoughAcks
    <3>1. CASE e = d
      <4>1. EnoughAcks(n, acks[n][d])
        BY <1>0, <1>1 DEF RunnerInv, n, d
      <4>2. k = n => clock[k] >= cmdClock[n][d]
        BY <1>0, <1>1, <2>5 DEF TrackInv
      <4> QED BY <1>0, <1>1, <2>4, <2>5, <3>1, <4>1, <4>2 DEF MarkInv
    <3>2. CASE e # d
      <4>1. done'[k][e] <=> done[k][e]
        BY <2>4, <3>2
      <4>2. e \in committedDots'[k] <=> e \in committedDots[k]
        BY <2>4, <3>2
      <4>3. done'[Home(e)][e] <=> done[Home(e)][e]
        BY <2>4, <3>2, DotFacts
      <4> QED BY <1>0, <4>1, <4>2, <4>3 DEF MarkInv
    <3> QED BY <3>1, <3>2
  <2>12. RunnerInv'
    <3>1. cmd[n][d] \notin Contents(applied[n])
      BY <1>0, <1>1, <2>2 DEF StoreInv
    <3>2. \A x \in commits : x.at = "marked" => x.dot # d
      BY <1>0, <1>1, <2>2 DEF RunnerInv
    <3>3. \A x \in commits : x.at = "marked" => done'[x.node][x.dot]
      BY <1>0, <2>6, RunnerFacts DEF RunnerInv
    <3>4. /\ s.node = Home(s.dot) /\ Tracked(s.node, s.dot)
          /\ EnoughAcks(s.node, acks[s.node][s.dot]) /\ done'[s.node][s.dot]
          /\ s.task \in Change => s.task = cmd[s.node][s.dot]
      BY <1>0, <1>1, <2>3, <2>4, <2>5 DEF RunnerInv, n, d
    <3> QED BY <1>0, <1>2, <2>1, <2>3, <3>1, <3>2, <3>3, <3>4
            DEF RunnerInv, Tracked, EnoughAcks
  <2>13. StoreInv'
    <3>1. \A k \in Node : committedDots[k] \subseteq committedDots'[k]
      BY <2>4
    <3> QED BY <1>0, <1>2, <3>1 DEF StoreInv, AppliedAtMostOnce, Tracked
  <2> QED BY <2>4, <2>7, <2>8, <2>9, <2>10, <2>11, <2>12, <2>13 DEF IInv
<1>5. CASE ~Uncommitted(n, d)
  <2>1. /\ commits' = commits \ {r}
        /\ stage' = IF r.task \in Change THEN [stage EXCEPT ![r.task] = "waiting"] ELSE stage
        /\ UNCHANGED <<done, committedDots, committedCount, lastApplied>>
    BY <1>5 DEF CommitMark
  <2>2. /\ stage' \in [Change -> {"new", "sent", "committing", "waiting", "gone"}]
        /\ \A x \in Change : stage'[x] = "new" <=> stage[x] = "new"
    BY <2>1, BackToWaiting
  <2>3. TypeOK'
    BY <1>0, <1>2, <2>1, <2>2 DEF TypeOK
  <2>4. RunnerInv'
    BY <1>0, <1>2, <2>1 DEF RunnerInv, Tracked, EnoughAcks
  <2>5. CallsInv'
    BY <1>0, <1>2, <2>2, CallsFrame
  <2>6. UNCHANGED <<stateVars, dotOf, applied, reply, pending, net>>
    BY <1>2, <2>1 DEF stateVars
  <2>7. TrackInv' /\ MarkInv' /\ NetInv' /\ StoreInv' /\ CountIsExact'
    BY <1>0, <1>3, <2>6, StateFrame, NetFrame, StoreFrame
  <2> QED BY <2>3, <2>4, <2>5, <2>7 DEF IInv
<1> QED BY <1>4, <1>5

\* A store that takes a change it does not hold yet.
LEMMA ApplyFacts ==
  ASSUME TypeOK, AppliedAtMostOnce, NEW n \in Node, NEW c \in Change, NEW ok \in BOOLEAN,
         ApplyChange(n, c, ok), c \notin Contents(applied[n])
  PROVE  /\ applied' \in [Node -> Seq(Change)]
         /\ \A k \in Node : Contents(applied'[k]) =
              IF k = n /\ ok THEN Contents(applied[k]) \cup {c} ELSE Contents(applied[k])
         /\ AppliedAtMostOnce'
<1>0. applied \in [Node -> Seq(Change)] /\ AppliedAtMostOnce
  BY DEF TypeOK
<1>1. CASE ~ok
  BY <1>0, <1>1 DEF ApplyChange, AppliedAtMostOnce
<1>2. CASE ok
  <2>1. applied' = [applied EXCEPT ![n] = Append(@, c)]
    BY <1>2 DEF ApplyChange
  <2>2. /\ applied' \in [Node -> Seq(Change)]
        /\ \A k \in Node : applied'[k] = IF k = n THEN Append(applied[k], c) ELSE applied[k]
    BY <1>0, <2>1
  <2>3. \A k \in Node : Contents(applied'[k]) =
              IF k = n THEN Contents(applied[k]) \cup {c} ELSE Contents(applied[k])
    <3>1. applied[n] \in Seq(Change)
      BY <1>0
    <3>2. Contents(Append(applied[n], c)) = Contents(applied[n]) \cup {c}
      BY <3>1, AppendContents
    <3> QED BY <2>2, <3>2
  <2>4. \A i, j \in DOMAIN applied'[n] : applied'[n][i] = applied'[n][j] => i = j
    <3>1. /\ applied'[n] = Append(applied[n], c) /\ applied[n] \in Seq(Change)
          /\ \A i \in DOMAIN applied[n] : applied[n][i] # c
          /\ \A i, j \in DOMAIN applied[n] : applied[n][i] = applied[n][j] => i = j
      BY <1>0, <2>2 DEF Contents, AppliedAtMostOnce
    <3> QED BY <3>1
  <2>5. AppliedAtMostOnce'
    BY <1>0, <2>2, <2>4 DEF AppliedAtMostOnce
  <2> QED BY <1>2, <2>2, <2>3, <2>5
<1> QED BY <1>1, <1>2

\* A store operation succeeds or fails.
LEMMA OutcomesAre == \A c \in Change : Outcomes(c) \subseteq BOOLEAN
BY DEF Outcomes

\* The task that marked the dot applies it, the others have left.
LEMMA CommitApplyStep ==
  ASSUME IInv, NEW r \in commits, CommitApply(r)
  PROVE  IInv'
<1> DEFINE n == r.node
           d == r.dot
           c == cmd[n][d]
           w == pending[n][d]
           msg == [type |-> "MCommit", from |-> n, to |-> n, dot |-> d, change |-> c,
                   clock |-> cmdClock[n][d]]
<1>0. TypeOK /\ CallsInv /\ TrackInv /\ NetInv /\ MarkInv /\ RunnerInv /\ StoreInv
      /\ CountIsExact
  BY DEF IInv
<1>1. /\ n \in Node /\ d \in Dot /\ n = Home(d) /\ r \in Runner
      /\ c \in Change /\ dotOf[c] = d
      /\ r.task \in Change => r.task = c
  BY RunnerFacts
<1>2. /\ r.at = "marked"
      /\ pending' = [pending EXCEPT ![n][d] = NoChange]
      /\ commits' = commits \ {r}
      /\ UNCHANGED <<members, clock, stateVars, nextSeq, dotOf, memberOps>>
  BY DEF CommitApply
<1>3. PICK ok \in Outcomes(c), cut \in BOOLEAN :
           /\ ApplyChange(n, c, ok)
           /\ reply' = IF w # NoChange /\ stage[w] # "gone" /\ ~cut
                       THEN [reply EXCEPT ![w] = ReplyTo(ok)] ELSE reply
           /\ stage' = IF r.task \in Change
                       THEN [stage EXCEPT ![r.task] = IF cut THEN "gone" ELSE "waiting"]
                       ELSE stage
           /\ \E out \in Arriving(Copies(n, msg), cut) : net' = net \cup out
  BY DEF CommitApply
<1>19. \/ reply' = reply
       \/ reply[c] = "none" /\ reply' = [reply EXCEPT ![c] = ReplyTo(ok)]
  <2>1. w # NoChange => w = c /\ reply[c] = "none"
    BY <1>0, <1>1 DEF StoreInv
  <2> QED BY <1>3, <2>1
<1>4. PICK out \in Arriving(Copies(n, msg), cut) : net' = net \cup out
  BY <1>3
<1>5. done[n][d] /\ d \in committedDots[n] /\ c \notin Contents(applied[n])
  BY <1>0, <1>1, <1>2 DEF RunnerInv, MarkInv
<1>6. cmdClock[n][d] \in Nat
  BY <1>0, <1>1 DEF TypeOK
<1>7. \A m \in out : /\ m \in Message /\ m.type = "MCommit" /\ m.from = n /\ m.dot = d
                     /\ m.change = c /\ m.clock = cmdClock[n][d]
  <2> DEFINE t == cmdClock[n][d]
  <2> HIDE DEF n, d, c, t
  <2> QED BY <1>0, <1>1, <1>6, CommandCopies DEF t
<1> HIDE DEF n, d, c, w, msg
<1>8. ok \in BOOLEAN
  BY <1>1, OutcomesAre
<1>9. /\ applied' \in [Node -> Seq(Change)]
      /\ \A k \in Node : Contents(applied'[k]) =
           IF k = n /\ ok THEN Contents(applied[k]) \cup {c} ELSE Contents(applied[k])
      /\ AppliedAtMostOnce'
  <2>1. TypeOK /\ AppliedAtMostOnce
    BY DEF IInv, StoreInv
  <2> QED BY <1>1, <1>3, <1>5, <1>8, <2>1, ApplyFacts
<1>10. /\ reply' \in [Change -> {"none", "ok", "error", "timeout"}]
       /\ \A x \in Change : x # c => reply'[x] = reply[x]
       /\ reply'[c] = "ok" => ok \/ reply[c] = "ok"
  BY <1>0, <1>1, <1>8, <1>19 DEF TypeOK, ReplyTo
<1>11. /\ stage' \in [Change -> {"new", "sent", "committing", "waiting", "gone"}]
       /\ \A x \in Change : stage'[x] = "new" <=> stage[x] = "new"
  BY <1>3, BackToWaiting
<1>20. /\ pending' \in [Node -> [Dot -> Change \cup {NoChange}]]
       /\ \A k \in Node, e \in Dot :
            pending'[k][e] = IF k = n /\ e = d THEN NoChange ELSE pending[k][e]
  <2>1. pending \in [Node -> [Dot -> Change \cup {NoChange}]]
        /\ NoChange \in Change \cup {NoChange}
    BY <1>0 DEF TypeOK
  <2> QED BY <1>1, <1>2, <2>1, CellChange
<1>12. TypeOK'
  <2>1. pending' \in [Node -> [Dot -> Change \cup {NoChange}]]
    BY <1>20
  <2>2. net' \subseteq Message
    BY <1>0, <1>4, <1>7 DEF TypeOK
  <2> QED BY <1>0, <1>2, <1>9, <1>10, <1>11, <2>1, <2>2 DEF TypeOK, stateVars
<1>13. CallsInv'
  <2>1. \A x \in Change : reply'[x] # "none" => dotOf[x] # NoDot
    BY <1>0, <1>1, <1>10, DotFacts DEF CallsInv
  <2> QED BY <1>0, <1>2, <1>11, <2>1 DEF CallsInv, Truth, stateVars
<1>14. TrackInv' /\ MarkInv'
  <2>1. clock' \in [Node -> Nat] /\ \A k \in Node : clock'[k] >= clock[k]
    BY <1>0, <1>2 DEF TypeOK
  <2> QED BY <1>0, <1>2, <2>1, StateFrame
<1>15. NetInv'
  <2>1. \A m \in out : dotOf[m.change] = m.dot /\ m.from = Home(m.dot)
                       /\ m.clock = cmdClock[Home(m.dot)][m.dot] /\ done[Home(m.dot)][m.dot]
                       /\ m.type = "MCommit"
    BY <1>1, <1>5, <1>7
  <2> QED BY <1>0, <1>2, <1>4, <2>1 DEF NetInv, stateVars, Tracked
<1>16. RunnerInv'
  <2>1. ASSUME NEW s \in commits, s # r, s.at = "marked"
        PROVE  cmd[s.node][s.dot] \notin Contents(applied'[s.node])
    <3>1. s.dot # d
      BY <1>0, <1>2, <2>1 DEF RunnerInv, d
    <3>2. s.node \in Node /\ dotOf[cmd[s.node][s.dot]] = s.dot
      BY RunnerFacts
    <3>3. cmd[s.node][s.dot] # c
      BY <1>1, <3>1, <3>2
    <3>4. cmd[s.node][s.dot] \notin Contents(applied[s.node])
      BY <1>0, <2>1 DEF RunnerInv
    <3> QED BY <1>9, <3>2, <3>3, <3>4
  <2> QED BY <1>0, <1>2, <2>1 DEF RunnerInv, stateVars, Tracked, EnoughAcks
<1>17. StoreInv'
  <2>1. \A k \in Node : \A x \in Contents(applied'[k]) :
          dotOf[x] # NoDot /\ dotOf[x] \in committedDots[k]
    BY <1>0, <1>1, <1>5, <1>9, DotFacts DEF StoreInv
  <2>2. ASSUME NEW x \in Change, reply'[x] = "ok"
        PROVE  x \in Contents(applied'[Home(dotOf[x])])
    <3>1. CASE x = c /\ ok
      BY <1>1, <1>9, <3>1
    <3>2. CASE reply[x] = "ok"
      <4>1. x \in Contents(applied[Home(dotOf[x])]) /\ Home(dotOf[x]) \in Node
        BY <1>0, <3>2, DotFacts DEF StoreInv, CallsInv, TypeOK
      <4> QED BY <1>9, <4>1
    <3> QED BY <1>10, <2>2, <3>1, <3>2
  <2>3. ASSUME NEW k \in Node, NEW e \in Dot, pending'[k][e] # NoChange
        PROVE  Home(e) = k /\ pending'[k][e] = cmd[k][e] /\ reply'[cmd[k][e]] = "none"
    <3>1. pending'[k][e] = pending[k][e] /\ (k = n => e # d)
      BY <1>20, <2>3
    <3>2. /\ Home(e) = k /\ pending[k][e] = cmd[k][e] /\ reply[cmd[k][e]] = "none"
          /\ dotOf[cmd[k][e]] = e /\ cmd[k][e] \in Change
      BY <1>0, <2>3, <3>1 DEF StoreInv, TrackInv, Tracked, TypeOK
    <3>3. cmd[k][e] # c
      BY <1>1, <3>1, <3>2
    <3> QED BY <1>10, <3>1, <3>2, <3>3
  <2> QED BY <1>2, <1>9, <2>1, <2>2, <2>3 DEF StoreInv, stateVars
<1>18. CountIsExact'
  BY <1>0, <1>2 DEF CountIsExact, stateVars
<1> QED BY <1>12, <1>13, <1>14, <1>15, <1>16, <1>17, <1>18 DEF IInv

-----------------------------------------------------------------------------
\* A receiver tracks the coordinator's command, or did already.
LEMMA HandleMCollectStep ==
  ASSUME IInv, NEW n \in Node, NEW m \in net, HandleMCollect(n, m)
  PROVE  IInv'
<1> DEFINE d == m.dot
           c == m.change
<1>0. TypeOK /\ CallsInv /\ TrackInv /\ NetInv /\ MarkInv /\ RunnerInv /\ StoreInv
      /\ CountIsExact
  BY DEF IInv
<1>1. m.type = "MCollect" /\ m \in Message
  BY <1>0 DEF HandleMCollect, TypeOK
<1>2. /\ d \in Dot /\ c \in Change /\ m.from \in Node /\ m.to \in MemberId /\ m.clock \in Nat
      /\ dotOf[c] = d /\ m.from = Home(d) /\ m.clock = cmdClock[Home(d)][d]
  BY <1>0, <1>1, MessageKinds DEF NetInv
<1>3. /\ AddCommand(n, d, c, m.clock)
      /\ UNCHANGED <<members, acks, done, committedDots, committedCount, lastApplied, callVars,
                     applied, memberOps>>
  BY DEF HandleMCollect
<1>4. PICK now \in PhysicalTime, later \in PhysicalTime :
        LET t == Ticked(Updated(clock[n], m.clock, now), later)
            ack == [type |-> "MCollectAck", from |-> n, to |-> m.from, dot |-> m.dot,
                    clock |-> t]
        IN  /\ clock' = [clock EXCEPT ![n] = t]
            /\ \E out \in Arriving(Answer(n, ack), FALSE) : net' = (net \ {m}) \cup out
  BY DEF HandleMCollect
<1> DEFINE t == Ticked(Updated(clock[n], m.clock, now), later)
           ack == [type |-> "MCollectAck", from |-> n, to |-> m.from, dot |-> m.dot,
                   clock |-> t]
<1>5. t \in Nat /\ t > clock[n] /\ t > m.clock
  <2> DEFINE u == Updated(clock[n], m.clock, now)
  <2>1. u \in Nat /\ u >= clock[n] /\ u >= m.clock
    BY <1>0, <1>2, NowIsNumber, ClockFacts DEF TypeOK
  <2>2. clock[n] \in Nat
    BY <1>0 DEF TypeOK
  <2> HIDE DEF u
  <2>3. Ticked(u, later) \in Nat /\ Ticked(u, later) > u
    BY <2>1, NowIsNumber, ClockFacts
  <2> QED BY <1>2, <2>1, <2>2, <2>3 DEF u
<1>6. clock' = [clock EXCEPT ![n] = t]
  BY <1>4
<1>7. PICK out \in Arriving(Answer(n, ack), FALSE) : net' = (net \ {m}) \cup out
  BY <1>4
<1>8. \A x \in out : x = ack
  BY ArrivingAre DEF Answer
<1>9. ack \in Message /\ ack.type = "MCollectAck" /\ ack.from = n /\ ack.to = Home(d)
      /\ ack.dot = d /\ ack.clock = t
  <2> HIDE DEF t
  <2> QED BY <1>2, <1>5 DEF Message, MemberId
<1> HIDE DEF d, c, t, ack
<1>10. clock' \in [Node -> Nat] /\ clock'[n] = t /\ \A k \in Node : clock'[k] >= clock[k]
  BY <1>0, <1>5, <1>6 DEF TypeOK
\* At its home the dot is tracked already.
<1>11. cmd[Home(d)][d] = c /\ Tracked(Home(d), d)
  BY <1>0, <1>2, DotFacts, ConstantsOK DEF CallsInv, Truth, Tracked
<1>12. /\ cmd' \in [Node -> [Dot -> Change \cup {NoChange}]]
       /\ cmdClock' \in [Node -> [Dot -> Nat]]
       /\ \A k \in Node, e \in Dot :
            IF k = n /\ e = d /\ ~Tracked(n, d)
            THEN cmd'[k][e] = c /\ cmdClock'[k][e] = m.clock
            ELSE cmd'[k][e] = cmd[k][e] /\ cmdClock'[k][e] = cmdClock[k][e]
  <2>0. cmd \in [Node -> [Dot -> Change \cup {NoChange}]] /\ cmdClock \in [Node -> [Dot -> Nat]]
    BY <1>0 DEF TypeOK
  <2>1. CASE Tracked(n, d)
    BY <1>3, <2>0, <2>1 DEF AddCommand
  <2>2. CASE ~Tracked(n, d)
    <3>1. cmd' = [cmd EXCEPT ![n][d] = c] /\ cmdClock' = [cmdClock EXCEPT ![n][d] = m.clock]
      BY <1>3, <2>2 DEF AddCommand
    <3>2. /\ cmd' \in [Node -> [Dot -> Change \cup {NoChange}]]
          /\ \A k \in Node, e \in Dot :
               cmd'[k][e] = IF k = n /\ e = d THEN c ELSE cmd[k][e]
      BY <1>2, <2>0, <3>1, CellChange
    <3>3. /\ cmdClock' \in [Node -> [Dot -> Nat]]
          /\ \A k \in Node, e \in Dot :
               cmdClock'[k][e] = IF k = n /\ e = d THEN m.clock ELSE cmdClock[k][e]
      BY <1>2, <2>0, <3>1, CellChange
    <3> QED BY <2>2, <3>2, <3>3
  <2> QED BY <2>1, <2>2
<1>13. \A e \in Dot : cmd'[Home(e)][e] = cmd[Home(e)][e]
                      /\ cmdClock'[Home(e)][e] = cmdClock[Home(e)][e]
  BY <1>11, <1>12, DotFacts
<1>14. \A k \in Node, e \in Dot : Tracked(k, e) => Tracked(k, e)' /\ cmd'[k][e] = cmd[k][e]
  BY <1>12 DEF Tracked
<1>15. TypeOK'
  <2>1. net' \subseteq Message
    BY <1>0, <1>7, <1>8, <1>9 DEF TypeOK
  <2> QED BY <1>0, <1>3, <1>10, <1>12, <2>1 DEF TypeOK, callVars
<1>16. CallsInv'
  <2>1. \A x \in Change : dotOf[x] # NoDot => Truth(dotOf[x])' = Truth(dotOf[x])
    BY <1>0, <1>3, <1>13 DEF Truth, TypeOK, callVars
  <2> QED BY <1>0, <1>3, <2>1 DEF CallsInv, Truth, callVars
<1>17. TrackInv'
  <2> SUFFICES ASSUME NEW k \in Node, NEW e \in Dot
               PROVE  /\ Tracked(k, e)' => /\ dotOf[cmd'[k][e]] = e
                                           /\ cmdClock'[k][e] = cmdClock[Home(e)][e]
                                           /\ clock'[k] >= cmdClock'[k][e]
                      /\ \A j \in acks[k][e] : Tracked(j, e)'
    BY <1>3, <1>13 DEF TrackInv, callVars
  <2>1. CASE k = n /\ e = d /\ ~Tracked(n, d)
    <3>1. cmd'[k][e] = c /\ cmdClock'[k][e] = m.clock
      BY <1>12, <2>1
    <3>2. \A j \in acks[k][e] : Tracked(j, e)'
      BY <1>0, <1>14 DEF TrackInv, TypeOK
    <3>3. clock'[k] >= m.clock
      BY <1>2, <1>5, <1>10, <2>1
    <3> QED BY <1>2, <2>1, <3>1, <3>2, <3>3
  <2>2. CASE ~(k = n /\ e = d /\ ~Tracked(n, d))
    <3>1. cmd'[k][e] = cmd[k][e] /\ cmdClock'[k][e] = cmdClock[k][e]
      BY <1>12, <2>2
    <3>2. \A j \in acks[k][e] : Tracked(j, e)'
      BY <1>0, <1>14 DEF TrackInv, TypeOK
    <3>3. clock'[k] >= clock[k] /\ clock'[k] \in Int /\ clock[k] \in Int
          /\ cmdClock[k][e] \in Int
      BY <1>0, <1>10 DEF TypeOK
    <3>4. Tracked(k, e)' => /\ dotOf[cmd[k][e]] = e
                            /\ cmdClock[k][e] = cmdClock[Home(e)][e]
                            /\ clock[k] >= cmdClock[k][e]
      BY <1>0, <3>1 DEF TrackInv, Tracked
    <3> QED BY <3>1, <3>2, <3>3, <3>4
  <2> QED BY <2>1, <2>2
<1>18. NetInv'
  <2>1. Tracked(n, d)'
    <3>1. CASE Tracked(n, d)
      BY <3>1, <1>2, <1>14
    <3>2. CASE ~Tracked(n, d)
      <4>1. cmd'[n][d] = c /\ c # NoChange
        BY <3>2, <1>2, <1>12, ConstantsOK
      <4> QED BY <4>1 DEF Tracked
    <3> QED BY <3>1, <3>2
  <2>2. \A x \in out : /\ x.type = "MCollectAck" /\ Tracked(x.from, x.dot)' /\ x.to = Home(x.dot)
                       /\ x.clock > cmdClock'[Home(x.dot)][x.dot]
    BY <1>2, <1>5, <1>8, <1>9, <1>13, <2>1
  <2>3. \A x \in net : x.type # "ClockBump" => x.dot \in Dot /\ x.from \in Node
    BY <1>0, MessageKinds DEF TypeOK
  <2> SUFFICES ASSUME NEW x \in net, x # m
               PROVE  /\ x.type \in {"MCollect", "MCommit"} =>
                           /\ dotOf[x.change] = x.dot
                           /\ x.from = Home(x.dot)
                           /\ x.clock = cmdClock'[Home(x.dot)][x.dot]
                      /\ x.type = "MCommit" => done[Home(x.dot)][x.dot]
                      /\ x.type = "MCollectAck" =>
                           /\ Tracked(x.from, x.dot)'
                           /\ x.to = Home(x.dot)
                           /\ x.clock > cmdClock'[Home(x.dot)][x.dot]
    BY <1>3, <1>7, <2>2 DEF NetInv, callVars
  <2> QED BY <1>0, <1>13, <1>14, <2>3 DEF NetInv
<1>19. MarkInv'
  <2> SUFFICES ASSUME NEW k \in Node, NEW e \in Dot
               PROVE  /\ done[k][e] => Tracked(k, e)' /\ e \in committedDots[k]
                      /\ e \in committedDots[k] => /\ done[Home(e)][e]
                                                   /\ clock'[k] >= cmdClock[Home(e)][e]
                      /\ done[Home(e)][e] => EnoughAcks(Home(e), acks[Home(e)][e])
    BY <1>3, <1>13 DEF MarkInv, EnoughAcks
  <2>1. clock'[k] >= clock[k] /\ clock'[k] \in Int /\ clock[k] \in Int
        /\ cmdClock[Home(e)][e] \in Int
    BY <1>0, <1>10, DotFacts DEF TypeOK
  <2> QED BY <1>0, <1>14, <2>1 DEF MarkInv
<1>20. RunnerInv'
  <2>1. \A r \in commits : Tracked(r.node, r.dot)' /\ cmd'[r.node][r.dot] = cmd[r.node][r.dot]
    BY <1>0, <1>14, RunnerFacts DEF RunnerInv
  <2> QED BY <1>0, <1>3, <2>1 DEF RunnerInv, EnoughAcks, callVars
<1>21. StoreInv'
  <2>1. \A k \in Node, e \in Dot : pending[k][e] # NoChange =>
          Home(e) = k /\ pending[k][e] = cmd'[k][e] /\ reply[cmd'[k][e]] = "none"
    BY <1>0, <1>14 DEF StoreInv, Tracked
  <2> QED BY <1>0, <1>3, <2>1 DEF StoreInv, AppliedAtMostOnce, callVars
<1>22. CountIsExact'
  BY <1>0, <1>3 DEF CountIsExact
<1> QED BY <1>15, <1>16, <1>17, <1>18, <1>19, <1>20, <1>21, <1>22 DEF IInv

\* An ack counts a node that tracks the command.
LEMMA HandleMCollectAckStep ==
  ASSUME IInv, NEW n \in Node, NEW m \in net, HandleMCollectAck(n, m)
  PROVE  IInv'
<1> DEFINE d == m.dot
           r == [task |-> n, node |-> n, dot |-> d, at |-> "decided"]
<1>0. TypeOK /\ CallsInv /\ TrackInv /\ NetInv /\ MarkInv /\ RunnerInv /\ StoreInv
      /\ CountIsExact
  BY DEF IInv
<1>1. m.type = "MCollectAck" /\ m \in Message /\ AddrOf[m.to] = n
  BY <1>0 DEF HandleMCollectAck, Receives, TypeOK
<1>2. /\ d \in Dot /\ m.from \in Node /\ m.clock \in Nat
      /\ Tracked(m.from, d) /\ n = Home(d)
  BY <1>0, <1>1, MessageKinds, ConstantsOK, DotFacts DEF NetInv
<1>3. /\ UNCHANGED <<members, cmd, cmdClock, done, committedDots, committedCount, lastApplied,
                     nextSeq, pending, stage, dotOf, reply, applied, memberOps>>
      /\ net' = net \ {m}
      /\ acks' = IF Tracked(n, d) THEN [acks EXCEPT ![n][d] = @ \cup {m.from}] ELSE acks
      /\ commits' = IF Uncommitted(n, d) /\ EnoughAcks(n, acks'[n][d])
                    THEN commits \cup {r} ELSE commits
  BY DEF HandleMCollectAck
<1>4. PICK now \in PhysicalTime : clock' = [clock EXCEPT ![n] = Updated(@, m.clock, now)]
  BY DEF HandleMCollectAck
<1> HIDE DEF d
<1>5. clock' \in [Node -> Nat] /\ \A k \in Node : clock'[k] >= clock[k]
  <2>1. Updated(clock[n], m.clock, now) \in Nat /\ Updated(clock[n], m.clock, now) >= clock[n]
    BY <1>0, <1>2, NowIsNumber, ClockFacts DEF TypeOK
  <2> QED BY <1>0, <1>4, <2>1 DEF TypeOK
<1>6. /\ acks' \in [Node -> [Dot -> SUBSET Node]]
      /\ \A k \in Node, e \in Dot : /\ acks[k][e] \subseteq acks'[k][e]
                                    /\ \A j \in acks'[k][e] :
                                         j \in acks[k][e] \/ (e = d /\ j = m.from)
  <2>0. acks \in [Node -> [Dot -> SUBSET Node]]
    BY <1>0 DEF TypeOK
  <2>1. CASE Tracked(n, d)
    <3> DEFINE S == acks[n][d] \cup {m.from}
    <3>1. S \in SUBSET Node /\ acks' = [acks EXCEPT ![n][d] = S]
      BY <1>2, <1>3, <2>0, <2>1
    <3> HIDE DEF S
    <3>2. /\ acks' \in [Node -> [Dot -> SUBSET Node]]
          /\ \A k \in Node, e \in Dot :
               acks'[k][e] = IF k = n /\ e = d THEN S ELSE acks[k][e]
      BY <1>2, <2>0, <3>1, CellChange
    <3> QED BY <3>2 DEF S
  <2>2. CASE ~Tracked(n, d)
    BY <1>3, <2>0, <2>2
  <2> QED BY <2>1, <2>2
<1>7. \A k \in Node, e \in Dot : EnoughAcks(k, acks[k][e]) => EnoughAcks(k, acks'[k][e])
  BY <1>6, AcksOnlyHelp
<1>8. TypeOK'
  <2>1. r \in Runner
    BY <1>2 DEF Runner
  <2> QED BY <1>0, <1>3, <1>5, <1>6, <2>1 DEF TypeOK
<1>9. CallsInv'
  BY <1>0, <1>3, CallsFrame
<1>10. TrackInv'
  <2>1. \A k \in Node, e \in Dot : /\ clock[k] \in Int /\ clock'[k] \in Int
                                   /\ cmdClock[k][e] \in Int
    BY <1>0, <1>5 DEF TypeOK
  <2>2. \A k \in Node, e \in Dot : \A j \in acks'[k][e] : Tracked(j, e)
    BY <1>0, <1>2, <1>6 DEF TrackInv
  <2> QED BY <1>0, <1>3, <1>5, <2>1, <2>2 DEF TrackInv, Tracked
<1>11. NetInv'
  BY <1>0, <1>3 DEF NetInv, Tracked
<1>12. MarkInv'
  <2> SUFFICES ASSUME NEW k \in Node, NEW e \in Dot
               PROVE  /\ done[k][e] => Tracked(k, e) /\ e \in committedDots[k]
                      /\ e \in committedDots[k] => /\ done[Home(e)][e]
                                                   /\ clock'[k] >= cmdClock[Home(e)][e]
                      /\ done[Home(e)][e] => EnoughAcks(Home(e), acks'[Home(e)][e])
    BY <1>3 DEF MarkInv, EnoughAcks, Tracked
  <2>1. clock'[k] >= clock[k] /\ clock'[k] \in Int /\ clock[k] \in Int
        /\ cmdClock[Home(e)][e] \in Int
    BY <1>0, <1>5, DotFacts DEF TypeOK
  <2> QED BY <1>0, <1>7, <2>1, DotFacts DEF MarkInv
<1>13. RunnerInv'
  <2>1. \A s \in commits : EnoughAcks(s.node, acks'[s.node][s.dot])
    BY <1>0, <1>7, RunnerFacts DEF RunnerInv
  <2>2. CASE commits' = commits
    BY <1>0, <1>3, <2>1, <2>2 DEF RunnerInv, Tracked, EnoughAcks
  <2>3. CASE Uncommitted(n, d) /\ EnoughAcks(n, acks'[n][d]) /\ commits' = commits \cup {r}
    <3>1. /\ r.node = Home(r.dot) /\ Tracked(r.node, r.dot)
          /\ EnoughAcks(r.node, acks'[r.node][r.dot]) /\ r.at = "decided"
      BY <1>2, <2>3 DEF Uncommitted
    <3>2. r.task \in Change => r.task = cmd[r.node][r.dot]
      BY ConstantsOK
    <3> HIDE DEF r
    <3> QED BY <1>0, <1>3, <2>1, <2>3, <3>1, <3>2 DEF RunnerInv, Tracked, EnoughAcks
  <2> QED BY <1>3, <2>2, <2>3
<1>14. StoreInv' /\ CountIsExact'
  BY <1>0, <1>3 DEF StoreInv, AppliedAtMostOnce, CountIsExact, Tracked
<1> QED BY <1>8, <1>9, <1>10, <1>11, <1>12, <1>13, <1>14 DEF IInv

\* An MCommit is applied unless the node counts the dot as committed.
LEMMA HandleMCommitStep ==
  ASSUME IInv, NEW n \in Node, NEW m \in net, HandleMCommit(n, m)
  PROVE  IInv'
<1> DEFINE d == m.dot
           c == m.change
<1>0. TypeOK /\ CallsInv /\ TrackInv /\ NetInv /\ MarkInv /\ RunnerInv /\ StoreInv
      /\ CountIsExact
  BY DEF IInv
<1>1. m.type = "MCommit" /\ m \in Message
  BY <1>0 DEF HandleMCommit, TypeOK
<1>2. /\ d \in Dot /\ c \in Change /\ m.clock \in Nat
      /\ dotOf[c] = d /\ done[Home(d)][d] /\ m.clock = cmdClock[Home(d)][d]
  BY <1>0, <1>1, MessageKinds DEF NetInv
<1>3. /\ UNCHANGED <<members, cmd, cmdClock, acks, callVars, memberOps>>
      /\ net' = net \ {m}
      /\ IF IsCommitted(n, d)
         THEN UNCHANGED <<applied, done, committedDots, committedCount, lastApplied>>
         ELSE /\ \E ok \in Outcomes(c) : ApplyChange(n, c, ok)
              /\ MarkCommitted(n, d)
  BY DEF HandleMCommit
<1>4. PICK now \in PhysicalTime : clock' = [clock EXCEPT ![n] = Updated(@, m.clock, now)]
  BY DEF HandleMCommit
<1> HIDE DEF d, c
<1>5. /\ clock' \in [Node -> Nat] /\ \A k \in Node : clock'[k] >= clock[k]
      /\ clock'[n] >= m.clock
  <2>1. /\ Updated(clock[n], m.clock, now) \in Nat /\ Updated(clock[n], m.clock, now) >= clock[n]
        /\ Updated(clock[n], m.clock, now) >= m.clock
    BY <1>0, <1>2, NowIsNumber, ClockFacts DEF TypeOK
  <2> QED BY <1>0, <1>4, <2>1 DEF TypeOK
<1>6. CallsInv'
  BY <1>0, <1>3, CallsFrame DEF callVars
<1>7. CASE IsCommitted(n, d)
  <2>1. UNCHANGED <<stateVars, dotOf, applied, commits, reply, pending>>
    BY <1>3, <1>7 DEF stateVars, callVars
  <2>2. TypeOK'
    BY <1>0, <1>3, <1>5, <2>1 DEF TypeOK, stateVars, callVars
  <2>3. TrackInv' /\ MarkInv' /\ NetInv' /\ RunnerInv' /\ StoreInv' /\ CountIsExact'
    BY <1>0, <1>3, <1>5, <2>1, StateFrame, NetFrame, RunnerFrame, StoreFrame
  <2> QED BY <1>6, <2>2, <2>3 DEF IInv
<1>8. CASE ~IsCommitted(n, d)
  <2>1. d \notin committedDots[n] /\ ~done[n][d] /\ n # Home(d)
    BY <1>0, <1>2, <1>8, DotFacts DEF IsCommitted, MarkInv
  <2>2. c \notin Contents(applied[n])
    BY <1>0, <1>2, <2>1 DEF StoreInv
  <2>3. PICK ok \in BOOLEAN : ApplyChange(n, c, ok)
    BY <1>2, <1>3, <1>8, OutcomesAre
  <2>4. /\ applied' \in [Node -> Seq(Change)]
        /\ \A k \in Node : Contents(applied'[k]) =
             IF k = n /\ ok THEN Contents(applied[k]) \cup {c} ELSE Contents(applied[k])
        /\ AppliedAtMostOnce'
    <3>1. TypeOK /\ AppliedAtMostOnce
      BY DEF IInv, StoreInv
    <3> QED BY <1>2, <2>2, <2>3, <3>1, ApplyFacts
  <2>5. /\ committedDots' \in [Node -> SUBSET Dot]
        /\ \A k \in Node : committedDots'[k] =
             IF k = n THEN committedDots[k] \cup {d} ELSE committedDots[k]
        /\ committedCount' \in [Node -> Nat] /\ lastApplied' \in [Node -> 0..MaxSeq]
        /\ done' \in [Node -> [Dot -> BOOLEAN]]
        /\ \A k \in Node, e \in Dot :
             done'[k][e] <=> done[k][e] \/ (k = n /\ e = d /\ Tracked(n, d))
        /\ CountIsExact'
    <3>1. MarkCommitted(n, d)
      BY <1>3, <1>8
    <3>2. TypeOK /\ CountIsExact /\ d \in Dot /\ d \notin committedDots[n] /\ ~done[n][d]
      BY <1>0, <1>2, <2>1
    <3> QED BY <3>1, <3>2, MarkFacts
  <2>6. \A e \in Dot : done'[Home(e)][e] <=> done[Home(e)][e]
    BY <2>1, <2>5, DotFacts
  <2>7. TypeOK'
    BY <1>0, <1>3, <1>5, <2>4, <2>5 DEF TypeOK, callVars
  <2>8. TrackInv'
    <3>1. \A k \in Node, e \in Dot : /\ clock[k] \in Int /\ clock'[k] \in Int
                                     /\ cmdClock[k][e] \in Int
      BY <1>0, <1>5 DEF TypeOK
    <3> QED BY <1>0, <1>3, <1>5, <3>1 DEF TrackInv, Tracked, callVars
  <2>9. NetInv'
    <3>1. \A x \in net : x.type = "MCommit" => done'[Home(x.dot)][x.dot]
      BY <1>0, <2>6, MessageKinds DEF NetInv, TypeOK
    <3> QED BY <1>0, <1>3, <3>1 DEF NetInv, Tracked, callVars
  <2>10. MarkInv'
    <3> SUFFICES ASSUME NEW k \in Node, NEW e \in Dot
                 PROVE  /\ done'[k][e] => Tracked(k, e) /\ e \in committedDots'[k]
                        /\ e \in committedDots'[k] => /\ done[Home(e)][e]
                                                      /\ clock'[k] >= cmdClock[Home(e)][e]
                        /\ done[Home(e)][e] => EnoughAcks(Home(e), acks[Home(e)][e])
      BY <1>3, <2>6 DEF MarkInv, EnoughAcks, Tracked
    <3>1. clock'[k] >= clock[k] /\ clock'[k] \in Int /\ clock[k] \in Int
          /\ cmdClock[Home(e)][e] \in Int
      BY <1>0, <1>5, DotFacts DEF TypeOK
    <3>2. CASE k = n /\ e = d
      BY <1>0, <1>2, <1>5, <2>1, <2>5, <3>2 DEF MarkInv
    <3>3. CASE ~(k = n /\ e = d)
      <4>1. (done'[k][e] <=> done[k][e])
            /\ (e \in committedDots'[k] <=> e \in committedDots[k])
        BY <2>5, <3>3
      <4> QED BY <1>0, <3>1, <4>1 DEF MarkInv
    <3> QED BY <3>2, <3>3
  <2>11. RunnerInv'
    <3>1. ASSUME NEW s \in commits, s.at = "marked"
          PROVE  cmd[s.node][s.dot] \notin Contents(applied'[s.node]) /\ done'[s.node][s.dot]
      <4>1. /\ s.node = Home(s.dot) /\ s.node \in Node /\ s.dot \in Dot
            /\ dotOf[cmd[s.node][s.dot]] = s.dot
        BY RunnerFacts
      <4>2. done[s.node][s.dot] /\ cmd[s.node][s.dot] \notin Contents(applied[s.node])
        BY <1>0, <3>1 DEF RunnerInv
      <4>3. s.node = n => cmd[s.node][s.dot] # c
        BY <1>2, <2>1, <4>1
      <4> QED BY <2>4, <2>5, <4>1, <4>2, <4>3
    <3> QED BY <1>0, <1>3, <3>1 DEF RunnerInv, Tracked, EnoughAcks, callVars
  <2>12. StoreInv'
    <3>1. \A k \in Node : \A x \in Contents(applied'[k]) :
            dotOf[x] # NoDot /\ dotOf[x] \in committedDots'[k]
      <4> TAKE k \in Node
      <4> TAKE x \in Contents(applied'[k])
      <4>1. CASE x \in Contents(applied[k])
        <5>1. dotOf[x] # NoDot /\ dotOf[x] \in committedDots[k]
          BY <1>0, <4>1 DEF StoreInv
        <5> QED BY <2>5, <5>1
      <4>2. CASE k = n /\ x = c
        BY <1>2, <2>5, <4>2, DotFacts
      <4> QED BY <2>4, <4>1, <4>2
    <3>2. ASSUME NEW x \in Change, reply[x] = "ok"
          PROVE  x \in Contents(applied'[Home(dotOf[x])])
      <4>1. x \in Contents(applied[Home(dotOf[x])]) /\ Home(dotOf[x]) \in Node
        BY <1>0, <3>2, DotFacts DEF StoreInv, CallsInv, TypeOK
      <4> QED BY <2>4, <4>1
    <3> QED BY <1>0, <1>3, <2>4, <3>1, <3>2 DEF StoreInv, Tracked, callVars
  <2> QED BY <1>6, <2>5, <2>7, <2>8, <2>9, <2>10, <2>11, <2>12 DEF IInv
<1> QED BY <1>7, <1>8

-----------------------------------------------------------------------------
\* The invariant is inductive.
LEMMA NextHolds == IInv /\ [Next]_vars => IInv'
<1> SUFFICES ASSUME IInv, [Next]_vars PROVE IInv'
  OBVIOUS
<1>1. ASSUME NEW n \in Node, NEW c \in Change, Propose(n, c) PROVE IInv'
  BY <1>1, ProposeStep
<1>2. ASSUME NEW c \in Change, ProposeCheck(c) \/ ProposeTimeout(c) \/ ClientGone(c) PROVE IInv'
  BY <1>2, ProposeCheckStep, ProposeTimeoutStep, ClientGoneStep
<1>3. ASSUME NEW r \in commits, Commit(r) PROVE IInv'
  BY <1>3, CommitMarkStep, CommitApplyStep DEF Commit
<1>4. ASSUME NEW n \in Node, Handle(n) PROVE IInv'
  BY <1>4, HandleMCollectStep, HandleMCollectAckStep, HandleMCommitStep, HandleClockBumpStep
  DEF Handle
<1>5. ASSUME NEW n \in Node, ClockBump(n) PROVE IInv'
  BY <1>5, ClockBumpStep
<1>6. ASSUME NEW n \in Node, NEW m \in MemberId, AddNode(n, m) \/ RemoveNode(n, m) PROVE IInv'
  BY <1>6, MemberStep
<1>7. CASE UNCHANGED vars
  BY <1>7, UnchangedStep
<1> QED BY <1>1, <1>2, <1>3, <1>4, <1>5, <1>6, <1>7 DEF Next

\* The inductive invariant: what each node, message and task knows of a dot
\* follows from what the dot's coordinator knows.
THEOREM Invariance == Spec => []IInv
<1> QED BY InitHolds, NextHolds, PTL DEF Spec

\* Every variable of a node keeps its type.
THEOREM TypeCorrect == Spec => []TypeOK
<1>1. IInv => TypeOK
  BY DEF IInv
<1> QED BY <1>1, Invariance, PTL

\* The change a dot names is the one its coordinator tracks.
LEMMA TruthFacts ==
  ASSUME IInv
  PROVE  /\ \A c \in Change : dotOf[c] # NoDot =>
              dotOf[c] \in Dot /\ Home(dotOf[c]) \in Node /\ Truth(dotOf[c]) = c
         /\ \A n \in Node, d \in Dot : Tracked(n, d) =>
              /\ cmd[n][d] \in Change /\ dotOf[cmd[n][d]] = d /\ cmd[n][d] = Truth(d)
<1>1. ASSUME NEW c \in Change, dotOf[c] # NoDot
      PROVE  dotOf[c] \in Dot /\ Home(dotOf[c]) \in Node /\ Truth(dotOf[c]) = c
  BY <1>1, DotFacts DEF IInv, TypeOK, CallsInv
<1>2. ASSUME NEW n \in Node, NEW d \in Dot, Tracked(n, d)
      PROVE  cmd[n][d] \in Change /\ dotOf[cmd[n][d]] = d
  BY <1>2 DEF IInv, TypeOK, TrackInv, Tracked
<1> QED BY <1>1, <1>2, DotFacts

\* A dot stands for one changelog, on every node and in every message.
THEOREM DotsAreUnique == Spec => []DotNamesOneChange
<1>1. ASSUME IInv PROVE DotNamesOneChange
  <2> SUFFICES ASSUME NEW d \in Dot PROVE \A c \in Names(d) : c = Truth(d)
    BY DEF DotNamesOneChange
  <2>1. \A n \in Node : cmd[n][d] # NoChange => cmd[n][d] = Truth(d)
    BY <1>1, TruthFacts DEF Tracked
  <2>2. ASSUME NEW m \in net, m.type \in {"MCollect", "MCommit"}, m.dot = d
        PROVE  m.change = Truth(d)
    <3>1. m.change \in Change /\ dotOf[m.change] = d
      BY <1>1, <2>2, MessageKinds DEF IInv, NetInv, TypeOK
    <3> QED BY <1>1, <3>1, TruthFacts, DotFacts
  <2> QED BY <2>1, <2>2 DEF Names
<1> QED BY <1>1, Invariance, PTL

\* Whatever tasks race and whatever messages are doubled, a store takes a
\* changelog at most once, and the metric counts each committed dot once.
THEOREM StoresTakeOnce == Spec => [](AppliedAtMostOnce /\ CountIsExact)
<1>1. IInv => AppliedAtMostOnce /\ CountIsExact
  BY DEF IInv, StoreInv
<1> QED BY <1>1, Invariance, PTL

\* The nodes whose acks made a coordinator commit do hold the command.
LEMMA QuorumHolds ==
  ASSUME IInv, NEW n \in Node, NEW d \in committedDots[n]
  PROVE  /\ d \in Dot /\ Truth(d) \in Change /\ dotOf[Truth(d)] = d
         /\ Cardinality(Holders(d, Truth(d))) >= FastQuorumSize(Home(d))
<1>1. d \in Dot /\ Home(d) \in Node
  BY DotFacts DEF IInv, TypeOK
<1>2. done[Home(d)][d] /\ EnoughAcks(Home(d), acks[Home(d)][d]) /\ Tracked(Home(d), d)
  BY <1>1 DEF IInv, MarkInv
<1>3. acks[Home(d)][d] \subseteq Holders(d, Truth(d))
  <2>1. acks[Home(d)][d] \subseteq Node
    BY <1>1 DEF IInv, TypeOK
  <2>2. \A k \in acks[Home(d)][d] : Tracked(k, d)
    BY <1>1 DEF IInv, TrackInv
  <2> QED BY <1>1, <2>1, <2>2, TruthFacts DEF Holders
<1>4. EnoughAcks(Home(d), Holders(d, Truth(d)))
  BY <1>1, <1>2, <1>3, AcksOnlyHelp DEF Holders
<1> QED BY <1>1, <1>2, <1>4, TruthFacts DEF EnoughAcks

\* No node takes for committed what a fast quorum does not hold, and an "ok"
\* means the coordinator's store has the write and a fast quorum holds it.
THEOREM CommitsAreDurable == Spec => [](CommittedHeldByQuorum /\ OkIsDurable)
<1>1. ASSUME IInv PROVE CommittedHeldByQuorum
  BY <1>1, QuorumHolds DEF CommittedHeldByQuorum, Truth
<1>2. ASSUME IInv PROVE OkIsDurable
  <2> SUFFICES ASSUME NEW c \in Change, reply[c] = "ok"
               PROVE  /\ c \in Contents(applied[Home(dotOf[c])])
                      /\ Cardinality(Holders(dotOf[c], c)) >= FastQuorumSize(Home(dotOf[c]))
    BY DEF OkIsDurable
  <2>1. /\ dotOf[c] \in Dot /\ Home(dotOf[c]) \in Node /\ Truth(dotOf[c]) = c
        /\ c \in Contents(applied[Home(dotOf[c])])
    BY <1>2, TruthFacts DEF IInv, CallsInv, StoreInv
  <2>2. dotOf[c] \in committedDots[Home(dotOf[c])]
    BY <1>2, <2>1 DEF IInv, StoreInv
  <2> QED BY <1>2, <2>1, <2>2, QuorumHolds
<1> QED BY <1>1, <1>2, Invariance, PTL

\* In particular an "ok" is never told before the coordinator's store and a
\* quorum hold the change (propose, commit_command).
THEOREM OksAreDurable == Spec => []OkIsDurable
<1>1. CommittedHeldByQuorum /\ OkIsDurable => OkIsDurable
  OBVIOUS
<1> QED BY <1>1, CommitsAreDurable, PTL

\* The metric counts each committed dot once (mark_committed and its callers).
THEOREM CountsAreExact == Spec => []CountIsExact
<1>1. AppliedAtMostOnce /\ CountIsExact => CountIsExact
  OBVIOUS
<1> QED BY <1>1, StoresTakeOnce, PTL

\* Clocks never run behind the commands a node tracks or has committed.
THEOREM ClocksAreCausal == Spec => []StampsAreCausal
<1>1. ASSUME IInv PROVE StampsAreCausal
  <2>1. ASSUME NEW n \in Node, NEW d \in Dot, Tracked(n, d) \/ IsCommitted(n, d)
        PROVE  clock[n] >= cmdClock[Home(d)][d]
    BY <1>1, <2>1 DEF IInv, TrackInv, MarkInv, IsCommitted
  <2>2. \A m \in net : m.type = "MCollectAck" => m.clock > cmdClock[Home(m.dot)][m.dot]
    BY <1>1 DEF IInv, NetInv
  <2> QED BY <2>1, <2>2 DEF StampsAreCausal
<1> QED BY <1>1, Invariance, PTL

-----------------------------------------------------------------------------
(* The refinement: every step of the protocol is a step of Replication or    *)
(* leaves its variables alone.                                               *)

PromiseVars == <<SubmittedAt, HeldBy, ChosenChanges, applied, reply>>

\* Steps that touch no dot, command, mark, store or reply.
LEMMA Stutters ==
  ASSUME UNCHANGED <<cmd, done, dotOf, applied, reply>>
  PROVE  UNCHANGED PromiseVars
BY DEF PromiseVars, SubmittedAt, HeldBy, ChosenChanges, HasDot, Holders

\* A proposal submits its change.
LEMMA ProposeSubmits ==
  ASSUME IInv, NEW n \in Node, NEW c \in Change, Propose(n, c)
  PROVE  Promise!Submit(n, c)
<1> DEFINE d == <<n, nextSeq[n]>>
<1>0. TypeOK /\ CallsInv /\ TrackInv /\ IInv'
  BY ProposeStep DEF IInv
<1>1. /\ d \in Dot /\ Home(d) = n /\ stage[c] = "new" /\ d[2] = nextSeq[n]
      /\ dotOf' = [dotOf EXCEPT ![c] = d]
      /\ UNCHANGED <<done, applied, reply>>
  BY <1>0, ConstantsOK, DotFacts DEF Propose, TypeOK
<1>2. dotOf[c] = NoDot
  BY <1>0, <1>1 DEF CallsInv
<1>3. \A x \in Change : dotOf[x] # d
  <2> SUFFICES ASSUME NEW x \in Change PROVE dotOf[x] # d
    OBVIOUS
  <2>1. dotOf[x] # NoDot => dotOf[x][2] < nextSeq[Home(dotOf[x])]
    BY <1>0 DEF CallsInv
  <2> QED BY <2>1, <1>1, DotFacts DEF TypeOK
<1>4. \A k \in Node : ~Tracked(k, d) /\ ~done[k][d]
  <2>1. \A k \in Node : ~Tracked(k, d)
    BY <1>1, <1>3, TruthFacts
  <2> QED BY <1>1, <2>1 DEF IInv, MarkInv
<1>5. PICK t \in Nat : AddCommand(n, d, c, t)
  <2>1. \A now \in PhysicalTime : Ticked(clock[n], now) \in Nat
    BY <1>0, NowIsNumber, ClockFacts DEF TypeOK
  <2> QED BY <2>1 DEF Propose
<1> HIDE DEF d
<1>6. \A k \in Node, e \in Dot : cmd'[k][e] = IF k = n /\ e = d THEN c ELSE cmd[k][e]
  <2>1. cmd' = [cmd EXCEPT ![n][d] = c]
    BY <1>1, <1>4, <1>5 DEF AddCommand
  <2>2. cmd \in [Node -> [Dot -> Change \cup {NoChange}]] /\ c \in Change \cup {NoChange}
    BY <1>0 DEF TypeOK
  <2> QED BY <1>1, <2>1, <2>2, CellChange
<1>7. \A x \in Change : dotOf'[x] = IF x = c THEN d ELSE dotOf[x]
  BY <1>0, <1>1 DEF TypeOK
<1>8. SubmittedAt[c] = NoDot /\ SubmittedAt' = [SubmittedAt EXCEPT ![c] = n]
  <2>1. SubmittedAt'[c] = n
    BY <1>1, <1>7, DotFacts DEF SubmittedAt, HasDot
  <2>2. \A x \in Change : x # c => SubmittedAt'[x] = SubmittedAt[x]
    BY <1>7 DEF SubmittedAt, HasDot
  <2>3. SubmittedAt[c] = NoDot
    BY <1>2 DEF SubmittedAt, HasDot
  <2> QED BY <2>1, <2>2, <2>3 DEF SubmittedAt
<1>9. HeldBy' = [HeldBy EXCEPT ![c] = {n}]
  <2>1. HeldBy'[c] = {n}
    BY <1>1, <1>4, <1>6, <1>7, DotFacts, ConstantsOK DEF HeldBy, HasDot, Holders, Tracked
  <2>2. ASSUME NEW x \in Change, x # c PROVE HeldBy'[x] = HeldBy[x]
    <3>1. dotOf'[x] = dotOf[x] /\ dotOf[x] # d /\ dotOf[x] \in Dot \cup {NoDot}
      BY <1>0, <1>3, <1>7, <2>2 DEF TypeOK
    <3> QED BY <1>6, <3>1 DEF HeldBy, HasDot, Holders
  <2> QED BY <2>1, <2>2 DEF HeldBy
<1>10. ChosenChanges' = ChosenChanges
  BY <1>1, <1>2, <1>4, <1>7, DotFacts DEF ChosenChanges, HasDot
<1> QED BY <1>1, <1>8, <1>9, <1>10 DEF Promise!Submit

\* Only a command a node did not track yet makes it a holder.
LEMMA CollectHolds ==
  ASSUME IInv, NEW n \in Node, NEW m \in net, HandleMCollect(n, m)
  PROVE  Promise!Hold(n, m.change) \/ UNCHANGED PromiseVars
<1> DEFINE d == m.dot
           c == m.change
<1>0. TypeOK /\ CallsInv /\ TrackInv /\ NetInv
  BY DEF IInv
<1>1. /\ d \in Dot /\ c \in Change /\ dotOf[c] = d /\ m.clock \in Nat
      /\ AddCommand(n, d, c, m.clock)
      /\ UNCHANGED <<dotOf, done, applied, reply>>
  <2>1. m \in Message /\ m.type = "MCollect"
    BY <1>0 DEF HandleMCollect, TypeOK
  <2> QED BY <1>0, <2>1, MessageKinds DEF HandleMCollect, NetInv, callVars
<1> HIDE DEF d, c
<1>2. CASE Tracked(n, d)
  BY <1>1, <1>2, Stutters DEF AddCommand
<1>3. CASE ~Tracked(n, d)
  <2>1. \A k \in Node, e \in Dot : cmd'[k][e] = IF k = n /\ e = d THEN c ELSE cmd[k][e]
    <3>1. cmd' = [cmd EXCEPT ![n][d] = c]
      BY <1>1, <1>3 DEF AddCommand
    <3>2. cmd \in [Node -> [Dot -> Change \cup {NoChange}]] /\ c \in Change \cup {NoChange}
      BY <1>0, <1>1 DEF TypeOK
    <3> QED BY <1>1, <3>1, <3>2, CellChange
  <2>2. HasDot(c) /\ SubmittedAt[c] # NoDot
    BY <1>1, DotFacts, ConstantsOK DEF SubmittedAt, HasDot
  <2>3. HeldBy' = [HeldBy EXCEPT ![c] = @ \cup {n}]
    <3>1. HeldBy'[c] = HeldBy[c] \cup {n}
      <4>1. HeldBy'[c] = {k \in Node : cmd'[k][d] = c} /\ HeldBy[c] = {k \in Node : cmd[k][d] = c}
        BY <1>1, <2>2 DEF HeldBy, HasDot, Holders
      <4> QED BY <4>1, <1>1, <2>1
    <3>2. ASSUME NEW x \in Change, x # c PROVE HeldBy'[x] = HeldBy[x]
      <4>1. dotOf[x] # NoDot => dotOf[x] \in Dot /\ dotOf[x] # d
        BY <1>1, <3>2, TruthFacts
      <4>2. CASE dotOf[x] = NoDot
        BY <1>1, <4>2 DEF HeldBy, HasDot
      <4>3. CASE dotOf[x] # NoDot
        <5>1. \A k \in Node : cmd'[k][dotOf[x]] = cmd[k][dotOf[x]]
          BY <2>1, <4>1, <4>3
        <5>2. Holders(dotOf[x], x)' = Holders(dotOf[x], x)
          BY <1>1, <5>1 DEF Holders
        <5> QED BY <1>1, <5>2 DEF HeldBy, HasDot
      <4> QED BY <4>2, <4>3
    <3> QED BY <3>1, <3>2 DEF HeldBy
  <2>4. SubmittedAt' = SubmittedAt /\ ChosenChanges' = ChosenChanges
    BY <1>1 DEF SubmittedAt, ChosenChanges, HasDot
  <2> QED BY <1>1, <2>2, <2>3, <2>4 DEF Promise!Hold, c
<1> QED BY <1>2, <1>3

\* A coordinator's mark is a choice backed by the holders.
LEMMA MarkChooses ==
  ASSUME IInv, NEW r \in commits, CommitMark(r)
  PROVE  Promise!Choose(cmd[r.node][r.dot]) \/ UNCHANGED PromiseVars
<1> DEFINE n == r.node
           d == r.dot
           c == cmd[n][d]
<1>0. TypeOK /\ CountIsExact /\ RunnerInv /\ MarkInv
  BY DEF IInv
<1>1. /\ n \in Node /\ d \in Dot /\ n = Home(d) /\ c \in Change /\ dotOf[c] = d
  BY RunnerFacts
<1>2. UNCHANGED <<cmd, dotOf, applied, reply>>
  BY DEF CommitMark
<1> HIDE DEF n, d, c
<1>3. CASE ~Uncommitted(n, d)
  BY <1>2, <1>3, Stutters DEF CommitMark, n, d
<1>4. CASE Uncommitted(n, d)
  <2>1. MarkCommitted(n, d) /\ ~done[n][d] /\ d \notin committedDots[n] /\ Tracked(n, d)
    BY <1>0, <1>1, <1>4 DEF CommitMark, Uncommitted, MarkInv, n, d
  <2>2. \A k \in Node, e \in Dot : done'[k][e] <=> done[k][e] \/ (k = n /\ e = d)
    BY <1>0, <1>1, <2>1, MarkFacts
  <2>3. SubmittedAt' = SubmittedAt /\ HeldBy' = HeldBy
    BY <1>2 DEF SubmittedAt, HeldBy, HasDot, Holders
  <2>4. ChosenChanges' = ChosenChanges \cup {c}
    <3>1. c \in ChosenChanges'
      BY <1>1, <1>2, <2>2, DotFacts DEF ChosenChanges, HasDot
    <3>2. \A x \in Change : x # c => (x \in ChosenChanges' <=> x \in ChosenChanges)
      <4> SUFFICES ASSUME NEW x \in Change, x # c
                   PROVE  x \in ChosenChanges' <=> x \in ChosenChanges
        OBVIOUS
      <4>1. dotOf[x] # NoDot => /\ dotOf[x] \in Dot /\ Home(dotOf[x]) \in Node
                                /\ dotOf[x] # d
        BY <1>1, TruthFacts
      <4> QED BY <1>2, <2>2, <4>1 DEF ChosenChanges, HasDot
    <3> QED BY <1>1, <3>1, <3>2 DEF ChosenChanges
  <2>5. SubmittedAt[c] = n /\ n # NoDot
    BY <1>1, DotFacts, ConstantsOK DEF SubmittedAt, HasDot
  <2>6. Cardinality(HeldBy[c]) >= FastQuorumSize(n)
    <3>1. EnoughAcks(n, acks[n][d])
      BY <1>0 DEF RunnerInv, n, d
    <3>2. acks[n][d] \subseteq Holders(d, c)
      <4>1. acks[n][d] \subseteq Node /\ \A k \in acks[n][d] : Tracked(k, d)
        BY <1>0, <1>1 DEF IInv, TypeOK, TrackInv
      <4>2. Truth(d) = c
        BY <1>1, TruthFacts, DotFacts
      <4> QED BY <1>1, <4>1, <4>2, TruthFacts DEF Holders
    <3>3. EnoughAcks(n, Holders(d, c))
      BY <1>1, <3>1, <3>2, AcksOnlyHelp DEF Holders
    <3>4. HeldBy[c] = Holders(d, c)
      BY <1>1, DotFacts DEF HeldBy, HasDot
    <3> QED BY <3>3, <3>4 DEF EnoughAcks
  <2>7. Promise!Choose(c)
    <3>1. SubmittedAt[c] # NoDot
      BY <2>5
    <3>2. HeldBy[c] \in FastQuorums[SubmittedAt[c]]
      BY <1>1, <2>5, <2>6 DEF FastQuorums, HeldBy, Holders, HasDot
    <3>3. UNCHANGED <<SubmittedAt, HeldBy, applied, reply>>
      BY <1>2, <2>3
    <3> QED BY <2>4, <3>1, <3>2, <3>3 DEF Promise!Choose
  <2> QED BY <2>7 DEF c, n, d
<1> QED BY <1>3, <1>4

\* A coordinator's apply writes the chosen change at home and answers its
\* client, or fails and tells the client so, or fails unnoticed.
LEMMA ApplyWrites ==
  ASSUME IInv, NEW r \in commits, CommitApply(r)
  PROVE  \/ Promise!Write(r.node, cmd[r.node][r.dot])
         \/ Promise!Fail(cmd[r.node][r.dot])
         \/ UNCHANGED PromiseVars
<1> DEFINE n == r.node
           d == r.dot
           c == cmd[n][d]
           w == pending[n][d]
<1>0. TypeOK /\ RunnerInv /\ StoreInv
  BY DEF IInv
<1>1. /\ n \in Node /\ d \in Dot /\ n = Home(d) /\ c \in Change /\ dotOf[c] = d
      /\ n # NoDot
  BY RunnerFacts, ConstantsOK
<1>2. UNCHANGED <<cmd, done, dotOf>> /\ r.at = "marked"
  BY DEF CommitApply, stateVars
<1>3. PICK ok \in Outcomes(c), cut \in BOOLEAN :
           /\ ApplyChange(n, c, ok)
           /\ reply' = IF w # NoChange /\ stage[w] # "gone" /\ ~cut
                       THEN [reply EXCEPT ![w] = ReplyTo(ok)] ELSE reply
  BY DEF CommitApply
<1>4. done[n][d] /\ c \notin Contents(applied[n])
  BY <1>0, <1>2 DEF RunnerInv
<1>5. w # NoChange => w = c /\ reply[c] = "none"
  BY <1>0, <1>1 DEF StoreInv
<1> HIDE DEF n, d, c, w
<1>6. SubmittedAt' = SubmittedAt /\ HeldBy' = HeldBy /\ ChosenChanges' = ChosenChanges
  BY <1>2 DEF SubmittedAt, HeldBy, ChosenChanges, HasDot, Holders
<1>7. SubmittedAt[c] = n /\ SubmittedAt[c] # NoDot /\ c \in ChosenChanges
  BY <1>1, <1>4, DotFacts DEF SubmittedAt, ChosenChanges, HasDot
<1>8. CASE ok
  <2>1. applied' = [applied EXCEPT ![n] = Append(@, c)]
    BY <1>3, <1>8 DEF ApplyChange
  <2>2. reply' = reply \/ (reply[c] = "none" /\ reply' = [reply EXCEPT ![c] = "ok"])
    BY <1>3, <1>5, <1>8 DEF ReplyTo
  <2>3. \A i \in DOMAIN applied[n] : applied[n][i] # c
    BY <1>4 DEF Contents
  <2>4. Promise!Write(n, c)
    BY <1>6, <1>7, <2>1, <2>2, <2>3 DEF Promise!Write
  <2> QED BY <2>4 DEF n, d, c
<1>9. CASE ~ok
  <2>1. applied' = applied
    BY <1>3, <1>9 DEF ApplyChange
  <2>2. reply' = reply \/ (reply[c] = "none" /\ reply' = [reply EXCEPT ![c] = "error"])
    BY <1>3, <1>5, <1>9 DEF ReplyTo
  <2>3. Promise!Fail(c) \/ UNCHANGED PromiseVars
    BY <1>6, <1>7, <2>1, <2>2 DEF Promise!Fail, PromiseVars
  <2> QED BY <2>3 DEF n, d, c
<1> QED BY <1>8, <1>9

\* An MCommit writes a chosen change or changes nothing that was promised.
LEMMA MCommitWrites ==
  ASSUME IInv, NEW n \in Node, NEW m \in net, HandleMCommit(n, m)
  PROVE  Promise!Write(n, m.change) \/ UNCHANGED PromiseVars
<1> DEFINE d == m.dot
           c == m.change
<1>0. TypeOK /\ CountIsExact /\ NetInv /\ StoreInv /\ MarkInv
  BY DEF IInv
<1>1. /\ d \in Dot /\ c \in Change /\ dotOf[c] = d /\ done[Home(d)][d]
      /\ UNCHANGED <<cmd, dotOf, reply>>
      /\ IF IsCommitted(n, d)
         THEN UNCHANGED <<applied, done, committedDots, committedCount, lastApplied>>
         ELSE /\ \E ok \in Outcomes(c) : ApplyChange(n, c, ok)
              /\ MarkCommitted(n, d)
  <2>1. m \in Message /\ m.type = "MCommit"
    BY <1>0 DEF HandleMCommit, TypeOK
  <2> QED BY <1>0, <2>1, MessageKinds DEF HandleMCommit, NetInv, callVars
<1> HIDE DEF d, c
<1>2. CASE IsCommitted(n, d)
  BY <1>1, <1>2, Stutters
<1>3. CASE ~IsCommitted(n, d)
  <2>1. MarkCommitted(n, d) /\ d \notin committedDots[n] /\ ~done[n][d] /\ n # Home(d)
    BY <1>0, <1>1, <1>3 DEF IsCommitted, MarkInv
  <2>2. \A k \in Node, e \in Dot :
          done'[k][e] <=> done[k][e] \/ (k = n /\ e = d /\ Tracked(n, d))
    BY <1>0, <1>1, <2>1, MarkFacts
  <2>3. SubmittedAt' = SubmittedAt /\ HeldBy' = HeldBy
    BY <1>1 DEF SubmittedAt, HeldBy, HasDot, Holders
  <2>4. ChosenChanges' = ChosenChanges
    <3>1. \A x \in Change : dotOf[x] # NoDot => dotOf[x] \in Dot /\ Home(dotOf[x]) \in Node
      BY TruthFacts
    <3>2. \A e \in Dot : done'[Home(e)][e] <=> done[Home(e)][e]
      BY <2>1, <2>2, DotFacts
    <3> QED BY <1>1, <3>1, <3>2 DEF ChosenChanges, HasDot
  <2>5. c \in ChosenChanges
    BY <1>1, DotFacts DEF ChosenChanges, HasDot
  <2>6. \A i \in DOMAIN applied[n] : applied[n][i] # c
    BY <1>0, <1>1, <2>1 DEF StoreInv, Contents
  <2>7. applied' = applied \/ applied' = [applied EXCEPT ![n] = Append(@, c)]
    BY <1>1, <1>3 DEF ApplyChange
  <2>8. Promise!Write(n, c) \/ UNCHANGED PromiseVars
    BY <1>1, <2>3, <2>4, <2>5, <2>6, <2>7 DEF Promise!Write, PromiseVars
  <2> QED BY <2>8 DEF c
<1> QED BY <1>2, <1>3

\* A timeout tells a client that waits of a failure.
LEMMA TimeoutFails ==
  ASSUME IInv, NEW c \in Change, ProposeTimeout(c)
  PROVE  Promise!Fail(c)
<1>1. /\ reply[c] = "none" /\ reply' = [reply EXCEPT ![c] = "timeout"]
      /\ UNCHANGED <<cmd, done, dotOf, applied>>
  BY DEF ProposeTimeout, stateVars
<1>2. dotOf[c] # NoDot /\ dotOf[c] \in Dot /\ Home(dotOf[c]) \in Node
  BY TruthFacts DEF ProposeTimeout, IInv, CallsInv
<1>3. SubmittedAt[c] # NoDot
  BY <1>2, ConstantsOK DEF SubmittedAt, HasDot
<1>4. SubmittedAt' = SubmittedAt /\ HeldBy' = HeldBy /\ ChosenChanges' = ChosenChanges
  BY <1>1 DEF SubmittedAt, HeldBy, ChosenChanges, HasDot, Holders
<1> QED BY <1>1, <1>3, <1>4 DEF Promise!Fail

\* Every step is a step of Replication or a stutter.
LEMMA StepKeepsPromise ==
  ASSUME IInv, [Next]_vars
  PROVE  [Promise!Next]_(Promise!vars)
<1>0. Promise!vars = PromiseVars
  BY DEF Promise!vars, PromiseVars
<1> SUFFICES Promise!Next \/ UNCHANGED PromiseVars
  BY <1>0 DEF Promise!vars, PromiseVars
<1>1. ASSUME NEW n \in Node, NEW c \in Change, Propose(n, c) PROVE Promise!Next
  BY <1>1, ProposeSubmits DEF Promise!Next
<1>2. ASSUME NEW c \in Change, ProposeTimeout(c) PROVE Promise!Next
  BY <1>2, TimeoutFails DEF Promise!Next
<1>3. ASSUME NEW c \in Change, ProposeCheck(c) \/ ClientGone(c) PROVE UNCHANGED PromiseVars
  BY <1>3, Stutters DEF ProposeCheck, ClientGone, stateVars
<1>4. ASSUME NEW r \in commits, CommitMark(r) PROVE Promise!Next \/ UNCHANGED PromiseVars
  BY <1>4, MarkChooses, RunnerFacts DEF Promise!Next
<1>5. ASSUME NEW r \in commits, CommitApply(r) PROVE Promise!Next \/ UNCHANGED PromiseVars
  BY <1>5, ApplyWrites, RunnerFacts DEF Promise!Next
<1>6. ASSUME NEW n \in Node, NEW m \in net, HandleMCollect(n, m)
      PROVE  Promise!Next \/ UNCHANGED PromiseVars
  <2>1. m.change \in Change
    BY <1>6, MessageKinds DEF HandleMCollect, IInv, TypeOK
  <2> QED BY <1>6, <2>1, CollectHolds DEF Promise!Next
<1>7. ASSUME NEW n \in Node, NEW m \in net, HandleMCommit(n, m)
      PROVE  Promise!Next \/ UNCHANGED PromiseVars
  <2>1. m.change \in Change
    BY <1>7, MessageKinds DEF HandleMCommit, IInv, TypeOK
  <2> QED BY <1>7, <2>1, MCommitWrites DEF Promise!Next
<1>8. ASSUME NEW n \in Node, NEW m \in net, HandleMCollectAck(n, m) \/ HandleClockBump(n, m)
      PROVE  UNCHANGED PromiseVars
  BY <1>8, Stutters DEF HandleMCollectAck, HandleClockBump, stateVars, callVars
<1>9. ASSUME NEW n \in Node, ClockBump(n) PROVE UNCHANGED PromiseVars
  BY <1>9, Stutters DEF ClockBump, stateVars, callVars
<1>10. ASSUME NEW n \in Node, NEW m \in MemberId, AddNode(n, m) \/ RemoveNode(n, m)
       PROVE  UNCHANGED PromiseVars
  BY <1>10, Stutters DEF AddNode, RemoveNode, stateVars, callVars
<1>11. CASE UNCHANGED vars
  BY <1>11, Stutters DEF vars, stateVars, callVars
<1> QED
  BY <1>1, <1>2, <1>3, <1>4, <1>5, <1>6, <1>7, <1>8, <1>9, <1>10, <1>11
  DEF Next, Handle, Commit

\* The protocol does what Replication promises: only what enough nodes hold is
\* chosen, only what is chosen is stored, once, and "ok" comes with the store.
THEOREM TempoKeepsPromise == Spec => KeepsPromise
<1>1. Init => Promise!Init
  BY DEF Init, Promise!Init, SubmittedAt, HeldBy, ChosenChanges, HasDot
<1>2. IInv /\ [Next]_vars => [Promise!Next]_(Promise!vars)
  BY StepKeepsPromise
<1> QED BY <1>1, <1>2, Invariance, PTL DEF Spec, KeepsPromise, Promise!Spec
=============================================================================
