--------------------------- MODULE RaftStoreProofs --------------------------
(***************************************************************************)
(* Proofs about RaftStore.  The invariant IInv says how far each node has  *)
(* come in the decided entries, replays of snapshots included, and that    *)
(* the resources of which nothing remains to be applied are final.         *)
(***************************************************************************)
EXTENDS RaftStore, TLAPS

-----------------------------------------------------------------------------
(* Lemmas.                                                                  *)

\* An entry that can be applied and writes k is a changelog and has an index.
LEMMA OnFacts ==
  ASSUME TypeOK, NEW k, NEW i \in On(k)
  PROVE  /\ i \in Nat /\ 1 <= i /\ i <= Len(decided)
         /\ decided[i] \in Change /\ decided[i] \notin Bad /\ KeyOf[decided[i]] = k
BY DEF TypeOK, On

\* What a snapshot, or what is left of one, names are decided entries.
LEMMA SnapFacts ==
  ASSUME TypeOK, SnapInv, NEW n \in Node, NEW i \in Snap(n)
  PROVE  /\ i \in Nat /\ 1 <= i /\ i <= Reach(n) /\ i <= Len(decided)
         /\ i \in DOMAIN decided /\ decided[i] \in Change /\ decided[i] \notin Bad
<1>1. i \in Index
  BY DEF TypeOK, Snap
<1>2. i <= Reach(n) /\ Reach(n) <= Len(decided) /\ decided[i] \notin Bad
  BY DEF SnapInv
<1>3. Reach(n) \in Nat /\ Len(decided) \in Nat
  BY DEF TypeOK, Reach
<1> QED
  BY <1>1, <1>2, <1>3 DEF TypeOK, Index

\* A shared resource is written by no entry that may fail on one node only.
LEMMA SharedSucceeds ==
  ASSUME TypeOK, NEW k \in Shared, NEW c \in Change, KeyOf[c] = k, c \notin Bad
  PROVE  Outcomes(c) = {TRUE}
BY DEF Shared, Outcomes

LEMMA EffectValue ==
  ASSUME NEW c \in Change
  PROVE  Effect(c) \in Value /\ KeyOf[c] \in Resource
BY ConstantsOK DEF Effect, Value, ConstantsOK

-----------------------------------------------------------------------------
(* Initial states.                                                          *)

THEOREM InitIInv == Init => IInv
<1> SUFFICES ASSUME Init PROVE IInv
  OBVIOUS
<1> USE ConstantsOK
<1>1. TypeOK
  BY DEF Init, TypeOK, ConstantsOK, NoInstall, Value, Index
<1>2. decided = <<>> /\ \A k : On(k) = {}
  BY DEF Init, On
<1>3. \A n \in Node : Reach(n) = 0 /\ Rest(n) = {} /\ Snap(n) = {}
  BY DEF Init, Reach, Rest, Snap, NoInstall
<1>4. SnapInv
  BY <1>2, <1>3 DEF SnapInv
<1>5. StoreInv
  BY <1>2 DEF StoreInv, Final, ToldLast, Init, Shared
<1>6. BootInv
  BY DEF BootInv, Init
<1> QED
  BY <1>1, <1>4, <1>5, <1>6 DEF IInv

-----------------------------------------------------------------------------
(* Steps.                                                                   *)

\* What decides the truth of the invariant for the node n and the resource k
\* carries over when nothing of it changes.
LEMMA StoreFrame ==
  ASSUME NEW n \in Node, NEW k \in Shared, Reached(n, k) => Final(n, k) /\ ToldLast(n, k),
         UNCHANGED decided, store'[n][k] = store[n][k], told'[n] = told[n],
         Reached(n, k)' => Reached(n, k)
  PROVE  (Reached(n, k) => Final(n, k) /\ ToldLast(n, k))'
BY DEF Final, ToldLast, Last, On

\* The same of a node whose whole state stays.
LEMMA NodeFrame ==
  ASSUME NEW n \in Node, StoreInv, UNCHANGED decided, install'[n] = install[n],
         lastApplied'[n] = lastApplied[n], store'[n] = store[n], told'[n] = told[n],
         NEW k \in Shared
  PROVE  (Reached(n, k) => Final(n, k) /\ ToldLast(n, k))'
<1>1. Reached(n, k)' => Reached(n, k)
  BY DEF Reached, Reach, Rest, On
<1> QED
  BY <1>1, StoreFrame DEF StoreInv

LEMMA SnapFrame ==
  ASSUME NEW n \in Node, UNCHANGED decided, install'[n] = install[n],
         lastApplied'[n] = lastApplied[n], snapshot'[n] = snapshot[n]
  PROVE  Reach(n)' = Reach(n) /\ Rest(n)' = Rest(n) /\ Snap(n)' = Snap(n)
BY DEF Reach, Rest, Snap

\* Steps that change no store, channel, snapshot or index and decide nothing.
LEMMA IdleStep ==
  ASSUME IInv, TypeOK', BootInv',
         UNCHANGED <<decided, lastApplied, store, snapshot, told, install>>
  PROVE  IInv'
<1>1. SnapInv'
  BY DEF IInv, SnapInv, Reach, Rest, Snap, On
<1>2. StoreInv'
  BY NodeFrame DEF IInv, StoreInv
<1> QED
  BY <1>1, <1>2 DEF IInv

LEMMA SubmitStep == ASSUME IInv, NEW n \in Node, NEW c \in Change, Submit(n, c) PROVE IInv'
<1>1. TypeOK' /\ BootInv'
  BY DEF IInv, Submit, TypeOK, BootInv
<1> QED
  BY <1>1, IdleStep DEF Submit

LEMMA RefuseStep == ASSUME IInv, NEW c \in Change, Refuse(c) PROVE IInv'
<1>1. TypeOK' /\ BootInv'
  BY DEF IInv, Refuse, TypeOK, BootInv
<1> QED
  BY <1>1, IdleStep DEF Refuse

LEMMA BootCheckStep == ASSUME IInv, NEW n \in Node, BootCheck(n) PROVE IInv'
<1>1. TypeOK' /\ BootInv'
  BY DEF IInv, BootCheck, TypeOK, BootInv
<1> QED
  BY <1>1, IdleStep DEF BootCheck

\* A new entry is beyond what any node has applied: a resource it writes is not
\* reached any more, the other ones are written by the same entries as before.
LEMMA DecideStep == ASSUME IInv, NEW c \in Change, Decide(c) PROVE IInv'
<1> USE DEF IInv
<1>1. TypeOK' /\ BootInv'
  BY DEF Decide, TypeOK, BootInv
<1>2. /\ Len(decided) \in Nat /\ Len(decided') = Len(decided) + 1
      /\ decided'[Len(decided) + 1] = c /\ DOMAIN decided' = 1..(Len(decided) + 1)
      /\ DOMAIN decided = 1..Len(decided)
      /\ \A i \in DOMAIN decided : decided'[i] = decided[i]
  BY DEF Decide, TypeOK
<1>3. \A k : On(k)' = On(k) \cup (IF KeyOf[c] = k /\ c \notin Bad THEN {Len(decided) + 1} ELSE {})
  BY <1>2 DEF On
<1>4. \A n \in Node : /\ Reach(n)' = Reach(n) /\ Rest(n)' = Rest(n) /\ Snap(n)' = Snap(n)
                      /\ Reach(n) \in Nat /\ Reach(n) <= Len(decided)
  BY DEF Decide, Reach, Rest, Snap, TypeOK, SnapInv
<1>5. SnapInv'
  <2> SUFFICES ASSUME NEW n \in Node
               PROVE  /\ Reach(n)' <= Len(decided')
                      /\ \A i \in Snap(n)' : i <= Reach(n)' /\ decided'[i] \notin Bad
                      /\ \A k \in Shared' : \A i \in On(k)' : i <= Reach(n)' => i \in Snap(n)'
                      /\ Rest(n)' \subseteq Snap(n)'
                      /\ \A i \in Snap(n)' \ Rest(n)', j \in Rest(n)' : i < j
    BY DEF SnapInv
  <2>1. \A i \in Snap(n) : i <= Reach(n) /\ decided'[i] \notin Bad
    BY <1>2, SnapFacts
  <2>2. \A k \in Shared : \A i \in On(k)' : i <= Reach(n) => i \in Snap(n)
    BY <1>2, <1>3, <1>4 DEF SnapInv
  <2> QED
    BY <1>2, <1>4, <2>1, <2>2 DEF SnapInv, Shared
<1>6. StoreInv'
  <2> SUFFICES ASSUME NEW n \in Node, NEW k \in Shared, Reached(n, k)'
               PROVE  Final(n, k)' /\ ToldLast(n, k)'
    BY DEF StoreInv, Shared
  <2>1. On(k)' = On(k)
    <3>1. Len(decided) + 1 \notin On(k)'
      BY <1>2, <1>4 DEF Reached
    <3> QED
      BY <1>3, <3>1
  <2>2. Reached(n, k)
    BY <2>1, <1>4 DEF Reached
  <2>3. \A i \in On(k) : decided'[i] = decided[i]
    BY <1>2 DEF On
  <2>4. store' = store /\ told' = told
    BY DEF Decide
  <2>5. Final(n, k)'
    BY <2>1, <2>2, <2>3, <2>4 DEF StoreInv, Final, Last
  <2>6. ToldLast(n, k)'
    BY <2>1, <2>2, <2>3, <2>4 DEF StoreInv, ToldLast, Last
  <2> QED
    BY <2>5, <2>6
<1> QED
  BY <1>1, <1>5, <1>6

\* What ApplyChangelog does for the resource of its entry when that is the last
\* one decided on it, and for every other resource.
LEMMA AppliesLast ==
  ASSUME TypeOK, NEW n \in Node, NEW i \in Nat, NEW k \in Shared, Last(k, i),
         UNCHANGED decided, NEW ok \in Outcomes(decided[i]), ApplyChangelog(n, i, ok)
  PROVE  Final(n, k)' /\ ToldLast(n, k)'
<1>1. decided[i] \in Change /\ KeyOf[decided[i]] = k /\ ok = TRUE
  <2>1. i \in On(k)
    BY DEF Last
  <2>2. decided[i] \in Change /\ decided[i] \notin Bad /\ KeyOf[decided[i]] = k
    BY <2>1, OnFacts
  <2>3. Outcomes(decided[i]) = {TRUE}
    BY <2>2, SharedSucceeds
  <2> QED
    BY <2>2, <2>3
<1>2. k \in Resource
  BY DEF Shared
<1>3. /\ store'[n][k] = Effect(decided[i])
      /\ told'[n] = Append(told[n], decided[i]) /\ told[n] \in Seq(Change)
  BY <1>1, <1>2 DEF ApplyChangelog, TypeOK
<1>4. ASSUME NEW j \in On(k), Last(k, j) PROVE j = i
  <2>1. i \in On(k)
    BY DEF Last
  <2>2. i <= j /\ j <= i
    BY <1>4, <2>1 DEF Last
  <2>3. i \in Nat /\ j \in Nat
    BY <2>1, OnFacts
  <2> QED
    BY <2>2, <2>3
<1>5. On(k)' = On(k) /\ \A j : Last(k, j)' = Last(k, j)
  BY DEF On, Last
<1>6. Final(n, k)'
  BY <1>3, <1>4, <1>5 DEF Final, Last
<1>7. ToldLast(n, k)'
  <2>1. /\ Len(told[n]) + 1 \in DOMAIN told'[n]
        /\ told'[n][Len(told[n]) + 1] = decided'[i]
        /\ \A q \in DOMAIN told'[n] : q <= Len(told[n]) + 1
    BY <1>3
  <2> QED
    BY <2>1, <1>4, <1>5 DEF ToldLast
<1> QED
  BY <1>6, <1>7

LEMMA AppliesOther ==
  ASSUME TypeOK, NEW n \in Node, NEW i \in DOMAIN decided, NEW k \in Shared,
         i \notin On(k), UNCHANGED decided, Final(n, k), ToldLast(n, k),
         NEW ok \in Outcomes(decided[i]), ApplyChangelog(n, i, ok)
  PROVE  Final(n, k)' /\ ToldLast(n, k)'
<1>1. decided[i] \in Change /\ (ok => KeyOf[decided[i]] # k)
  <2>1. decided[i] \in Change
    BY DEF TypeOK
  <2>2. KeyOf[decided[i]] # k \/ decided[i] \in Bad
    BY DEF On
  <2>3. decided[i] \in Bad => ok = FALSE
    BY DEF Outcomes
  <2> QED
    BY <2>1, <2>2, <2>3
<1>2. On(k)' = On(k) /\ \A j : Last(k, j)' = Last(k, j)
  BY DEF On, Last
<1>3. CASE ok
  <2>1. store'[n][k] = store[n][k]
    BY <1>1, <1>3 DEF ApplyChangelog, TypeOK, Shared
  <2>2. Final(n, k)'
    BY <2>1, <1>2 DEF Final
  <2>3. told'[n] = Append(told[n], decided[i]) /\ told[n] \in Seq(Change)
    BY <1>3 DEF ApplyChangelog, TypeOK
  <2>4. ToldLast(n, k)'
    <3> SUFFICES ASSUME NEW j \in On(k), Last(k, j)
                 PROVE  \E p \in DOMAIN told'[n] :
                          /\ told'[n][p] = decided[j]
                          /\ \A q \in DOMAIN told'[n] : KeyOf[told'[n][q]] = k => q <= p
      BY <1>2 DEF ToldLast
    <3>1. PICK p \in DOMAIN told[n] :
            /\ told[n][p] = decided[j]
            /\ \A q \in DOMAIN told[n] : KeyOf[told[n][q]] = k => q <= p
      BY DEF ToldLast
    <3>2. p \in DOMAIN told'[n] /\ told'[n][p] = decided[j]
      BY <2>3, <3>1
    <3>3. \A q \in DOMAIN told'[n] : KeyOf[told'[n][q]] = k => q <= p
      BY <2>3, <3>1, <1>1, <1>3
    <3> QED
      BY <3>2, <3>3
  <2> QED
    BY <2>2, <2>4
<1>4. CASE ~ok
  BY <1>2, <1>4 DEF ApplyChangelog, Final, ToldLast
<1> QED
  BY <1>3, <1>4

\* ApplyChangelog keeps types and leaves the other nodes alone.
Applied(n, i, ok) ==
  /\ store' \in [Node -> [Resource -> Value]]
  /\ told' \in [Node -> Seq(Change)]
  /\ snapshot' \in [Node -> SUBSET Index]
  /\ snapshot'[n] = IF ok THEN snapshot[n] \cup {i} ELSE snapshot[n]
  /\ \A m \in Node \ {n} : /\ store'[m] = store[m] /\ told'[m] = told[m]
                           /\ snapshot'[m] = snapshot[m]

LEMMA AppliesType ==
  TypeOK => \A n \in Node, i \in DOMAIN decided, ok \in BOOLEAN :
              ApplyChangelog(n, i, ok) => Applied(n, i, ok)
<1> SUFFICES ASSUME TypeOK, NEW n \in Node, NEW i \in DOMAIN decided, NEW ok \in BOOLEAN,
                    ApplyChangelog(n, i, ok)
             PROVE  Applied(n, i, ok)
  OBVIOUS
<1>1. decided[i] \in Change /\ i \in Index
  BY DEF TypeOK, Index
<1>2. Effect(decided[i]) \in Value /\ KeyOf[decided[i]] \in Resource
  BY <1>1, EffectValue
<1>3. CASE ok
  <2>1. /\ store' = [store EXCEPT ![n][KeyOf[decided[i]]] = Effect(decided[i])]
        /\ told' = [told EXCEPT ![n] = Append(told[n], decided[i])]
        /\ snapshot' = [snapshot EXCEPT ![n] = snapshot[n] \cup {i}]
    BY <1>3 DEF ApplyChangelog
  <2>2. store \in [Node -> [Resource -> Value]] /\ told \in [Node -> Seq(Change)]
        /\ snapshot \in [Node -> SUBSET Index]
    BY DEF TypeOK
  <2>3. store' \in [Node -> [Resource -> Value]] /\ \A m \in Node \ {n} : store'[m] = store[m]
    BY <1>2, <2>1, <2>2
  <2>4. told' \in [Node -> Seq(Change)] /\ \A m \in Node \ {n} : told'[m] = told[m]
    BY <1>1, <2>1, <2>2
  <2>5. /\ snapshot' \in [Node -> SUBSET Index] /\ snapshot'[n] = snapshot[n] \cup {i}
        /\ \A m \in Node \ {n} : snapshot'[m] = snapshot[m]
    BY <1>1, <2>1, <2>2
  <2> QED
    BY <1>3, <2>3, <2>4, <2>5 DEF Applied
<1>4. CASE ~ok
  BY <1>4 DEF ApplyChangelog, TypeOK, Applied
<1> QED
  BY <1>3, <1>4

\* Applying the next entry: it is the last one of its resource if that is
\* reached afterwards, and none of any other resource.
LEMMA ApplyStep == ASSUME IInv, NEW n \in Node, Apply(n) PROVE IInv'
<1> USE DEF IInv
<1> DEFINE i == lastApplied[n] + 1
<1>1. /\ ~install[n].on /\ i \in DOMAIN decided /\ i \in Nat /\ 1 <= i /\ i <= Len(decided)
      /\ lastApplied' = [lastApplied EXCEPT ![n] = i]
      /\ UNCHANGED <<decided, origin, install, boot, restarts>>
  BY DEF Apply, TypeOK
<1>2. PICK ok \in Outcomes(decided[i]) :
        ApplyChangelog(n, i, ok) /\ Answers(n, decided[i], ok)
  BY DEF Apply
<1>3. ok \in BOOLEAN /\ (decided[i] \in Bad => ok = FALSE)
  BY DEF Outcomes
<1>4. decided[i] \in Change
  BY <1>1 DEF TypeOK
<1>5. Applied(n, i, ok)
  BY <1>1, <1>2, <1>3, AppliesType
<1>6. TypeOK'
  <2>1. reply' \in [Change -> {"none", "ok", "error"}]
    BY <1>2, <1>4 DEF Answers, TypeOK
  <2> QED
    BY <2>1, <1>1, <1>5 DEF TypeOK, Applied
<1>7. /\ Reach(n) = lastApplied[n] /\ Rest(n) = {} /\ Snap(n) = snapshot[n]
      /\ Reach(n)' = i /\ Rest(n)' = {} /\ Snap(n)' = snapshot'[n]
  BY <1>1 DEF Reach, Rest, Snap, TypeOK
<1>8. \A k : On(k)' = On(k)
  BY <1>1 DEF On
<1>9. ASSUME NEW m \in Node \ {n}
      PROVE  Reach(m)' = Reach(m) /\ Rest(m)' = Rest(m) /\ Snap(m)' = Snap(m)
  BY <1>1, <1>5, SnapFrame DEF TypeOK, Applied
<1>10. SnapInv'
  <2>1. \A j \in Snap(n)' : j <= i /\ decided[j] \notin Bad
    BY <1>1, <1>3, <1>5, <1>7, SnapFacts DEF TypeOK, Applied
  <2>2. \A k \in Shared : \A j \in On(k) : j <= i => j \in Snap(n)'
    <3> SUFFICES ASSUME NEW k \in Shared, NEW j \in On(k), j <= i PROVE j \in Snap(n)'
      OBVIOUS
    <3>1. j \in Nat /\ decided[j] \notin Bad /\ KeyOf[decided[j]] = k /\ decided[j] \in Change
      BY OnFacts
    <3>2. CASE j = i
      <4>1. Outcomes(decided[i]) = {TRUE}
        BY <3>1, <3>2, SharedSucceeds
      <4> QED
        BY <4>1, <3>2, <1>2, <1>5, <1>7 DEF Applied
    <3>3. CASE j # i
      <4>1. j <= Reach(n)
        BY <3>1, <3>3, <1>7 DEF TypeOK
      <4> QED
        BY <4>1, <1>5, <1>7 DEF SnapInv, Applied
    <3> QED
      BY <3>2, <3>3
  <2> QED
    BY <1>1, <1>7, <1>8, <1>9, <2>1, <2>2 DEF SnapInv, Shared
<1>11. ASSUME NEW k \in Shared, Reached(n, k)' PROVE Final(n, k)' /\ ToldLast(n, k)'
  <2>1. \A j \in On(k) : j <= i
    BY <1>11, <1>7, <1>8 DEF Reached
  <2>2. CASE i \in On(k)
    BY <2>1, <2>2, <1>1, <1>2, AppliesLast DEF Last
  <2>3. CASE i \notin On(k)
    <3>1. \A j \in On(k) : j <= Reach(n)
      BY <2>1, <2>3, <1>7, OnFacts DEF TypeOK
    <3>2. Final(n, k) /\ ToldLast(n, k)
      BY <3>1, <1>7 DEF Reached, StoreInv
    <3> QED
      BY <3>2, <2>3, <1>1, <1>2, AppliesOther
  <2> QED
    BY <2>2, <2>3
<1>12. StoreInv'
  <2> SUFFICES ASSUME NEW m \in Node, NEW k \in Shared
               PROVE  (Reached(m, k) => Final(m, k) /\ ToldLast(m, k))'
    BY DEF StoreInv, Shared
  <2>1. CASE m = n
    BY <2>1, <1>11
  <2>2. CASE m # n
    BY <2>2, <1>1, <1>5, NodeFrame DEF TypeOK, Applied
  <2> QED
    BY <2>1, <2>2
<1>13. BootInv'
  BY <1>1 DEF BootInv
<1> QED
  BY <1>6, <1>10, <1>12, <1>13

\* A snapshot of a node that has applied u entries or more holds all of them
\* that write a shared resource: only what nothing wrote is reached at once.
LEMMA InstallBeginStep ==
  ASSUME IInv, NEW n \in Node, NEW m \in Node, NEW u \in 1..lastApplied[m],
         InstallBegin(n, m, u)
  PROVE  IInv'
<1> USE DEF IInv
<1>1. /\ lastApplied[m] \in Nat /\ u \in Nat /\ u <= lastApplied[m] /\ ~install[m].on
      /\ UNCHANGED <<decided, origin, reply, lastApplied, store, snapshot, told, boot, restarts>>
  BY DEF InstallBegin, TypeOK
<1>2. Reach(m) = lastApplied[m] /\ Snap(m) = snapshot[m]
  BY <1>1 DEF Reach, Snap
<1>3. UpTo(m, u) \in SUBSET Index
  BY DEF UpTo, TypeOK
<1>4. install' = [install EXCEPT ![n] = [on |-> TRUE, rest |-> UpTo(m, u), upto |-> u, all |-> UpTo(m, u)]]
  BY DEF InstallBegin
<1>5. TypeOK'
  BY <1>1, <1>3, <1>4 DEF TypeOK
<1>6. Reach(n)' = u /\ Rest(n)' = UpTo(m, u) /\ Snap(n)' = UpTo(m, u)
  BY <1>4 DEF Reach, Rest, Snap, TypeOK
<1>7. \A k : On(k)' = On(k)
  BY <1>1 DEF On
<1>8. ASSUME NEW q \in Node \ {n}
      PROVE  Reach(q)' = Reach(q) /\ Rest(q)' = Rest(q) /\ Snap(q)' = Snap(q)
  BY <1>1, <1>4, SnapFrame DEF TypeOK
<1>9. \A k \in Shared : \A i \in On(k) : i <= u => i \in UpTo(m, u)
  <2> SUFFICES ASSUME NEW k \in Shared, NEW i \in On(k), i <= u PROVE i \in UpTo(m, u)
    OBVIOUS
  <2>1. i <= Reach(m)
    BY <1>1, <1>2, OnFacts
  <2> QED
    BY <2>1, <1>2 DEF SnapInv, UpTo
<1>10. u <= Len(decided) /\ \A i \in UpTo(m, u) : i <= u /\ decided[i] \notin Bad
  BY <1>1, <1>2 DEF SnapInv, UpTo, TypeOK
<1>11. SnapInv'
  BY <1>1, <1>6, <1>7, <1>8, <1>9, <1>10 DEF SnapInv, Shared
<1>12. ASSUME NEW k \in Shared PROVE Reached(n, k)' => Reached(n, k)
  BY <1>6, <1>7, <1>9 DEF Reached
<1>13. StoreInv'
  <2> SUFFICES ASSUME NEW q \in Node, NEW k \in Shared
               PROVE  (Reached(q, k) => Final(q, k) /\ ToldLast(q, k))'
    BY DEF StoreInv, Shared
  <2>1. CASE q = n
    BY <2>1, <1>1, <1>12, StoreFrame DEF StoreInv
  <2>2. CASE q # n
    BY <2>2, <1>1, <1>4, NodeFrame DEF TypeOK
  <2> QED
    BY <2>1, <2>2
<1>14. BootInv'
  BY <1>1 DEF BootInv
<1> QED
  BY <1>5, <1>11, <1>13, <1>14

\* Replaying in the order of the entries, what is left of the snapshot comes
\* after what is done: when nothing of a resource is left, its last write came
\* last.
LEMMA InstallStepStep ==
  ASSUME IInv, NEW n \in Node, NEW i \in install[n].rest, InstallStep(n, i)
  PROVE  IInv'
<1> USE DEF IInv
<1>1. /\ install[n].on /\ install' = [install EXCEPT ![n].rest = install[n].rest \ {i}]
      /\ \A j \in install[n].rest : i <= j
      /\ UNCHANGED <<decided, origin, reply, lastApplied, boot, restarts>>
  BY DEF InstallStep, Earliest
<1>2. PICK ok \in Outcomes(decided[i]) : ApplyChangelog(n, i, ok)
  BY DEF InstallStep
<1>3. ok \in BOOLEAN
  BY DEF Outcomes
<1>4. Rest(n) = install[n].rest /\ Snap(n) = install[n].all /\ Reach(n) = install[n].upto
  BY <1>1 DEF Rest, Snap, Reach
<1>5. i \in Snap(n)
  BY <1>4 DEF SnapInv
<1>6. i \in DOMAIN decided /\ i \in Nat /\ decided[i] \in Change /\ decided[i] \notin Bad
  BY <1>5, SnapFacts
<1>7. Applied(n, i, ok)
  BY <1>2, <1>3, <1>6, AppliesType
<1>8. TypeOK'
  <2>1. install' \in [Node -> [on : BOOLEAN, rest : SUBSET Index, upto : Nat, all : SUBSET Index]]
    <3>1. install[n] \in [on : BOOLEAN, rest : SUBSET Index, upto : Nat, all : SUBSET Index]
      BY DEF TypeOK
    <3>2. [install[n] EXCEPT !.rest = install[n].rest \ {i}]
            \in [on : BOOLEAN, rest : SUBSET Index, upto : Nat, all : SUBSET Index]
      BY <3>1
    <3>3. install' = [install EXCEPT ![n] = [install[n] EXCEPT !.rest = install[n].rest \ {i}]]
      BY <1>1
    <3> QED
      BY <3>2, <3>3 DEF TypeOK
  <2> QED
    BY <2>1, <1>1, <1>7 DEF TypeOK, Applied
<1>9. Reach(n)' = Reach(n) /\ Rest(n)' = Rest(n) \ {i} /\ Snap(n)' = Snap(n)
  BY <1>1, <1>4 DEF Reach, Rest, Snap, TypeOK
<1>10. \A k : On(k)' = On(k)
  BY <1>1 DEF On
<1>11. ASSUME NEW m \in Node \ {n}
       PROVE  Reach(m)' = Reach(m) /\ Rest(m)' = Rest(m) /\ Snap(m)' = Snap(m)
  BY <1>1, <1>7, SnapFrame DEF TypeOK, Applied
<1>12. \A p \in Snap(n) \ (Rest(n) \ {i}), q \in Rest(n) \ {i} : p < q
  <2> SUFFICES ASSUME NEW p \in Snap(n) \ (Rest(n) \ {i}), NEW q \in Rest(n) \ {i} PROVE p < q
    OBVIOUS
  <2>1. CASE p = i
    BY <2>1, <1>1, <1>4, <1>6, SnapFacts DEF SnapInv
  <2>2. CASE p # i
    BY <2>2 DEF SnapInv
  <2> QED
    BY <2>1, <2>2
<1>13. SnapInv'
  BY <1>1, <1>9, <1>10, <1>11, <1>12 DEF SnapInv, Shared
<1>14. ASSUME NEW k \in Shared, Reached(n, k)' PROVE Final(n, k)' /\ ToldLast(n, k)'
  <2>1. \A j \in On(k) : j <= Reach(n) /\ j \notin Rest(n) \ {i}
    BY <1>14, <1>9, <1>10 DEF Reached
  <2>2. CASE i \in On(k)
    <3>1. ASSUME NEW j \in On(k) PROVE j <= i
      <4>1. j \in Snap(n) \ Rest(n) \/ j = i
        BY <2>1, <3>1 DEF SnapInv
      <4> QED
        BY <4>1, <1>4, <1>6, SnapFacts, OnFacts DEF SnapInv
    <3> QED
      BY <3>1, <2>2, <1>1, <1>2, <1>6, AppliesLast DEF Last
  <2>3. CASE i \notin On(k)
    <3>1. Reached(n, k)
      BY <2>1, <2>3 DEF Reached
    <3> QED
      BY <3>1, <2>3, <1>1, <1>2, <1>6, AppliesOther DEF StoreInv
  <2> QED
    BY <2>2, <2>3
<1>15. StoreInv'
  <2> SUFFICES ASSUME NEW m \in Node, NEW k \in Shared
               PROVE  (Reached(m, k) => Final(m, k) /\ ToldLast(m, k))'
    BY DEF StoreInv, Shared
  <2>1. CASE m = n
    BY <2>1, <1>14
  <2>2. CASE m # n
    BY <2>2, <1>1, <1>7, NodeFrame DEF TypeOK, Applied
  <2> QED
    BY <2>1, <2>2
<1>16. BootInv'
  BY <1>1 DEF BootInv
<1> QED
  BY <1>8, <1>13, <1>15, <1>16

LEMMA InstallEndStep == ASSUME IInv, NEW n \in Node, InstallEnd(n) PROVE IInv'
<1> USE DEF IInv
<1>1. /\ install[n].on /\ install[n].rest = {}
      /\ lastApplied' = [lastApplied EXCEPT ![n] = install[n].upto]
      /\ snapshot' = [snapshot EXCEPT ![n] = install[n].all]
      /\ install' = [install EXCEPT ![n] = NoInstall]
      /\ UNCHANGED <<decided, origin, reply, store, told, boot, restarts>>
  BY DEF InstallEnd
<1>2. TypeOK'
  BY <1>1 DEF TypeOK, NoInstall
<1>3. Reach(n)' = Reach(n) /\ Rest(n)' = Rest(n) /\ Snap(n)' = Snap(n)
  BY <1>1 DEF Reach, Rest, Snap, TypeOK, NoInstall
<1>4. \A m \in Node \ {n} : Reach(m)' = Reach(m) /\ Rest(m)' = Rest(m) /\ Snap(m)' = Snap(m)
  BY <1>1, SnapFrame DEF TypeOK
<1>5. \A k : On(k)' = On(k)
  BY <1>1 DEF On
<1>6. SnapInv'
  BY <1>1, <1>3, <1>4, <1>5 DEF SnapInv, Shared
<1>7. \A m \in Node, k \in Shared : Reached(m, k)' => Reached(m, k)
  BY <1>3, <1>4, <1>5 DEF Reached
<1>8. StoreInv'
  BY <1>1, <1>7, StoreFrame DEF StoreInv, Shared
<1>9. BootInv'
  BY <1>1 DEF BootInv
<1> QED
  BY <1>2, <1>6, <1>8, <1>9

\* After a restart only what nothing wrote is reached.
LEMMA RestartStep == ASSUME IInv, NEW n \in Node, Restart(n) PROVE IInv'
<1> USE DEF IInv
<1>1. /\ lastApplied' = [lastApplied EXCEPT ![n] = 0]
      /\ snapshot' = [snapshot EXCEPT ![n] = {}] /\ told' = [told EXCEPT ![n] = <<>>]
      /\ install' = [install EXCEPT ![n] = NoInstall]
      /\ boot' = [boot EXCEPT ![n] = "check"] /\ UNCHANGED <<decided, origin>>
  BY DEF Restart, ForgetsApplied
<1>2. /\ store' \in [Node -> [Resource -> Value]]
      /\ \A m \in Node \ {n} : store'[m] = store[m]
      /\ \A k \in Resource : store'[n][k] \in {store[n][k], Absent}
  BY DEF Restart, TypeOK, Value
<1>3. reply' \in [Change -> {"none", "ok", "error"}] /\ restarts' \in 0..MaxRestarts
  BY ConstantsOK DEF Restart, TypeOK, ConstantsOK
<1>4. TypeOK'
  <2>1. NoInstall \in [on : BOOLEAN, rest : SUBSET Index, upto : Nat, all : SUBSET Index]
    BY DEF NoInstall
  <2>2. install' \in [Node -> [on : BOOLEAN, rest : SUBSET Index, upto : Nat, all : SUBSET Index]]
    BY <2>1, <1>1 DEF TypeOK
  <2>3. snapshot' \in [Node -> SUBSET Index] /\ lastApplied' \in [Node -> Nat]
    BY <1>1 DEF TypeOK
  <2>4. told' \in [Node -> Seq(Change)] /\ boot' \in [Node -> {"check", "write", "up"}]
    BY <1>1 DEF TypeOK
  <2> QED
    BY <2>2, <2>3, <2>4, <1>1, <1>2, <1>3 DEF TypeOK
<1>5. Reach(n)' = 0 /\ Rest(n)' = {} /\ Snap(n)' = {}
  BY <1>1 DEF Reach, Rest, Snap, TypeOK, NoInstall
<1>6. \A m \in Node \ {n} : Reach(m)' = Reach(m) /\ Rest(m)' = Rest(m) /\ Snap(m)' = Snap(m)
  BY <1>1, SnapFrame DEF TypeOK
<1>7. \A k : On(k)' = On(k)
  BY <1>1 DEF On
<1>8. \A k : \A j \in On(k) : ~(j <= 0)
  BY OnFacts
<1>9. SnapInv'
  <2>1. Len(decided) >= 0
    BY DEF TypeOK
  <2> QED
    BY <2>1, <1>1, <1>5, <1>6, <1>7, <1>8 DEF SnapInv, Shared
<1>10. ASSUME NEW k \in Shared, Reached(n, k)' PROVE Final(n, k)' /\ ToldLast(n, k)'
  <2>1. On(k) = {}
    BY <1>10, <1>5, <1>7, <1>8 DEF Reached
  <2>2. store[n][k] = Absent /\ k \in Resource
    BY <2>1 DEF StoreInv, Reached, Final, Shared
  <2>3. store'[n][k] = Absent
    BY <2>2, <1>2
  <2> QED
    BY <2>1, <2>3, <1>7 DEF Final, ToldLast
<1>11. StoreInv'
  <2> SUFFICES ASSUME NEW m \in Node, NEW k \in Shared
               PROVE  (Reached(m, k) => Final(m, k) /\ ToldLast(m, k))'
    BY DEF StoreInv, Shared
  <2>1. CASE m = n
    BY <2>1, <1>10
  <2>2. CASE m # n
    BY <2>2, <1>1, <1>2, NodeFrame DEF TypeOK
  <2> QED
    BY <2>1, <2>2
<1>12. BootInv'
  BY <1>1 DEF BootInv, TypeOK
<1> QED
  BY <1>4, <1>9, <1>11, <1>12

\* A node makes the default namespace only where that is not a shared resource.
LEMMA BootWriteStep == ASSUME IInv, NEW n \in Node, BootWrite(n) PROVE IInv'
<1> USE DEF IInv
<1>1. /\ boot[n] = "write" /\ store' = [store EXCEPT ![n][Default] = Builtin]
      /\ boot' = [boot EXCEPT ![n] = "up"]
      /\ UNCHANGED <<decided, origin, reply, lastApplied, snapshot, told, install, restarts>>
  BY DEF BootWrite
<1>2. TypeOK'
  BY <1>1, ConstantsOK DEF TypeOK, ConstantsOK, Value
<1>3. \A m \in Node : Reach(m)' = Reach(m) /\ Rest(m)' = Rest(m) /\ Snap(m)' = Snap(m)
  BY <1>1, SnapFrame
<1>4. \A k : On(k)' = On(k)
  BY <1>1 DEF On
<1>5. SnapInv'
  BY <1>1, <1>3, <1>4 DEF SnapInv, Shared
<1>6. ASSUME NEW m \in Node, NEW k \in Shared
      PROVE  (Reached(m, k) => Final(m, k) /\ ToldLast(m, k))'
  <2>1. k \in Resource /\ k # Default
    BY <1>1 DEF Shared, BootInv
  <2>2. store'[m][k] = store[m][k]
    BY <2>1, <1>1 DEF TypeOK
  <2>3. Reached(m, k)' => Reached(m, k)
    BY <1>3, <1>4 DEF Reached
  <2> QED
    BY <2>2, <2>3, <1>1, StoreFrame DEF StoreInv
<1>7. StoreInv'
  BY <1>6 DEF StoreInv, Shared
<1>8. BootInv'
  BY <1>1 DEF BootInv, TypeOK
<1> QED
  BY <1>2, <1>5, <1>7, <1>8

-----------------------------------------------------------------------------
(* Theorems.                                                                *)

\* Whatever is submitted, decided, installed and restarted, IInv is kept: a
\* store is final in all that has been applied, by entry or by snapshot.
THEOREM StepIInv == IInv /\ [Next]_vars => IInv'
<1> SUFFICES ASSUME IInv, [Next]_vars PROVE IInv'
  OBVIOUS
<1>1. CASE UNCHANGED vars
  <2>1. TypeOK' /\ BootInv'
    BY <1>1 DEF IInv, vars, TypeOK, BootInv
  <2> QED
    BY <2>1, <1>1, IdleStep DEF vars
<1>2. ASSUME NEW n \in Node, NEW c \in Change, Submit(n, c) PROVE IInv'
  BY <1>2, SubmitStep
<1>3. ASSUME NEW c \in Change, Decide(c) \/ Refuse(c) PROVE IInv'
  BY <1>3, DecideStep, RefuseStep
<1>4. ASSUME NEW n \in Node, Install(n) PROVE IInv'
  <2>1. ASSUME NEW m \in Node, NEW u \in 1..lastApplied[m], InstallBegin(n, m, u) PROVE IInv'
    BY <2>1, InstallBeginStep
  <2>2. ASSUME NEW i \in install[n].rest, InstallStep(n, i) PROVE IInv'
    BY <2>2, InstallStepStep
  <2>3. ASSUME InstallEnd(n) PROVE IInv'
    BY <2>3, InstallEndStep
  <2> QED
    BY <1>4, <2>1, <2>2, <2>3 DEF Install
<1>5. ASSUME NEW n \in Node, Apply(n) \/ BootCheck(n) \/ BootWrite(n) \/ Restart(n) PROVE IInv'
  BY <1>5, ApplyStep, BootCheckStep, BootWriteStep, RestartStep
<1> QED
  BY <1>1, <1>2, <1>3, <1>4, <1>5 DEF Next

\* The invariant of the run raft_store, for any nodes, resources, changelogs,
\* failures and restarts.
THEOREM Invariance == Spec => []IInv
<1> QED
  BY InitIInv, StepIInv, PTL DEF Spec

LEMMA CaughtUpReached ==
  ASSUME IInv, NEW n \in Node, CaughtUp(n), NEW k
  PROVE  Reached(n, k)
BY OnFacts DEF IInv, CaughtUp, Reached, Reach, Rest

\* Two nodes that have applied all entries store the same shared resources,
\* whatever snapshots and restarts they went through.
THEOREM StoresAgreeWhenCaughtUp == Spec => []CaughtUpStoresAgree
<1>1. IInv => CaughtUpStoresAgree
  BY CaughtUpReached DEF IInv, StoreInv, CaughtUpStoresAgree
<1> QED
  BY <1>1, Invariance, PTL

\* The proxy of a node that has applied all entries was told of the last write
\* of every shared resource since the process started.
THEOREM ProxyKnowsWhenCaughtUp == Spec => []CaughtUpProxyKnows
<1>1. IInv => CaughtUpProxyKnows
  BY CaughtUpReached DEF IInv, StoreInv, CaughtUpProxyKnows
<1> QED
  BY <1>1, Invariance, PTL

-----------------------------------------------------------------------------
(* What was told ok for.  An entry that a node is past, by itself or by a    *)
(* snapshot, is stored there or was written over by a later one.            *)

Past(n, i) == i <= Reach(n) /\ i \notin Rest(n)
Backed(n, k) ==
  \A i \in On(k) : Past(n, i) => \E j \in On(k) : i <= j /\ store[n][k] = Effect(decided[j])
OkDecided == \A c \in Change : reply[c] = "ok" => \E i \in DOMAIN decided : decided[i] = c
OkInv == OkDecided /\ \A n \in Node, k \in Shared : Backed(n, k)

\* What backs a resource stays when its value does and no entry gets past.
LEMMA BackedFrame ==
  ASSUME NEW n \in Node, NEW k \in Shared, Backed(n, k), UNCHANGED decided,
         store'[n][k] = store[n][k], \A i \in On(k) : Past(n, i)' => Past(n, i)
  PROVE  Backed(n, k)'
<1>1. On(k)' = On(k)
  BY DEF On
<1> QED
  BY <1>1 DEF Backed

LEMMA BackedNode ==
  ASSUME NEW n \in Node, NEW k \in Shared, Backed(n, k), UNCHANGED decided,
         store'[n] = store[n], install'[n] = install[n], lastApplied'[n] = lastApplied[n]
  PROVE  Backed(n, k)'
<1>1. \A i \in On(k) : Past(n, i)' => Past(n, i)
  BY DEF Past, Reach, Rest
<1> QED
  BY <1>1, BackedFrame

\* An entry that is applied backs what it wrote over, being the latest there.
LEMMA BackedApplied ==
  ASSUME TypeOK, NEW n \in Node, NEW k \in Shared, NEW i \in DOMAIN decided,
         Backed(n, k), UNCHANGED decided,
         NEW ok \in Outcomes(decided[i]), ApplyChangelog(n, i, ok),
         \A j \in On(k) : Past(n, j)' => j <= i /\ (j = i \/ Past(n, j))
  PROVE  Backed(n, k)'
<1>1. On(k)' = On(k) /\ k \in Resource /\ decided[i] \in Change
  BY DEF On, Shared, TypeOK
<1>2. CASE i \in On(k)
  <2>1. KeyOf[decided[i]] = k /\ Outcomes(decided[i]) = {TRUE}
    BY <1>2, OnFacts, SharedSucceeds
  <2>2. store'[n][k] = Effect(decided[i])
    BY <1>1, <2>1 DEF ApplyChangelog, TypeOK
  <2> QED
    BY <1>1, <1>2, <2>2 DEF Backed
<1>3. CASE i \notin On(k)
  <2>1. KeyOf[decided[i]] # k \/ decided[i] \in Bad
    BY <1>3 DEF On
  <2>2. decided[i] \in Bad => ok = FALSE
    BY DEF Outcomes
  <2>3. store'[n][k] = store[n][k]
    BY <1>1, <2>1, <2>2 DEF ApplyChangelog, TypeOK
  <2>4. \A j \in On(k) : Past(n, j)' => Past(n, j)
    BY <1>3
  <2> QED
    BY <2>3, <2>4, BackedFrame
<1> QED
  BY <1>2, <1>3

LEMMA OkDecide == ASSUME IInv, OkInv, NEW c \in Change, Decide(c) PROVE OkInv'
<1>1. /\ Len(decided) \in Nat /\ DOMAIN decided = 1..Len(decided)
      /\ decided' \in Seq(Change) /\ DOMAIN decided' = 1..(Len(decided) + 1)
      /\ \A i \in DOMAIN decided : decided'[i] = decided[i]
      /\ UNCHANGED <<reply, store, install, lastApplied>>
  BY DEF Decide, IInv, TypeOK
<1>2. OkDecided'
  BY <1>1 DEF OkInv, OkDecided
<1>3. ASSUME NEW n \in Node, NEW k \in Shared PROVE Backed(n, k)'
  <2>1. On(k) \subseteq On(k)' /\ \A i \in On(k)' : i <= Len(decided) => i \in On(k)
    BY <1>1 DEF On
  <2>2. Reach(n)' = Reach(n) /\ Rest(n)' = Rest(n) /\ Reach(n) <= Len(decided) /\ Reach(n) \in Nat
    BY <1>1 DEF Reach, Rest, IInv, SnapInv, TypeOK
  <2>3. ASSUME NEW i \in On(k)', Past(n, i)' PROVE i \in On(k) /\ Past(n, i)
    <3>1. i \in Nat
      BY <1>1 DEF On
    <3> QED
      BY <2>1, <2>2, <2>3, <3>1, <1>1 DEF Past
  <2> QED
    BY <1>1, <2>1, <2>3 DEF Backed, OkInv, On
<1> QED
  BY <1>2, <1>3 DEF OkInv, Shared

LEMMA OkApply == ASSUME IInv, OkInv, NEW n \in Node, Apply(n) PROVE OkInv'
<1> USE DEF IInv
<1> DEFINE i == lastApplied[n] + 1
<1>1. /\ ~install[n].on /\ i \in DOMAIN decided /\ i \in Nat
      /\ lastApplied' = [lastApplied EXCEPT ![n] = i] /\ UNCHANGED <<decided, install>>
  BY DEF Apply, TypeOK
<1>2. PICK ok \in Outcomes(decided[i]) :
        ApplyChangelog(n, i, ok) /\ Answers(n, decided[i], ok)
  BY DEF Apply
<1>3. Applied(n, i, ok)
  BY <1>1, <1>2, AppliesType DEF Outcomes
<1>4. OkDecided'
  BY <1>1, <1>2 DEF Answers, OkInv, OkDecided, TypeOK
<1>5. ASSUME NEW k \in Shared PROVE Backed(n, k)'
  <2>1. /\ Reach(n) = lastApplied[n] /\ Rest(n) = {} /\ Reach(n)' = i /\ Rest(n)' = {}
        /\ lastApplied[n] \in Nat
    BY <1>1 DEF Reach, Rest, TypeOK
  <2>2. \A j \in On(k) : Past(n, j)' => j <= i /\ (j = i \/ Past(n, j))
    BY <2>1, OnFacts DEF Past
  <2> QED
    BY <1>1, <1>2, <2>2, BackedApplied DEF OkInv
<1>6. ASSUME NEW m \in Node, m # n, NEW k \in Shared PROVE Backed(m, k)'
  BY <1>1, <1>3, <1>6, BackedNode DEF Applied, OkInv, TypeOK
<1> QED
  BY <1>4, <1>5, <1>6 DEF OkInv, Shared

\* A replay that begins is past nothing: the snapshot holds all that it covers.
LEMMA OkInstallBegin ==
  ASSUME IInv, OkInv, NEW n \in Node, NEW m \in Node, NEW u \in 1..lastApplied[m],
         InstallBegin(n, m, u)
  PROVE  OkInv'
<1> USE DEF IInv
<1>1. /\ ~install[m].on /\ lastApplied[m] \in Nat /\ u \in Nat /\ u <= lastApplied[m]
      /\ install' = [install EXCEPT ![n] =
                      [on |-> TRUE, rest |-> UpTo(m, u), upto |-> u, all |-> UpTo(m, u)]]
      /\ UNCHANGED <<decided, reply, store, lastApplied>>
  BY DEF InstallBegin, TypeOK
<1>2. OkDecided'
  BY <1>1 DEF OkInv, OkDecided
<1>3. ASSUME NEW k \in Shared PROVE Backed(n, k)'
  <2>1. Reach(n)' = u /\ Rest(n)' = UpTo(m, u)
    BY <1>1 DEF Reach, Rest, TypeOK
  <2>2. ASSUME NEW i \in On(k), i <= u PROVE i \in UpTo(m, u)
    <3>1. i <= Reach(m) /\ Snap(m) = snapshot[m]
      BY <1>1, <2>2, OnFacts DEF Reach, Snap
    <3> QED
      BY <2>2, <3>1 DEF SnapInv, UpTo
  <2>3. \A i \in On(k) : ~Past(n, i)'
    BY <2>1, <2>2 DEF Past
  <2> QED
    BY <1>1, <2>3, BackedFrame DEF OkInv
<1>4. ASSUME NEW q \in Node, q # n, NEW k \in Shared PROVE Backed(q, k)'
  BY <1>1, <1>4, BackedNode DEF OkInv, TypeOK
<1> QED
  BY <1>2, <1>3, <1>4 DEF OkInv, Shared

\* What a replay is past precedes the entry it applies.
LEMMA OkInstallStep ==
  ASSUME IInv, OkInv, NEW n \in Node, NEW i \in install[n].rest, InstallStep(n, i)
  PROVE  OkInv'
<1> USE DEF IInv
<1>1. /\ install[n].on /\ install' = [install EXCEPT ![n].rest = install[n].rest \ {i}]
      /\ UNCHANGED <<decided, reply, lastApplied>>
  BY DEF InstallStep
<1>2. PICK ok \in Outcomes(decided[i]) : ApplyChangelog(n, i, ok)
  BY DEF InstallStep
<1>3. Rest(n) = install[n].rest /\ i \in Snap(n)
  BY <1>1 DEF Rest, Snap, SnapInv
<1>4. i \in DOMAIN decided /\ i \in Nat
  BY <1>3, SnapFacts
<1>5. Applied(n, i, ok)
  BY <1>2, <1>4, AppliesType DEF Outcomes
<1>6. OkDecided'
  BY <1>1 DEF OkInv, OkDecided
<1>7. ASSUME NEW k \in Shared PROVE Backed(n, k)'
  <2>1. Reach(n)' = Reach(n) /\ Rest(n)' = Rest(n) \ {i}
    BY <1>1, <1>3 DEF Reach, Rest, TypeOK
  <2>2. ASSUME NEW j \in On(k), Past(n, j)' PROVE j <= i /\ (j = i \/ Past(n, j))
    <3>1. j \in Nat /\ j \in Snap(n) /\ (j = i \/ j \notin Rest(n)) /\ j <= Reach(n)
      BY <2>1, <2>2, OnFacts DEF Past, SnapInv
    <3>2. j \notin Rest(n) => j < i
      BY <3>1, <1>3 DEF SnapInv
    <3> QED
      BY <3>1, <3>2, <1>4 DEF Past
  <2> QED
    BY <1>1, <1>2, <1>4, <2>2, BackedApplied DEF OkInv
<1>8. ASSUME NEW m \in Node, m # n, NEW k \in Shared PROVE Backed(m, k)'
  BY <1>1, <1>5, <1>8, BackedNode DEF Applied, OkInv, TypeOK
<1> QED
  BY <1>6, <1>7, <1>8 DEF OkInv, Shared

LEMMA OkInstallEnd == ASSUME IInv, OkInv, NEW n \in Node, InstallEnd(n) PROVE OkInv'
<1> USE DEF IInv
<1>1. /\ install[n].on /\ install[n].rest = {}
      /\ lastApplied' = [lastApplied EXCEPT ![n] = install[n].upto]
      /\ install' = [install EXCEPT ![n] = NoInstall]
      /\ UNCHANGED <<decided, reply, store>>
  BY DEF InstallEnd
<1>2. OkDecided'
  BY <1>1 DEF OkInv, OkDecided
<1>3. \A m \in Node : Reach(m)' = Reach(m) /\ Rest(m)' = Rest(m)
  BY <1>1 DEF Reach, Rest, TypeOK, NoInstall
<1>4. ASSUME NEW m \in Node, NEW k \in Shared PROVE Backed(m, k)'
  <2>1. \A i \in On(k) : Past(m, i)' => Past(m, i)
    BY <1>3 DEF Past
  <2> QED
    BY <1>1, <2>1, BackedFrame DEF OkInv
<1> QED
  BY <1>2, <1>4 DEF OkInv, Shared

\* A process that starts is past nothing.
LEMMA OkRestart == ASSUME IInv, OkInv, NEW n \in Node, Restart(n) PROVE OkInv'
<1> USE DEF IInv
<1>1. /\ lastApplied' = [lastApplied EXCEPT ![n] = 0]
      /\ install' = [install EXCEPT ![n] = NoInstall] /\ UNCHANGED decided
      /\ \A m \in Node \ {n} : store'[m] = store[m]
  BY DEF Restart, ForgetsApplied, TypeOK
<1>2. OkDecided'
  BY DEF Restart, OkInv, OkDecided
<1>3. ASSUME NEW k \in Shared PROVE Backed(n, k)'
  <2>1. Reach(n)' = 0 /\ On(k)' = On(k)
    BY <1>1 DEF Reach, TypeOK, NoInstall, On
  <2>2. \A i \in On(k) : ~Past(n, i)'
    BY <2>1, OnFacts DEF Past
  <2> QED
    BY <2>1, <2>2 DEF Backed
<1>4. ASSUME NEW m \in Node, m # n, NEW k \in Shared PROVE Backed(m, k)'
  BY <1>1, <1>4, BackedNode DEF OkInv, TypeOK
<1> QED
  BY <1>2, <1>3, <1>4 DEF OkInv, Shared

LEMMA OkBootWrite == ASSUME IInv, OkInv, NEW n \in Node, BootWrite(n) PROVE OkInv'
<1> USE DEF IInv
<1>1. /\ boot[n] = "write" /\ store' = [store EXCEPT ![n][Default] = Builtin]
      /\ UNCHANGED <<decided, reply, lastApplied, install>>
  BY DEF BootWrite
<1>2. OkDecided'
  BY <1>1 DEF OkInv, OkDecided
<1>3. ASSUME NEW m \in Node, NEW k \in Shared PROVE Backed(m, k)'
  <2>1. k \in Resource /\ k # Default
    BY <1>1 DEF Shared, BootInv
  <2>2. store'[m][k] = store[m][k]
    BY <2>1, <1>1 DEF TypeOK
  <2>3. \A i \in On(k) : Past(m, i)' => Past(m, i)
    BY <1>1 DEF Past, Reach, Rest
  <2> QED
    BY <1>1, <2>2, <2>3, BackedFrame DEF OkInv
<1> QED
  BY <1>2, <1>3 DEF OkInv, Shared

\* Steps that give no ok, and leave stores and entries alone.
LEMMA OkIdle ==
  ASSUME OkInv, UNCHANGED <<decided, store, install, lastApplied>>,
         \A c \in Change : reply'[c] = "ok" => reply[c] = "ok"
  PROVE  OkInv'
<1>1. OkDecided'
  BY DEF OkInv, OkDecided
<1>2. \A n \in Node, k \in Shared : Backed(n, k)'
  BY BackedNode DEF OkInv
<1> QED
  BY <1>1, <1>2 DEF OkInv, Shared

\* An ok is for a decided change, and a node that is past it stores it or a
\* later change of its resource, through snapshots and restarts.
THEOREM OksAreStored == Spec => []OkIsStored
<1>1. Init => OkInv
  <2> SUFFICES ASSUME Init PROVE OkInv
    OBVIOUS
  <2>1. \A k : On(k) = {}
    BY DEF Init, On
  <2> QED
    BY <2>1 DEF Init, OkInv, OkDecided, Backed
<1>2. OkInv /\ IInv /\ [Next]_vars => OkInv'
  <2> SUFFICES ASSUME OkInv, IInv, [Next]_vars PROVE OkInv'
    OBVIOUS
  <2>1. CASE UNCHANGED vars
    BY <2>1, OkIdle DEF vars
  <2>2. ASSUME NEW n \in Node, NEW c \in Change, Submit(n, c) PROVE OkInv'
    BY <2>2, OkIdle DEF Submit
  <2>3. ASSUME NEW c \in Change, Decide(c) \/ Refuse(c) PROVE OkInv'
    <3>1. Refuse(c) => \A x \in Change : reply'[x] = "ok" => reply[x] = "ok"
      BY DEF Refuse, IInv, TypeOK
    <3>2. Refuse(c) => UNCHANGED <<decided, store, install, lastApplied>>
      BY DEF Refuse
    <3> QED
      BY <2>3, <3>1, <3>2, OkDecide, OkIdle
  <2>4. ASSUME NEW n \in Node, Install(n) PROVE OkInv'
    <3>1. ASSUME NEW m \in Node, NEW u \in 1..lastApplied[m], InstallBegin(n, m, u) PROVE OkInv'
      BY <3>1, OkInstallBegin
    <3>2. ASSUME NEW i \in install[n].rest, InstallStep(n, i) PROVE OkInv'
      BY <3>2, OkInstallStep
    <3> QED
      BY <2>4, <3>1, <3>2, OkInstallEnd DEF Install
  <2>5. ASSUME NEW n \in Node, Apply(n) \/ BootCheck(n) \/ BootWrite(n) \/ Restart(n) PROVE OkInv'
    <3>1. ASSUME BootCheck(n) PROVE OkInv'
      BY <3>1, OkIdle DEF BootCheck
    <3> QED
      BY <2>5, <3>1, OkApply, OkBootWrite, OkRestart
  <2> QED
    BY <2>1, <2>2, <2>3, <2>4, <2>5 DEF Next
<1>3. IInv /\ OkInv => OkIsStored
  <2> SUFFICES ASSUME IInv, OkInv, NEW c \in Change \ Bad, reply[c] = "ok"
               PROVE  \E i \in DOMAIN decided :
                        /\ decided[i] = c
                        /\ \A n \in Node : KeyOf[c] \in Shared /\ ~install[n].on /\ i <= lastApplied[n] =>
                             \E j \in On(KeyOf[c]) : i <= j /\ store[n][KeyOf[c]] = Effect(decided[j])
    BY DEF OkIsStored
  <2>1. PICK i \in DOMAIN decided : decided[i] = c
    BY DEF OkInv, OkDecided
  <2>2. i \in On(KeyOf[c])
    BY <2>1 DEF On
  <2>3. ASSUME NEW n \in Node, KeyOf[c] \in Shared, ~install[n].on, i <= lastApplied[n]
        PROVE  \E j \in On(KeyOf[c]) : i <= j /\ store[n][KeyOf[c]] = Effect(decided[j])
    <3>1. Past(n, i) /\ Backed(n, KeyOf[c])
      BY <2>3 DEF Past, Reach, Rest, OkInv
    <3> QED
      BY <2>2, <3>1 DEF Backed
  <2> QED
    BY <2>1, <2>3
<1> QED
  BY <1>1, <1>2, <1>3, Invariance, PTL DEF Spec
=============================================================================
