-------------------------- MODULE TempoClockProofs --------------------------
(***************************************************************************)
(* Theorems about TempoClock: the inductive invariant, the order of stamps *)
(* and the refinement of AtomicClock, for any number of threads, any       *)
(* received stamps and any readings of the system time.                    *)
(***************************************************************************)
EXTENDS TempoClock, TLAPS

USE DEF Larger, Ticked, Updated

LEMMA ElementOf ==
  ASSUME NEW S, NEW s \in Seq(S)
  PROVE  \A i \in DOMAIN s : s[i] \in S
OBVIOUS

\* A call in progress is a tick, or an update with a stamp that was received.
LEMMA CallKinds ==
  ASSUME NEW t \in Thread, IInv, at[t] # "idle"
  PROVE  /\ call[t] \in Calls
         /\ call[t] = Tick \/ \E r \in Received : call[t] = Update(r)
         /\ call[t] # Tick => call[t][2] \in Received /\ call[t][2] \in Nat
<1>1. call[t] \in {NoCall} \cup Calls /\ call[t] # NoCall BY DEF IInv, TypeOK, ClockInv
<1>2. call[t] \in Calls BY <1>1
<1>3. call[t] = Tick \/ \E r \in Received : call[t] = Update(r) BY <1>2 DEF Calls
<1>4. \A r : Update(r)[2] = r BY DEF Update
<1>5. call[t] # Tick => call[t][2] \in Received BY <1>3, <1>4
<1> QED BY <1>2, <1>3, <1>5, ClockConstantsOK DEF ClockConstantsOK

\* What a call wants to put in place is a clock value, and no older than the
\* value loaded.
LEMMA WantedIsAhead ==
  ASSUME NEW t \in Thread, IInv, at[t] # "idle", NEW now \in PhysicalTime
  PROVE  /\ Wanted(t, now) \in Nat
         /\ loaded[t] <= Wanted(t, now)
         /\ call[t] = Tick => loaded[t] < Wanted(t, now)
         /\ call[t] # Tick => call[t][2] <= Wanted(t, now)
<1>1. loaded[t] \in Nat /\ now \in Nat
  BY ClockConstantsOK DEF IInv, TypeOK, ClockConstantsOK
<1> QED BY <1>1, CallKinds DEF Wanted

LEMMA InitIInv == Init => IInv
<1> SUFFICES ASSUME Init PROVE IInv OBVIOUS
<1>1. TypeOK BY ClockConstantsOK DEF Init, TypeOK, ClockConstantsOK
<1>2. ClockInv BY ClockConstantsOK DEF Init, ClockInv, ClockConstantsOK
<1>3. StampsAreOrdered BY DEF Init, StampsAreOrdered
<1> QED BY <1>1, <1>2, <1>3 DEF IInv

LEMMA InvokeKeeps == ASSUME IInv, NEW t \in Thread, Invoke(t) PROVE IInv'
<1> USE DEF Invoke, IInv
<1>1. TypeOK' BY ClockConstantsOK DEF TypeOK, ClockConstantsOK
<1>2. PICK c \in Calls : call' = [call EXCEPT ![t] = c] OBVIOUS
<1>3. c # NoCall BY DEF Calls, Tick, Update, NoCall
<1>4. ClockInv'
  <2> SUFFICES ASSUME NEW s \in Thread
               PROVE  /\ at'[s] = "idle" <=> call'[s] = NoCall
                      /\ floor'[s] <= seen
                      /\ at'[s] \in {"time", "swap"} => floor'[s] <= loaded[s] /\ loaded[s] <= clock
                      /\ at'[s] = "swap" =>
                           loaded[s] < next[s] /\ \E now \in PhysicalTime : next[s] = Wanted(s, now)'
    BY DEF ClockInv
  <2>1. CASE s = t BY <2>1, <1>2, <1>3 DEF TypeOK
  <2>2. CASE s # t
    <3>1. at'[s] = at[s] /\ call'[s] = call[s] /\ floor'[s] = floor[s] BY <2>2, <1>2 DEF TypeOK
    <3>2. \A now : Wanted(s, now)' = Wanted(s, now) BY <3>1 DEF Wanted
    <3> QED BY <3>1, <3>2 DEF ClockInv
  <2> QED BY <2>1, <2>2
<1>5. StampsAreOrdered' BY DEF StampsAreOrdered
<1> QED BY <1>1, <1>4, <1>5

LEMMA LoadKeeps == ASSUME IInv, NEW t \in Thread, Load(t) PROVE IInv'
<1> USE DEF Load, IInv
<1>1. TypeOK' BY DEF TypeOK
<1>2. ClockInv'
  <2> SUFFICES ASSUME NEW s \in Thread
               PROVE  /\ at'[s] = "idle" <=> call[s] = NoCall
                      /\ floor[s] <= seen
                      /\ at'[s] \in {"time", "swap"} => floor[s] <= loaded'[s] /\ loaded'[s] <= clock
                      /\ at'[s] = "swap" =>
                           loaded'[s] < next[s] /\ \E now \in PhysicalTime : next[s] = Wanted(s, now)'
    BY DEF ClockInv
  <2>1. CASE s = t
    <3>1. at'[t] = "time" /\ loaded'[t] = clock BY DEF TypeOK
    <3>2. floor[t] <= seen /\ seen <= clock /\ (at[t] = "idle" <=> call[t] = NoCall) BY DEF ClockInv
    <3>3. floor[t] \in Nat /\ seen \in Nat /\ clock \in Nat BY DEF TypeOK
    <3> QED BY <2>1, <3>1, <3>2, <3>3
  <2>2. CASE s # t
    <3>1. at'[s] = at[s] /\ loaded'[s] = loaded[s] BY <2>2 DEF TypeOK
    <3>2. \A now : Wanted(s, now)' = Wanted(s, now) BY <3>1 DEF Wanted
    <3> QED BY <3>1, <3>2 DEF ClockInv
  <2> QED BY <2>1, <2>2
<1>3. StampsAreOrdered' BY DEF StampsAreOrdered
<1> QED BY <1>1, <1>2, <1>3

LEMMA ReadTimeKeeps ==
  ASSUME IInv, NEW t \in Thread, NEW now \in PhysicalTime, ReadTime(t, now)
  PROVE  IInv'
<1> USE DEF ReadTime, IInv
<1>0. Wanted(t, now) \in Nat BY WantedIsAhead
<1>1. TypeOK' BY <1>0 DEF TypeOK
<1>2. ClockInv'
  <2> SUFFICES ASSUME NEW s \in Thread
               PROVE  /\ at'[s] = "idle" <=> call[s] = NoCall
                      /\ floor[s] <= seen
                      /\ at'[s] \in {"time", "swap"} => floor[s] <= loaded[s] /\ loaded[s] <= clock
                      /\ at'[s] = "swap" =>
                           loaded[s] < next'[s] /\ \E x \in PhysicalTime : next'[s] = Wanted(s, x)'
    BY DEF ClockInv
  <2>0. \A x : Wanted(s, x)' = Wanted(s, x) BY DEF Wanted
  <2>1. CASE s = t
    <3>1. at'[t] = "swap" /\ next'[t] = Wanted(t, now) BY DEF TypeOK
    <3>2. loaded[t] \in Nat BY DEF TypeOK
    <3> QED BY <2>0, <2>1, <3>1, <3>2, <1>0 DEF ClockInv
  <2>2. CASE s # t
    <3>1. at'[s] = at[s] /\ next'[s] = next[s] BY <2>2 DEF TypeOK
    <3> QED BY <2>0, <3>1 DEF ClockInv
  <2> QED BY <2>1, <2>2
<1>3. StampsAreOrdered' BY DEF StampsAreOrdered
<1> QED BY <1>1, <1>2, <1>3

\* A call that ends: the clock has not gone back and is ahead of what the call
\* brings; a tick's stamp is above all that was seen.
LEMMA ReturnsKeeps ==
  ASSUME IInv, NEW t \in Thread, at[t] # "idle", Returns(t),
         clock' \in Nat, clock <= clock',
         call[t] = Tick => seen < next[t] /\ floor[t] < next[t] /\ next[t] <= clock',
         call[t] # Tick => call[t][2] <= clock'
  PROVE  IInv'
<1>0. /\ next[t] \in Nat /\ floor[t] \in Nat /\ seen \in Nat /\ clock \in Nat
      /\ seen <= clock
  BY DEF IInv, TypeOK, ClockInv
<1>1. /\ call' = [call EXCEPT ![t] = NoCall]
      /\ at' = [at EXCEPT ![t] = "idle"]
      /\ UNCHANGED <<loaded, next, floor, calls>>
  BY DEF Returns
<1>2. \A s \in Thread : s # t => at'[s] = at[s] /\ call'[s] = call[s]
  BY <1>1 DEF IInv, TypeOK
<1>3. at'[t] = "idle" /\ call'[t] = NoCall BY <1>1 DEF IInv, TypeOK
<1>4. seen' \in Nat /\ seen <= seen' /\ seen' <= clock'
  <2>1. CASE call[t] = Tick BY <2>1, <1>0 DEF Returns
  <2>2. CASE call[t] # Tick BY <2>2, <1>0, CallKinds DEF Returns
  <2> QED BY <2>1, <2>2
<1>5. \A s \in Thread :
        /\ at'[s] = "idle" <=> call'[s] = NoCall
        /\ floor'[s] <= seen'
        /\ at'[s] \in {"time", "swap"} => floor'[s] <= loaded'[s] /\ loaded'[s] <= clock'
        /\ at'[s] = "swap" => /\ loaded'[s] < next'[s]
                              /\ \E now \in PhysicalTime : next'[s] = Wanted(s, now)'
  <2> SUFFICES ASSUME NEW s \in Thread
               PROVE  /\ at'[s] = "idle" <=> call'[s] = NoCall
                      /\ floor[s] <= seen'
                      /\ at'[s] \in {"time", "swap"} => floor[s] <= loaded[s] /\ loaded[s] <= clock'
                      /\ at'[s] = "swap" => /\ loaded[s] < next[s]
                                            /\ \E now \in PhysicalTime : next[s] = Wanted(s, now)'
    BY <1>1
  <2>0. floor[s] \in Nat /\ loaded[s] \in Nat /\ floor[s] <= seen BY DEF IInv, TypeOK, ClockInv
  <2>1. CASE s = t BY <2>0, <2>1, <1>0, <1>3, <1>4
  <2>2. CASE s # t
    <3>1. \A x : Wanted(s, x)' = Wanted(s, x) BY <2>2, <1>1, <1>2 DEF Wanted
    <3> QED BY <2>0, <2>2, <3>1, <1>0, <1>2, <1>4 DEF IInv, ClockInv
  <2> QED BY <2>1, <2>2
<1>6. CASE call[t] = Tick
  <2> DEFINE new == [stamp |-> next[t], floor |-> floor[t]]
  <2>1. stamps' = Append(stamps, new) /\ seen' = Larger(seen, next[t]) BY <1>6 DEF Returns
  <2>2. stamps \in Seq([stamp : Nat, floor : Nat]) /\ new \in [stamp : Nat, floor : Nat]
    BY <1>0 DEF IInv, TypeOK
  <2>3. /\ stamps' \in Seq([stamp : Nat, floor : Nat])
        /\ DOMAIN stamps = 1..Len(stamps) /\ DOMAIN stamps' = 1..(Len(stamps) + 1)
        /\ Len(stamps) \in Nat
        /\ \A i \in 1..Len(stamps) : stamps'[i] = stamps[i]
        /\ stamps'[Len(stamps) + 1] = new
    BY <2>1, <2>2
  <2>4. \A i \in 1..Len(stamps) : stamps[i].stamp \in Nat /\ stamps[i].stamp <= seen
    <3>1. \A i \in 1..Len(stamps) : stamps[i].stamp <= seen BY <2>3 DEF IInv, ClockInv
    <3>2. \A i \in 1..Len(stamps) : stamps[i] \in [stamp : Nat, floor : Nat]
      BY <2>2, <2>3, ElementOf
    <3> QED BY <3>1, <3>2
  <2>5. seen' = next[t] BY <2>1, <1>6, <1>0
  <2>6. TypeOK' BY <2>3, <1>1, <1>4 DEF IInv, TypeOK
  <2>7. StampsAreOrdered'
    <3> SUFFICES ASSUME NEW i \in DOMAIN stamps'
                 PROVE  /\ stamps'[i].floor < stamps'[i].stamp
                        /\ \A j \in DOMAIN stamps' : i < j => stamps'[i].stamp < stamps'[j].stamp
      BY DEF StampsAreOrdered
    <3>1. CASE i = Len(stamps) + 1 BY <3>1, <2>3, <1>6
    <3>2. CASE i \in 1..Len(stamps)
      <4>1. stamps'[i].floor < stamps'[i].stamp BY <3>2, <2>3 DEF IInv, StampsAreOrdered
      <4>2. ASSUME NEW j \in DOMAIN stamps', i < j PROVE stamps'[i].stamp < stamps'[j].stamp
        <5>1. CASE j = Len(stamps) + 1
          <6>1. stamps'[j].stamp = next[t] /\ stamps'[i] = stamps[i] BY <5>1, <3>2, <2>3
          <6> QED BY <6>1, <3>2, <2>4, <1>6, <1>0
        <5>2. CASE j \in 1..Len(stamps) BY <5>2, <4>2, <3>2, <2>3 DEF IInv, StampsAreOrdered
        <5> QED BY <5>1, <5>2, <2>3
      <4> QED BY <4>1, <4>2
    <3> QED BY <3>1, <3>2, <2>3
  <2>8. \A i \in DOMAIN stamps' : stamps'[i].stamp <= seen'
    <3> SUFFICES ASSUME NEW i \in DOMAIN stamps' PROVE stamps'[i].stamp <= seen' OBVIOUS
    <3>1. CASE i = Len(stamps) + 1 BY <3>1, <2>3, <2>5, <1>0
    <3>2. CASE i \in 1..Len(stamps) BY <3>2, <2>3, <2>4, <2>5, <1>6, <1>0
    <3> QED BY <3>1, <3>2, <2>3
  <2>9. ClockInv' BY <2>8, <1>4, <1>5 DEF ClockInv
  <2> QED BY <2>6, <2>7, <2>9 DEF IInv
<1>7. CASE call[t] # Tick
  <2>1. UNCHANGED stamps BY <1>7 DEF Returns
  <2>2. TypeOK' BY <2>1, <1>1, <1>4 DEF IInv, TypeOK
  <2>3. StampsAreOrdered' BY <2>1 DEF IInv, StampsAreOrdered
  <2>4. \A i \in DOMAIN stamps' : stamps'[i].stamp <= seen'
    <3> SUFFICES ASSUME NEW i \in DOMAIN stamps PROVE stamps[i].stamp <= seen' BY <2>1
    <3>1. stamps[i] \in [stamp : Nat, floor : Nat] BY ElementOf DEF IInv, TypeOK
    <3>2. stamps[i].stamp <= seen BY DEF IInv, ClockInv
    <3> QED BY <3>1, <3>2, <1>0, <1>4
  <2>5. ClockInv' BY <2>4, <1>4, <1>5 DEF ClockInv
  <2> QED BY <2>2, <2>3, <2>5 DEF IInv
<1> QED BY <1>6, <1>7

LEMMA UpToDateKeeps ==
  ASSUME IInv, NEW t \in Thread, NEW now \in PhysicalTime, UpToDate(t, now)
  PROVE  IInv'
<1>1. at[t] = "time" /\ call[t] # Tick /\ Wanted(t, now) <= loaded[t] /\ Returns(t) /\ clock' = clock
  BY DEF UpToDate
<1>2. clock \in Nat /\ loaded[t] \in Nat /\ loaded[t] <= clock BY <1>1 DEF IInv, TypeOK, ClockInv
<1>3. call[t][2] \in Nat /\ Wanted(t, now) \in Nat /\ call[t][2] <= Wanted(t, now)
  BY <1>1, CallKinds, WantedIsAhead
<1>4. call[t][2] <= clock' BY <1>1, <1>2, <1>3
<1> QED BY <1>1, <1>2, <1>4, ReturnsKeeps

LEMMA SwapKeeps == ASSUME IInv, NEW t \in Thread, Swap(t) PROVE IInv'
<1>1. at[t] = "swap" /\ clock = loaded[t] /\ clock' = next[t] /\ Returns(t) BY DEF Swap, Unmoved
<1>2. PICK now \in PhysicalTime : next[t] = Wanted(t, now) BY <1>1 DEF IInv, ClockInv
<1>3. /\ clock \in Nat /\ next[t] \in Nat /\ seen \in Nat /\ floor[t] \in Nat
      /\ seen <= clock /\ floor[t] <= clock /\ clock < next[t]
  BY <1>1 DEF IInv, TypeOK, ClockInv
<1>4. call[t] # Tick => call[t][2] <= clock' BY <1>1, <1>2, WantedIsAhead
<1> QED BY <1>1, <1>3, <1>4, ReturnsKeeps

LEMMA RetryKeeps == ASSUME IInv, NEW t \in Thread, Retry(t) PROVE IInv'
<1> USE DEF Retry, IInv
<1>1. TypeOK' BY DEF TypeOK
<1>2. ClockInv'
  <2> SUFFICES ASSUME NEW s \in Thread
               PROVE  /\ at'[s] = "idle" <=> call[s] = NoCall
                      /\ floor[s] <= seen
                      /\ at'[s] \in {"time", "swap"} => floor[s] <= loaded[s] /\ loaded[s] <= clock
                      /\ at'[s] = "swap" =>
                           loaded[s] < next[s] /\ \E now \in PhysicalTime : next[s] = Wanted(s, now)'
    BY DEF ClockInv
  <2>1. \A x : Wanted(s, x)' = Wanted(s, x) BY DEF Wanted
  <2>2. CASE s = t BY <2>2 DEF TypeOK, ClockInv
  <2>3. CASE s # t BY <2>1, <2>3 DEF TypeOK, ClockInv
  <2> QED BY <2>2, <2>3
<1>3. StampsAreOrdered' BY DEF StampsAreOrdered
<1> QED BY <1>1, <1>2, <1>3

LEMMA StutterKeeps == ASSUME IInv, UNCHANGED vars PROVE IInv'
<1> USE DEF vars, IInv
<1>1. TypeOK' BY DEF TypeOK
<1>2. ClockInv' BY DEF ClockInv, Wanted
<1>3. StampsAreOrdered' BY DEF StampsAreOrdered
<1> QED BY <1>1, <1>2, <1>3

\* The inductive invariant of the clock: it is ahead of all that was stamped or
\* received, and so is what a call is about to put in place (clock.rs, tick and
\* update).
THEOREM Invariance == Spec => []IInv
<1>1. IInv /\ [Next]_vars => IInv'
  <2> SUFFICES ASSUME IInv, [Next]_vars PROVE IInv' OBVIOUS
  <2>1. CASE UNCHANGED vars BY <2>1, StutterKeeps
  <2>2. ASSUME NEW t \in Thread, Invoke(t) \/ Step(t) PROVE IInv'
    BY <2>2, InvokeKeeps, LoadKeeps, ReadTimeKeeps, UpToDateKeeps, SwapKeeps, RetryKeeps DEF Step
  <2> QED BY <2>1, <2>2 DEF Next
<1> QED BY <1>1, InitIInv, PTL DEF Spec

\* No two ticks return the same stamp, and a stamp is above all that was
\* returned or taken in before its call (clock.rs, tick).
THEOREM TicksAreOrdered == Spec => []StampsAreOrdered
<1>1. IInv => StampsAreOrdered BY DEF IInv
<1> QED BY <1>1, Invariance, PTL

-----------------------------------------------------------------------------
(* Refinement of AtomicClock: a call happens when it returns.                *)

LEMMA InitRefines == Init => Atomic!AtomicInit
BY DEF Init, Atomic!AtomicInit, NoCall, Atomic!NoCall

LEMMA ReturnsRefines ==
  ASSUME IInv, NEW t \in Thread, NEW now \in PhysicalTime, at[t] # "idle", Returns(t),
         clock' = IF call[t] = Tick THEN Ticked(clock, now) ELSE Updated(clock, call[t][2], now),
         call[t] = Tick => clock' = next[t]
  PROVE  Atomic!AtomicNext
<1>1. call' = [call EXCEPT ![t] = Atomic!NoCall] BY DEF Returns, NoCall, Atomic!NoCall
<1>2. CASE call[t] = Tick
  <2> DEFINE new == [stamp |-> next[t], floor |-> floor[t]]
  <2>1. stamps' = Append(stamps, new) BY <1>2 DEF Returns
  <2>2. stamps \in Seq([stamp : Nat, floor : Nat]) /\ new \in [stamp : Nat, floor : Nat]
    BY DEF IInv, TypeOK
  <2>3. [i \in DOMAIN stamps' |-> stamps'[i].stamp]
          = Append([i \in DOMAIN stamps |-> stamps[i].stamp], next[t])
    BY <2>1, <2>2
  <2>4. Atomic!TickReturns(t)
    BY <1>1, <1>2, <2>3 DEF Atomic!TickReturns, Tick, Atomic!Tick, Atomic!Ticked, Atomic!Larger
  <2> QED BY <2>4 DEF Atomic!AtomicNext
<1>3. CASE call[t] # Tick
  <2>1. PICK r \in Received : call[t] = Update(r) BY <1>3, CallKinds
  <2>2. UNCHANGED stamps BY <1>3 DEF Returns
  <2>3. Atomic!UpdateReturns(t, r)
    BY <1>1, <1>3, <2>1, <2>2
    DEF Atomic!UpdateReturns, Update, Atomic!Update, Atomic!Updated, Atomic!Larger
  <2> QED BY <2>3 DEF Atomic!AtomicNext
<1> QED BY <1>2, <1>3

LEMMA StepRefines ==
  ASSUME IInv, IInv', [Next]_vars
  PROVE  Atomic!AtomicNext \/ UNCHANGED <<clock, call, [i \in DOMAIN stamps |-> stamps[i].stamp]>>
<1>1. CASE UNCHANGED vars BY <1>1 DEF vars
<1>2. ASSUME NEW t \in Thread, Invoke(t) PROVE Atomic!AtomicNext
  <2>1. call[t] = Atomic!NoCall BY <1>2 DEF Invoke, IInv, ClockInv, NoCall, Atomic!NoCall
  <2>2. Atomic!Invoke(t)
    BY <1>2, <2>1 DEF Invoke, Atomic!Invoke, Calls, Tick, Update, Atomic!Tick, Atomic!Update
  <2> QED BY <2>2 DEF Atomic!AtomicNext
<1>3. ASSUME NEW t \in Thread, Load(t) \/ Retry(t) \/ \E now \in PhysicalTime : ReadTime(t, now)
      PROVE  UNCHANGED <<clock, call, stamps>>
  BY <1>3 DEF Load, Retry, ReadTime
<1>4. ASSUME NEW t \in Thread, Swap(t) PROVE Atomic!AtomicNext
  <2>1. at[t] = "swap" /\ clock = loaded[t] /\ clock' = next[t] /\ Returns(t)
    BY <1>4 DEF Swap, Unmoved
  <2>2. PICK now \in PhysicalTime : next[t] = Wanted(t, now) BY <2>1 DEF IInv, ClockInv
  <2> QED BY <2>1, <2>2, ReturnsRefines DEF Wanted
<1>5. ASSUME NEW t \in Thread, NEW now \in PhysicalTime, UpToDate(t, now)
      PROVE  Atomic!AtomicNext
  <2>1. at[t] = "time" /\ call[t] # Tick /\ Wanted(t, now) <= loaded[t] /\ Returns(t) /\ clock' = clock
    BY <1>5 DEF UpToDate
  <2>2. clock \in Nat /\ loaded[t] \in Nat /\ now \in Nat /\ loaded[t] <= clock
    BY <2>1, ClockConstantsOK DEF IInv, TypeOK, ClockInv, ClockConstantsOK
  <2>3. call[t][2] \in Nat BY <2>1, CallKinds
  <2>4. clock = Updated(clock, call[t][2], now) BY <2>1, <2>2, <2>3 DEF Wanted
  <2> QED BY <2>1, <2>4, ReturnsRefines
<1> QED BY <1>1, <1>2, <1>3, <1>4, <1>5 DEF Next, Step

\* The loops implement calls that happen at one moment (clock.rs, tick and
\* update, as the message handlers of mod.rs take them).
THEOREM ClockIsAtomic == Spec => IsAtomic
<1>1. IInv /\ IInv' /\ [Next]_vars
        => [Atomic!AtomicNext]_<<clock, call, [i \in DOMAIN stamps |-> stamps[i].stamp]>>
  BY StepRefines
<1> QED BY <1>1, InitRefines, Invariance, PTL DEF Spec, IsAtomic, Atomic!AtomicSpec
=============================================================================
