----------------------------- MODULE TempoClock -----------------------------
(***************************************************************************)
(* The clock of src/cluster/tempo/clock.rs, as its threads run it: a call  *)
(* loads the clock, reads the system time, and puts the new value in place *)
(* with a compare-and-swap, or starts again.  Calls are made by the tasks  *)
(* of proposals, of incoming messages and of the periodic bump; the system *)
(* time may be set back between two readings.                              *)
(***************************************************************************)
EXTENDS LogicalClock, Sequences

CONSTANTS
  Thread,
  PhysicalTime,  \* what reading the system clock may return
  Received,      \* the stamps that come with messages
  MaxCalls       \* bound on calls

ASSUME ClockConstantsOK ==
  /\ PhysicalTime \subseteq Nat /\ Received \subseteq Nat
  /\ MaxCalls \in Nat

VARIABLES
  clock,
  call,     \* call[t]: the call of thread t
  at,       \* at[t]: the next step of it
  loaded,   \* loaded[t]: the value it has loaded
  next,     \* next[t]: the value it wants to put in place
  stamps,   \* the stamps that tick has returned so far
  seen,     \* history: the highest stamp returned by tick or given to an update that returned
  floor,    \* history: floor[t] is seen when thread t made its call
  calls     \* calls so far (bounded)

vars == <<clock, call, at, loaded, next, stamps, seen, floor, calls>>

NoCall == <<>>
Tick == <<"tick">>
Update(r) == <<"update", r>>
Calls == {Tick} \cup {Update(r) : r \in Received}

TypeOK ==
  /\ clock \in Nat
  /\ call \in [Thread -> {NoCall} \cup Calls]
  /\ at \in [Thread -> {"idle", "load", "time", "swap"}]
  /\ loaded \in [Thread -> Nat]
  /\ next \in [Thread -> Nat]
  /\ stamps \in Seq([stamp : Nat, floor : Nat])
  /\ seen \in Nat
  /\ floor \in [Thread -> Nat]
  /\ calls \in 0..MaxCalls

Init ==
  /\ clock \in PhysicalTime
  /\ call = [t \in Thread |-> NoCall]
  /\ at = [t \in Thread |-> "idle"]
  /\ loaded = [t \in Thread |-> 0]
  /\ next = [t \in Thread |-> 0]
  /\ stamps = <<>>
  /\ seen = 0
  /\ floor = [t \in Thread |-> 0]
  /\ calls = 0

-----------------------------------------------------------------------------
Invoke(t) ==
  /\ at[t] = "idle" /\ calls < MaxCalls
  /\ calls' = calls + 1
  /\ \E c \in Calls : call' = [call EXCEPT ![t] = c]
  /\ at' = [at EXCEPT ![t] = "load"]
  /\ floor' = [floor EXCEPT ![t] = seen]
  /\ UNCHANGED <<clock, loaded, next, stamps, seen>>

Load(t) ==
  /\ at[t] = "load"
  /\ loaded' = [loaded EXCEPT ![t] = clock]
  /\ at' = [at EXCEPT ![t] = "time"]
  /\ UNCHANGED <<clock, call, next, stamps, seen, floor, calls>>

\* The call ends; a tick returns the value it has put in place.
Returns(t) ==
  /\ call' = [call EXCEPT ![t] = NoCall]
  /\ at' = [at EXCEPT ![t] = "idle"]
  /\ IF call[t] = Tick
     THEN /\ stamps' = Append(stamps, [stamp |-> next[t], floor |-> floor[t]])
          /\ seen' = Larger(seen, next[t])
     ELSE /\ seen' = Larger(seen, call[t][2])
          /\ UNCHANGED stamps
  /\ UNCHANGED <<loaded, next, floor, calls>>

\* An update that finds nothing to do returns at once.
Wanted(t, now) ==
  IF call[t] = Tick THEN Ticked(loaded[t], now) ELSE Updated(loaded[t], call[t][2], now)

ReadTime(t, now) ==
  /\ at[t] = "time" /\ Wanted(t, now) > loaded[t]
  /\ next' = [next EXCEPT ![t] = Wanted(t, now)]
  /\ at' = [at EXCEPT ![t] = "swap"]
  /\ UNCHANGED <<clock, call, loaded, stamps, seen, floor, calls>>

UpToDate(t, now) ==
  /\ at[t] = "time" /\ call[t] # Tick /\ Wanted(t, now) <= loaded[t]
  /\ Returns(t)
  /\ UNCHANGED clock

Unchanged(t) == TRUE                                                \* mutant: a store
Unmoved(t) == clock = loaded[t]

Swap(t) ==
  /\ at[t] = "swap" /\ Unmoved(t)
  /\ clock' = next[t]
  /\ Returns(t)

GivesUp(t) ==                                                       \* mutant: no retry
  /\ at[t] = "swap" /\ ~Unmoved(t) /\ call[t] # Tick
  /\ Returns(t) /\ UNCHANGED clock
Retry(t) ==
  /\ at[t] = "swap" /\ ~Unmoved(t)
  /\ at' = [at EXCEPT ![t] = "load"]
  /\ UNCHANGED <<clock, call, loaded, next, stamps, seen, floor, calls>>

Step(t) ==
  \/ Load(t) \/ Swap(t) \/ Retry(t)
  \/ \E now \in PhysicalTime : ReadTime(t, now) \/ UpToDate(t, now)

Next == \E t \in Thread : Invoke(t) \/ Step(t)

Spec == Init /\ [][Next]_vars

-----------------------------------------------------------------------------
(* Properties.                                                               *)

\* However calls overlap and whatever the system time does, no two ticks return
\* the same stamp, and a stamp is above all that tick had returned and all that
\* update had taken in before the call began (test_clock_monotonicity and
\* test_clock_update, for one thread).
StampsAreOrdered ==
  \A i \in DOMAIN stamps :
    /\ stamps[i].floor < stamps[i].stamp
    /\ \A j \in DOMAIN stamps : i < j => stamps[i].stamp < stamps[j].stamp

\* The loops are indistinguishable from calls that happen at one moment, which
\* is what module Tempo models (tick, update).
Atomic == INSTANCE AtomicClock WITH
            stamps <- [i \in DOMAIN stamps |-> stamps[i].stamp]
IsAtomic == Atomic!AtomicSpec

-----------------------------------------------------------------------------
(* The inductive invariant.                                                  *)

\* The clock is ahead of all that was seen, and what a call has loaded is
\* between what was seen before it and the clock.
ClockInv ==
  /\ seen <= clock
  /\ \A i \in DOMAIN stamps : stamps[i].stamp <= seen
  /\ \A t \in Thread :
       /\ at[t] = "idle" <=> call[t] = NoCall
       /\ floor[t] <= seen
       /\ at[t] \in {"time", "swap"} => floor[t] <= loaded[t] /\ loaded[t] <= clock
       /\ at[t] = "swap" => /\ loaded[t] < next[t]
                            /\ \E now \in PhysicalTime : next[t] = Wanted(t, now)

IInv == TypeOK /\ ClockInv /\ StampsAreOrdered
=============================================================================
