----------------------------- MODULE AtomicClock ----------------------------
(***************************************************************************)
(* What the message handlers and proposals of module Tempo take the clock  *)
(* for: a call of any thread happens at one moment, its return.            *)
(***************************************************************************)
EXTENDS LogicalClock, Sequences

CONSTANTS
  Thread,
  PhysicalTime,  \* what reading the system clock may return
  Received       \* the stamps that come with messages

VARIABLES
  clock,
  call,    \* call[t]: the call thread t has made
  stamps   \* the stamps that tick has returned so far

NoCall == <<>>
Tick == <<"tick">>
Update(r) == <<"update", r>>

AtomicInit ==
  /\ clock \in PhysicalTime
  /\ call = [t \in Thread |-> NoCall]
  /\ stamps = <<>>

Invoke(t) ==
  /\ call[t] = NoCall
  /\ \E c \in {Tick} \cup {Update(r) : r \in Received} : call' = [call EXCEPT ![t] = c]
  /\ UNCHANGED <<clock, stamps>>

TickReturns(t) ==
  /\ call[t] = Tick
  /\ \E now \in PhysicalTime : clock' = Ticked(clock, now)
  /\ stamps' = Append(stamps, clock')
  /\ call' = [call EXCEPT ![t] = NoCall]

UpdateReturns(t, r) ==
  /\ call[t] = Update(r)
  /\ \E now \in PhysicalTime : clock' = Updated(clock, r, now)
  /\ call' = [call EXCEPT ![t] = NoCall]
  /\ UNCHANGED stamps

AtomicNext ==
  \E t \in Thread : Invoke(t) \/ TickReturns(t) \/ \E r \in Received : UpdateReturns(t, r)

AtomicSpec == AtomicInit /\ [][AtomicNext]_<<clock, call, stamps>>
=============================================================================
