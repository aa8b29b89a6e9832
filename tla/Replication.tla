----------------------------- MODULE Replication ----------------------------
(***************************************************************************)
(* What the leaderless cluster modes promise, without messages, tasks or   *)
(* numbering: a change is submitted at one node, nodes come to hold it, it *)
(* is chosen once enough of them do, and only then do stores take it, each *)
(* at most once.  A client hears "ok" at the moment its own node's store   *)
(* takes the change and not before.  Nothing is promised about the order   *)
(* in which two stores take two changes.                                   *)
(***************************************************************************)
EXTENDS Integers, Sequences

CONSTANTS
  Node, Change, NoNode,
  Quorums    \* Quorums[n]: the sets of holders that suffice for n's changes

VARIABLES
  home,     \* home[c]: the node c was submitted at
  held,     \* held[c]: the nodes that hold c
  chosen,   \* the changes that may be applied
  written,  \* written[n]: what n's store took, in order
  answer    \* answer[c]: what the client was told

vars == <<home, held, chosen, written, answer>>

Init ==
  /\ home = [c \in Change |-> NoNode]
  /\ held = [c \in Change |-> {}]
  /\ chosen = {}
  /\ written = [n \in Node |-> <<>>]
  /\ answer = [c \in Change |-> "none"]

Submit(n, c) ==
  /\ home[c] = NoNode
  /\ home' = [home EXCEPT ![c] = n]
  /\ held' = [held EXCEPT ![c] = {n}]
  /\ UNCHANGED <<chosen, written, answer>>

Hold(n, c) ==
  /\ home[c] # NoNode
  /\ held' = [held EXCEPT ![c] = @ \cup {n}]
  /\ UNCHANGED <<home, chosen, written, answer>>

Choose(c) ==
  /\ home[c] # NoNode
  /\ held[c] \in Quorums[home[c]]
  /\ chosen' = chosen \cup {c}
  /\ UNCHANGED <<home, held, written, answer>>

\* A store takes a chosen change; at home this may answer the client.
Write(n, c) ==
  /\ c \in chosen
  /\ \A i \in DOMAIN written[n] : written[n][i] # c
  /\ written' = [written EXCEPT ![n] = Append(@, c)]
  /\ \/ answer' = answer
     \/ home[c] = n /\ answer[c] = "none" /\ answer' = [answer EXCEPT ![c] = "ok"]
  /\ UNCHANGED <<home, held, chosen>>

\* The client is told of a failure, which says nothing about the change.
Fail(c) ==
  /\ home[c] # NoNode /\ answer[c] = "none"
  /\ \E e \in {"error", "timeout"} : answer' = [answer EXCEPT ![c] = e]
  /\ UNCHANGED <<home, held, chosen, written>>

Next ==
  \/ \E n \in Node, c \in Change : Submit(n, c) \/ Hold(n, c) \/ Write(n, c)
  \/ \E c \in Change : Choose(c) \/ Fail(c)

Spec == Init /\ [][Next]_vars
=============================================================================
