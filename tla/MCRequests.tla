----------------------------- MODULE MCRequests -----------------------------
(***************************************************************************)
(* An instance of Requests for TLC: two namespaces with a request, a       *)
(* collection and a document each.                                         *)
(***************************************************************************)
EXTENDS Requests

CONSTANTS r1, r2, n1, n2, c1, c2, d1, d2

MCHostOf == [r \in Request |-> IF r = r1 THEN n1 ELSE n2]
MCOwnerOf == [c \in Collection |-> IF c = c1 THEN n1 ELSE n2]
MCCollectionOf == [d \in Document |-> IF d = d1 THEN c1 ELSE c2]

\* The first namespace has a handler at the start; admin calls change the rest.
MCInit ==
  /\ Init
  /\ docs = [d \in Document |-> 0]
  /\ logged = [d \in Document |-> IF d = d1 THEN 0 ELSE Unlogged]
  /\ code = [n \in Namespace |-> TRUE]
  /\ route[n1] = "module" /\ route[n2] \in {"module", "both"}
  /\ "none" \notin {visibility[c] : c \in Collection}

MCSpec == MCInit /\ [][Next]_vars /\ Fairness
=============================================================================
