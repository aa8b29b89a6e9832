-------------------------- MODULE PassthroughProofs --------------------------
(***************************************************************************)
(* Proofs about Passthrough.  The invariant IInv says of each direction    *)
(* what was read of it, what is held of it and what has still to be read,  *)
(* as long as any of that can still reach the other side.                  *)
(***************************************************************************)
EXTENDS Passthrough, TLAPS

\* What is unread of side s, of which r messages were read: the messages that
\* follow, perhaps an end after the last of them, perhaps a break.
Unread(s, r) ==
  /\ \A i \in DOMAIN inbox[s] :
       \/ inbox[s][i] = r + i /\ r + i <= sent[s]
       \/ inbox[s][i] = Close /\ r + i = sent[s] + 1 /\ conn[s] # "open"
       \/ inbox[s][i] = Broken /\ conn[s] = "broken"
  /\ conn[s] = "open" => Len(inbox[s]) = sent[s] - r

\* Side s has ended, and n messages of it are all it sent unless it broke.
Ended(s, n) == \/ conn[s] = "broken"
               \/ conn[s] = "closed" /\ n = sent[s]

\* A direction of a WebSocket whose other side can still be written to.
Flow(s) ==
  LET n == Len(got[Other(s)])
  IN  \/ held[s] = <<>> /\ Unread(s, n)
      \/ held[s] = <<n + 1>> /\ n + 1 <= sent[s] /\ Unread(s, n + 1)
      \/ held[s] = <<Close>> /\ Ended(s, n)

Came(s) == \E n \in 0..sent[s] : got[Other(s)] = First(n)
CameToEnd(s) == \E n \in 0..sent[s] : Ended(s, n) /\ EndsWith(Other(s), n)

WebSocketInv ==
  kind = "websocket" => \A s \in Side :
    /\ stage \in {"connect", "relay"} =>
         Came(s) /\ (conn[Other(s)] # "broken" => Flow(s))
    /\ stage = "ended" => Came(s) \/ CameToEnd(s)
    /\ stage \in {"connect", "relay", "ended"}

\* What a gRPC call has taken in, or passed on, of side s as a whole.
Whole(s) == conn[s] # "open" /\ held[s] = First(sent[s])
Delivered(s) == conn[s] # "open" /\ EndsWith(Other(s), sent[s])

GrpcInv ==
  kind = "grpc" =>
    /\ stage \in {"connect", "body"} =>
         \E n \in 0..sent["client"] : held["client"] = First(n) /\ Unread("client", n)
    /\ stage \in {"head", "capacity"} => Whole("client")
    /\ stage \in {"connect", "body", "head", "capacity"} => got["upstream"] = <<>>
    /\ stage = "response" => Delivered("client")
    /\ stage # "ended" =>
         /\ got["client"] = <<>>
         /\ \E n \in 0..sent["upstream"] : held["upstream"] = First(n) /\ Unread("upstream", n)
    /\ stage = "ended" =>
         /\ got["upstream"] = <<>> \/ Delivered("client")
         /\ \/ got["client"] \in {<<>>, <<Failure>>}
            \/ Delivered("upstream") /\ Delivered("client")
    /\ stage # "relay"

IInv == TypeOK /\ WebSocketInv /\ GrpcInv

-----------------------------------------------------------------------------
(* Lemmas on sequences.                                                     *)

LEMMA Appended ==
  ASSUME NEW S, NEW q \in Seq(S), NEW x \in S
  PROVE  /\ Append(q, x) \in Seq(S) /\ Len(Append(q, x)) = Len(q) + 1
         /\ Append(q, x)[Len(q) + 1] = x
         /\ \A i \in 1..Len(q) : Append(q, x)[i] = q[i]
         /\ \A i \in DOMAIN Append(q, x) : i \in Nat /\ (i \in DOMAIN q \/ i = Len(q) + 1)
OBVIOUS

LEMMA FirstFacts ==
  ASSUME NEW n \in Nat
  PROVE  /\ First(n) \in Seq(Nat) /\ Len(First(n)) = n
         /\ \A i \in 1..n : First(n)[i] = i
<1>1. First(n) \in [1..n -> Nat]
  BY DEF First
<1>2. First(n) \in Seq(Nat)
  BY <1>1
<1> QED
  BY <1>1, <1>2 DEF First

LEMMA FirstNone == First(0) = <<>>
<1>1. First(0) \in Seq(Nat) /\ Len(First(0)) = 0
  BY FirstFacts
<1> QED
  BY <1>1

LEMMA FirstGrows ==
  ASSUME NEW n \in Nat
  PROVE  First(n) \o <<n + 1>> = First(n + 1) /\ Append(First(n), n + 1) = First(n + 1)
<1>1. /\ First(n) \in Seq(Nat) /\ Len(First(n)) = n /\ \A i \in 1..n : First(n)[i] = i
      /\ First(n + 1) \in Seq(Nat) /\ Len(First(n + 1)) = n + 1
      /\ \A i \in 1..(n + 1) : First(n + 1)[i] = i
  BY FirstFacts
<1>2. Append(First(n), n + 1) = First(n + 1)
  BY <1>1
<1>3. First(n) \o <<n + 1>> = Append(First(n), n + 1)
  BY <1>1
<1> QED
  BY <1>2, <1>3

LEMMA EndAppended == ASSUME NEW n \in Nat PROVE Append(First(n), Close) = First(n) \o <<Close>>
<1>1. First(n) \in Seq(Nat) /\ Close \in Nat
  BY FirstFacts, BoundsOK DEF Close, BoundsOK
<1> QED
  BY <1>1

LEMMA FirstEnd ==
  ASSUME NEW n \in Nat, NEW x \in Nat
  PROVE  /\ Len(First(n) \o <<x>>) = n + 1
         /\ (First(n) \o <<x>>)[n + 1] = x
         /\ \A i \in 1..n : (First(n) \o <<x>>)[i] = i
<1>1. First(n) \in Seq(Nat) /\ Len(First(n)) = n /\ \A i \in 1..n : First(n)[i] = i
  BY FirstFacts
<1>2. First(n) \o <<x>> = Append(First(n), x)
  BY <1>1
<1> QED
  BY <1>1, <1>2

\* What came tells how much it was.
LEMMA EndsOnce ==
  ASSUME NEW n \in Nat, NEW m \in Nat, First(n) \o <<Close>> = First(m) \o <<Close>>
  PROVE  n = m
<1>1. Close \in Nat
  BY BoundsOK DEF Close, BoundsOK
<1>2. Len(First(n) \o <<Close>>) = n + 1 /\ Len(First(m) \o <<Close>>) = m + 1
  BY <1>1, FirstEnd
<1> QED
  BY <1>2

LEMMA EndIsNotFirst ==
  ASSUME NEW n \in 0..MaxSent, NEW m \in 0..MaxSent
  PROVE  First(n) # First(m) \o <<Close>>
<1>1. Close \in Nat /\ n \in Nat /\ m \in Nat /\ n < Close
  <2>1. MaxSent \in Nat
    BY BoundsOK DEF BoundsOK
  <2> QED
    BY <2>1 DEF Close
<1>2. SUFFICES ASSUME First(n) = First(m) \o <<Close>> PROVE FALSE
  OBVIOUS
<1>3. n = m + 1
  BY <1>1, <1>2, FirstFacts, FirstEnd
<1>4. First(n)[n] = n
  BY <1>1, <1>3, FirstFacts
<1>5. (First(m) \o <<Close>>)[m + 1] = Close
  BY <1>1, FirstEnd
<1>6. First(n)[m + 1] = Close
  BY <1>2, <1>5
<1> QED
  BY <1>1, <1>3, <1>4, <1>6

LEMMA EndIsNotFailure ==
  ASSUME NEW n \in 0..MaxSent
  PROVE  <<Failure>> # First(n) \o <<Close>>
<1>1. Close \in Nat /\ Failure # Close /\ n \in Nat
  BY BoundsOK DEF Close, Failure, BoundsOK
<1>2. Len(First(n) \o <<Close>>) = n + 1 /\ (First(n) \o <<Close>>)[n + 1] = Close
  BY <1>1, FirstEnd
<1> QED
  BY <1>1, <1>2

LEMMA Sides ==
  /\ \A s \in Side : Other(s) \in Side /\ Other(s) # s /\ Other(Other(s)) = s
  /\ \A s, t \in Side : t # s => t = Other(s)
BY DEF Side, Other

-----------------------------------------------------------------------------
(* What is unread.                                                          *)

LEMMA Types ==
  ASSUME TypeOK, NEW s \in Side
  PROVE  /\ sent[s] \in 0..MaxSent /\ sent[s] \in Nat /\ MaxSent \in Nat
         /\ inbox[s] \in Seq(Data \cup {Close, Broken})
         /\ held[s] \in Seq(Data \cup {Close})
         /\ conn[s] \in {"open", "closed", "broken"}
<1>1. MaxSent \in Nat
  BY BoundsOK DEF BoundsOK
<1>2. sent[s] \in 0..MaxSent
  BY DEF TypeOK
<1>3. inbox[s] \in Seq(Data \cup {Close, Broken}) /\ held[s] \in Seq(Data \cup {Close})
  BY DEF TypeOK
<1>4. conn[s] \in {"open", "closed", "broken"}
  BY DEF TypeOK
<1> QED
  BY <1>1, <1>2, <1>3, <1>4

LEMMA UnreadFrame ==
  ASSUME NEW s \in Side, NEW r, Unread(s, r),
         inbox'[s] = inbox[s], sent'[s] = sent[s], conn'[s] = conn[s]
  PROVE  Unread(s, r)'
BY DEF Unread

LEMMA UnreadSends ==
  ASSUME TypeOK, NEW s \in Side, NEW r \in 0..sent[s], Unread(s, r), SideSends(s)
  PROVE  Unread(s, r)'
<1>1. /\ sent[s] \in Nat /\ conn'[s] = "open" /\ conn[s] = "open"
      /\ sent'[s] = sent[s] + 1 /\ inbox'[s] = Append(inbox[s], sent[s] + 1)
      /\ inbox[s] \in Seq(Data \cup {Close, Broken}) /\ r \in Nat
  <2>1. sent' = [sent EXCEPT ![s] = sent[s] + 1] /\ sent \in [Side -> 0..MaxSent]
    BY DEF SideSends, TypeOK
  <2>2. inbox' = [inbox EXCEPT ![s] = Append(inbox[s], sent[s] + 1)]
    BY DEF SideSends
  <2>3. conn[s] = "open" /\ conn' = conn /\ DOMAIN inbox = Side
    BY DEF SideSends, Speaks, TypeOK
  <2> QED
    BY <2>1, <2>2, <2>3, Types
<1>2. Len(inbox[s]) = sent[s] - r /\ \A i \in DOMAIN inbox[s] : inbox[s][i] = r + i /\ r + i <= sent[s]
  BY <1>1 DEF Unread
<1>3. Len(inbox'[s]) = sent'[s] - r
  BY <1>1, <1>2
<1>4. \A i \in DOMAIN inbox'[s] : inbox'[s][i] = r + i /\ r + i <= sent'[s]
  <2> SUFFICES ASSUME NEW i \in DOMAIN inbox'[s] PROVE inbox'[s][i] = r + i /\ r + i <= sent'[s]
    OBVIOUS
  <2>1. sent[s] + 1 \in Data \cup {Close, Broken}
    BY Types DEF SideSends, Data
  <2>2. CASE i \in DOMAIN inbox[s]
    BY <1>1, <1>2, <2>1, <2>2, Appended
  <2>3. CASE i = Len(inbox[s]) + 1
    BY <1>1, <1>2, <2>1, <2>3, Appended
  <2> QED
    BY <1>1, <2>1, <2>2, <2>3, Appended
<1> QED
  BY <1>3, <1>4 DEF Unread

LEMMA UnreadCloses ==
  ASSUME TypeOK, NEW s \in Side, NEW r \in 0..sent[s], Unread(s, r), SideCloses(s)
  PROVE  Unread(s, r)'
<1>1. /\ sent[s] \in Nat /\ conn'[s] = "closed" /\ conn[s] = "open"
      /\ sent'[s] = sent[s] /\ inbox'[s] = Append(inbox[s], Close)
      /\ inbox[s] \in Seq(Data \cup {Close, Broken}) /\ r \in Nat
  <2>1. conn' = [conn EXCEPT ![s] = "closed"] /\ DOMAIN conn = Side /\ sent' = sent
    BY DEF SideCloses, TypeOK
  <2>2. inbox' = [inbox EXCEPT ![s] = Append(inbox[s], Close)] /\ DOMAIN inbox = Side
    BY DEF SideCloses, TypeOK
  <2>3. conn[s] = "open"
    BY DEF SideCloses, Speaks
  <2> QED
    BY <2>1, <2>2, <2>3, Types
<1>2. Len(inbox[s]) = sent[s] - r /\ \A i \in DOMAIN inbox[s] : inbox[s][i] = r + i /\ r + i <= sent[s]
  BY <1>1 DEF Unread
<1>3. \A i \in DOMAIN inbox'[s] :
        \/ inbox'[s][i] = r + i /\ r + i <= sent[s]
        \/ inbox'[s][i] = Close /\ r + i = sent[s] + 1
  <2> SUFFICES ASSUME NEW i \in DOMAIN inbox'[s]
               PROVE  \/ inbox'[s][i] = r + i /\ r + i <= sent[s]
                      \/ inbox'[s][i] = Close /\ r + i = sent[s] + 1
    OBVIOUS
  <2>1. CASE i \in DOMAIN inbox[s]
    BY <1>1, <1>2, <2>1, Appended
  <2>2. CASE i = Len(inbox[s]) + 1
    BY <1>1, <1>2, <2>2, Appended
  <2> QED
    BY <1>1, <2>1, <2>2, Appended
<1> QED
  BY <1>1, <1>3 DEF Unread

LEMMA UnreadBreaks ==
  ASSUME TypeOK, NEW s \in Side, NEW r \in 0..sent[s], Unread(s, r), SideBreaks(s)
  PROVE  Unread(s, r)'
<1>1. /\ conn'[s] = "broken" /\ sent'[s] = sent[s]
      /\ inbox[s] \in Seq(Data \cup {Close, Broken})
  BY Types DEF SideBreaks, TypeOK
<1>2. PICK j \in 0..Len(inbox[s]) : inbox'[s] = Append(SubSeq(inbox[s], 1, j), Broken)
  BY DEF SideBreaks, TypeOK
<1>3. /\ SubSeq(inbox[s], 1, j) \in Seq(Data \cup {Close, Broken})
      /\ Len(SubSeq(inbox[s], 1, j)) = j
      /\ \A i \in 1..j : SubSeq(inbox[s], 1, j)[i] = inbox[s][i] /\ i \in DOMAIN inbox[s]
  BY <1>1
<1>4. ASSUME NEW i \in DOMAIN inbox'[s]
      PROVE  inbox'[s][i] = Broken \/ (i \in DOMAIN inbox[s] /\ inbox'[s][i] = inbox[s][i])
  <2>1. i \in Nat /\ (i \in DOMAIN SubSeq(inbox[s], 1, j) \/ i = j + 1)
    BY <1>2, <1>3, Appended
  <2>2. CASE i \in 1..j
    BY <1>2, <1>3, <2>2, Appended
  <2>3. CASE i = j + 1
    BY <1>2, <1>3, <2>3, Appended
  <2> QED
    BY <1>3, <2>1, <2>2, <2>3
<1> QED
  BY <1>1, <1>4 DEF Unread

\* What is read next is the next message, or the end after the last one, or a
\* break.
LEMMA UnreadHead ==
  ASSUME TypeOK, NEW s \in Side, NEW r \in 0..sent[s], Unread(s, r), inbox[s] # <<>>,
         inbox' = Taken(s), UNCHANGED <<sent, conn>>
  PROVE  \/ NextFrom(s) = r + 1 /\ r + 1 <= sent[s] /\ Unread(s, r + 1)'
         \/ NextFrom(s) = Close /\ r = sent[s] /\ conn[s] # "open"
         \/ NextFrom(s) = Broken /\ conn[s] = "broken"
<1>1. /\ inbox[s] \in Seq(Data \cup {Close, Broken}) /\ inbox'[s] = Tail(inbox[s])
      /\ r \in Nat /\ sent[s] \in Nat
  BY Types DEF TypeOK, Taken
<1>2. 1 \in DOMAIN inbox[s] /\ NextFrom(s) = inbox[s][1]
  BY <1>1 DEF NextFrom
<1>3. /\ Len(inbox'[s]) = Len(inbox[s]) - 1
      /\ \A i \in DOMAIN inbox'[s] : i \in Nat /\ i + 1 \in DOMAIN inbox[s] /\ inbox'[s][i] = inbox[s][i + 1]
  BY <1>1
<1>4. Unread(s, r + 1)'
  <2>1. ASSUME NEW i \in DOMAIN inbox'[s]
        PROVE  \/ inbox'[s][i] = (r + 1) + i /\ (r + 1) + i <= sent[s]
               \/ inbox'[s][i] = Close /\ (r + 1) + i = sent[s] + 1 /\ conn[s] # "open"
               \/ inbox'[s][i] = Broken /\ conn[s] = "broken"
    <3>1. (r + 1) + i = r + (i + 1) /\ i \in Nat
      BY <1>1, <1>3
    <3> QED
      BY <3>1, <1>3 DEF Unread
  <2>2. conn[s] = "open" => Len(inbox'[s]) = sent[s] - (r + 1)
    BY <1>1, <1>3 DEF Unread
  <2> QED
    BY <2>1, <2>2 DEF Unread
<1> QED
  BY <1>1, <1>2, <1>4 DEF Unread

-----------------------------------------------------------------------------
(* The sides.                                                               *)

\* What a side may do leaves alone what the proxy has of either side: an ended
\* side sends nothing more, and what is unread goes on as it should.
Spoke ==
  /\ UNCHANGED <<kind, stage, held, got>>
  /\ \A t \in Side :
       /\ sent'[t] \in Nat /\ sent[t] <= sent'[t]
       /\ conn[t] # "open" => sent'[t] = sent[t] /\ conn'[t] # "open"
       /\ conn'[t] # "broken" => conn[t] # "broken"
       /\ \A n \in 0..sent[t] : Ended(t, n) => Ended(t, n)'
       /\ \A n \in 0..sent[t] : Unread(t, n) => Unread(t, n)'

LEMMA SendsSpoke == ASSUME TypeOK, NEW s \in Side, SideSends(s) PROVE Spoke
<1>1. /\ UNCHANGED <<kind, stage, conn, held, got>> /\ conn[s] = "open"
      /\ sent' = [sent EXCEPT ![s] = sent[s] + 1]
      /\ \A t \in Side : t # s => sent'[t] = sent[t] /\ inbox'[t] = inbox[t]
      /\ sent'[s] = sent[s] + 1
  BY DEF SideSends, Speaks, TypeOK
<1>2. \A t \in Side : sent'[t] \in Nat /\ sent[t] <= sent'[t]
  BY <1>1, Types
<1>3. \A t \in Side : conn[t] # "open" => sent'[t] = sent[t]
  BY <1>1
<1>4. \A t \in Side : \A n \in 0..sent[t] : Unread(t, n) => Unread(t, n)'
  BY <1>1, UnreadSends, UnreadFrame
<1>5. \A t \in Side : \A n \in 0..sent[t] : Ended(t, n) => Ended(t, n)'
  BY <1>1 DEF Ended
<1> QED
  BY <1>1, <1>2, <1>3, <1>4, <1>5 DEF Spoke

LEMMA ClosesSpoke == ASSUME TypeOK, NEW s \in Side, SideCloses(s) PROVE Spoke
<1>1. /\ UNCHANGED <<kind, stage, sent, held, got>> /\ conn[s] = "open"
      /\ \A t \in Side : t # s => conn'[t] = conn[t] /\ inbox'[t] = inbox[t]
      /\ conn'[s] = "closed"
  BY DEF SideCloses, Speaks, TypeOK
<1>2. \A t \in Side : sent'[t] \in Nat /\ sent[t] <= sent'[t]
  BY <1>1, Types
<1>3. \A t \in Side : \A n \in 0..sent[t] : Unread(t, n) => Unread(t, n)'
  BY <1>1, UnreadCloses, UnreadFrame
<1>4. \A t \in Side : \A n \in 0..sent[t] : Ended(t, n) => Ended(t, n)'
  BY <1>1 DEF Ended
<1> QED
  BY <1>1, <1>2, <1>3, <1>4 DEF Spoke

LEMMA BreaksSpoke == ASSUME TypeOK, NEW s \in Side, SideBreaks(s) PROVE Spoke
<1>1. /\ UNCHANGED <<kind, stage, sent, held, got>>
      /\ \A t \in Side : t # s => conn'[t] = conn[t] /\ inbox'[t] = inbox[t]
      /\ conn'[s] = "broken" /\ conn[s] # "broken"
  BY DEF SideBreaks, TypeOK
<1>2. \A t \in Side : sent'[t] \in Nat /\ sent[t] <= sent'[t]
  BY <1>1, Types
<1>3. \A t \in Side : \A n \in 0..sent[t] : Unread(t, n) => Unread(t, n)'
  BY <1>1, UnreadBreaks, UnreadFrame
<1>4. \A t \in Side : \A n \in 0..sent[t] : Ended(t, n) => Ended(t, n)'
  BY <1>1 DEF Ended
<1> QED
  BY <1>1, <1>2, <1>3, <1>4 DEF Spoke

LEMMA SpokeKeeps == ASSUME TypeOK, WebSocketInv, GrpcInv, Spoke PROVE WebSocketInv' /\ GrpcInv'
<1>1. /\ UNCHANGED <<kind, stage, held, got>>
      /\ \A t \in Side : Other(t) \in Side /\ sent[t] \in Nat
  BY Sides, Types DEF Spoke
<1>2. WebSocketInv'
  <2> SUFFICES ASSUME kind = "websocket", NEW t \in Side
               PROVE  /\ stage \in {"connect", "relay"} =>
                           Came(t)' /\ (conn'[Other(t)] # "broken" => Flow(t)')
                      /\ stage = "ended" => Came(t)' \/ CameToEnd(t)'
    BY <1>1 DEF WebSocketInv
  <2>1. ASSUME Came(t) PROVE Came(t)'
    <3>1. PICK n \in 0..sent[t] : got[Other(t)] = First(n)
      BY <2>1 DEF Came
    <3>2. n \in 0..sent'[t] /\ got'[Other(t)] = First(n)
      BY <1>1, <3>1 DEF Spoke
    <3> QED
      BY <3>2 DEF Came
  <2>2. ASSUME CameToEnd(t) PROVE CameToEnd(t)'
    <3>1. PICK n \in 0..sent[t] : Ended(t, n) /\ EndsWith(Other(t), n)
      BY <2>2 DEF CameToEnd
    <3>2. n \in 0..sent'[t] /\ Ended(t, n)'
      BY <1>1, <3>1 DEF Spoke
    <3>3. EndsWith(Other(t), n)'
      BY <1>1, <3>1 DEF EndsWith
    <3> QED
      BY <3>2, <3>3 DEF CameToEnd
  <2>3. ASSUME Came(t), Flow(t) PROVE Flow(t)'
    <3> DEFINE n == Len(got[Other(t)])
    <3>1. n \in 0..sent[t]
      BY <2>3, <1>1, FirstFacts DEF Came
    <3>2. n' = n /\ held'[t] = held[t] /\ sent[t] <= sent'[t]
      BY <1>1 DEF Spoke
    <3>3. CASE held[t] = <<>> /\ Unread(t, n)
      BY <3>1, <3>2, <3>3, <1>1 DEF Flow, Spoke
    <3>4. CASE held[t] = <<n + 1>> /\ n + 1 <= sent[t] /\ Unread(t, n + 1)
      <4>1. n + 1 \in 0..sent[t] /\ n + 1 <= sent'[t]
        BY <3>1, <3>4, <1>1 DEF Spoke
      <4> QED
        BY <4>1, <3>2, <3>4, <1>1 DEF Flow, Spoke
    <3>5. CASE held[t] = <<Close>> /\ Ended(t, n)
      BY <3>1, <3>2, <3>5, <1>1 DEF Flow, Spoke
    <3> QED
      BY <2>3, <3>3, <3>4, <3>5 DEF Flow
  <2>4. conn'[Other(t)] # "broken" => conn[Other(t)] # "broken"
    BY <1>1 DEF Spoke
  <2> QED
    BY <2>1, <2>2, <2>3, <2>4 DEF WebSocketInv
<1>3. ASSUME NEW t \in Side
      PROVE  /\ Whole(t) => Whole(t)'
             /\ Delivered(t) => Delivered(t)'
             /\ (\E n \in 0..sent[t] : held[t] = First(n) /\ Unread(t, n))
                  => (\E n \in 0..sent[t] : held[t] = First(n) /\ Unread(t, n))'
  <2>1. (Whole(t) => Whole(t)') /\ (Delivered(t) => Delivered(t)')
    BY <1>1 DEF Whole, Delivered, EndsWith, Spoke
  <2>2. ASSUME NEW n \in 0..sent[t], held[t] = First(n), Unread(t, n)
        PROVE  n \in 0..sent'[t] /\ held'[t] = First(n) /\ Unread(t, n)'
    BY <2>2, <1>1 DEF Spoke
  <2> QED
    BY <2>1, <2>2
<1>4. "client" \in Side /\ "upstream" \in Side
  BY DEF Side
<1>5. GrpcInv'
  BY <1>1, <1>3, <1>4 DEF GrpcInv
<1> QED
  BY <1>2, <1>5

-----------------------------------------------------------------------------
(* A WebSocket relay.                                                       *)

\* Reading a message takes it from what is unread to what is held.
LEMMA ReadSideStep ==
  ASSUME TypeOK, WebSocketInv, GrpcInv, NEW s \in Side, ReadSide(s)
  PROVE  WebSocketInv' /\ GrpcInv'
<1>1. /\ stage = "relay" /\ held[s] = <<>> /\ inbox[s] # <<>> /\ inbox' = Taken(s)
      /\ UNCHANGED <<kind, stage, sent, conn, got>> /\ held'[s] = <<Passed(NextFrom(s))>>
      /\ \A t \in Side : t # s => held'[t] = held[t] /\ inbox'[t] = inbox[t]
  BY DEF ReadSide, Taken, TypeOK
<1>2. kind # "grpc"
  BY <1>1 DEF GrpcInv
<1>3. ASSUME kind = "websocket", NEW t \in Side
      PROVE  Came(t)' /\ (conn'[Other(t)] # "broken" => Flow(t)')
  <2> DEFINE n == Len(got[Other(t)])
  <2>1. Came(t) /\ (conn[Other(t)] # "broken" => Flow(t))
    BY <1>1, <1>3 DEF WebSocketInv
  <2>2. Came(t)'
    BY <1>1, <2>1 DEF Came
  <2>3. n \in 0..sent[t] /\ n' = n /\ sent[t] \in 0..MaxSent /\ MaxSent \in Nat
    BY <1>1, <2>1, FirstFacts, Types DEF Came
  <2>4. ASSUME conn[Other(t)] # "broken", t # s PROVE Flow(t)'
    <3>1. \A r : Unread(t, r) => Unread(t, r)'
      BY <1>1, <2>4, UnreadFrame
    <3> QED
      BY <1>1, <2>1, <2>4, <3>1 DEF Flow, Ended
  <2>5. ASSUME conn[Other(t)] # "broken", t = s PROVE Flow(t)'
    <3>1. Unread(t, n)
      BY <1>1, <2>1, <2>5 DEF Flow
    <3>2. CASE NextFrom(t) = n + 1 /\ n + 1 <= sent[t] /\ Unread(t, n + 1)'
      <4>1. Passed(NextFrom(t)) = n + 1
        BY <2>3, <3>2 DEF Passed, Broken
      <4> QED
        BY <1>1, <2>3, <2>5, <3>2, <4>1 DEF Flow
    <3>3. CASE NextFrom(t) = Close /\ n = sent[t] /\ conn[t] # "open"
      <4>1. Passed(NextFrom(t)) = Close /\ Ended(t, n)'
        BY <1>1, <2>3, <3>3, Types DEF Passed, Ended
      <4> QED
        BY <1>1, <2>3, <2>5, <4>1 DEF Flow
    <3>4. CASE NextFrom(t) = Broken /\ conn[t] = "broken"
      <4>1. Passed(NextFrom(t)) = Close /\ Ended(t, n)'
        BY <1>1, <3>4 DEF Passed, Ended
      <4> QED
        BY <1>1, <2>3, <2>5, <4>1 DEF Flow
    <3> QED
      BY <1>1, <2>3, <2>5, <3>1, <3>2, <3>3, <3>4, UnreadHead
  <2> QED
    BY <1>1, <2>2, <2>4, <2>5
<1> QED
  BY <1>1, <1>2, <1>3 DEF WebSocketInv, GrpcInv

\* A message that is held is the next one of its direction; it arrives, or it is
\* lost for a side that takes nothing any more.
LEMMA ForwardDataStep ==
  ASSUME TypeOK, WebSocketInv, GrpcInv, NEW s \in Side, ForwardData(s)
  PROVE  WebSocketInv' /\ GrpcInv'
<1>1. /\ stage = "relay" /\ held[s] # <<>> /\ held[s] # <<Close>> /\ stage' \in {"relay", "ended"}
      /\ UNCHANGED <<kind, sent, conn, inbox>> /\ held'[s] = <<>>
      /\ \A t \in Side : t # s => held'[t] = held[t]
  BY DEF ForwardData, TypeOK
<1>2. kind = "websocket"
  BY <1>1 DEF GrpcInv, TypeOK
<1>3. \A t \in Side : Other(t) \in Side /\ Came(t) /\ (conn[Other(t)] # "broken" => Flow(t))
  BY <1>1, <1>2, Sides DEF WebSocketInv
<1>4. ASSUME UNCHANGED got, conn[Other(s)] = "broken" \/ stage' = "ended"
      PROVE  WebSocketInv'
  <2>1. \A t \in Side : Came(t)'
    BY <1>1, <1>3, <1>4 DEF Came
  <2>2. ASSUME stage' = "relay", NEW t \in Side, conn'[Other(t)] # "broken" PROVE Flow(t)'
    <3>1. t # s /\ Flow(t)
      BY <1>1, <1>3, <1>4, <2>2
    <3> QED
      BY <1>1, <1>4, <3>1 DEF Flow, Unread, Ended
  <2> QED
    BY <1>1, <2>1, <2>2 DEF WebSocketInv
<1>5. ASSUME conn[Other(s)] # "broken", got' = [got EXCEPT ![Other(s)] = got[Other(s)] \o held[s]],
             UNCHANGED stage
      PROVE  WebSocketInv'
  <2> DEFINE n == Len(got[Other(s)])
  <2>1. n \in Nat /\ got[Other(s)] = First(n) /\ n \in 0..sent[s]
    BY <1>3, FirstFacts DEF Came
  <2>2. held[s] = <<n + 1>> /\ n + 1 <= sent[s] /\ Unread(s, n + 1)
    BY <1>1, <1>3, <1>5 DEF Flow
  <2>3. got'[Other(s)] = First(n + 1) /\ \A t \in Side : t # Other(s) => got'[t] = got[t]
    BY <1>3, <1>5, <2>1, <2>2, FirstGrows DEF TypeOK
  <2>4. Len(got'[Other(s)]) = n + 1 /\ n + 1 \in 0..sent[s]
    BY <2>1, <2>2, <2>3, FirstFacts, Types
  <2>5. Came(s)' /\ Flow(s)'
    BY <1>1, <2>2, <2>3, <2>4 DEF Came, Flow, Unread
  <2>6. ASSUME NEW t \in Side, t # s
        PROVE  Came(t)' /\ (conn'[Other(t)] # "broken" => Flow(t)')
    <3>1. got'[Other(t)] = got[Other(t)]
      BY <2>3, <2>6, Sides
    <3> QED
      BY <1>1, <1>3, <2>6, <3>1 DEF Came, Flow, Unread, Ended
  <2> QED
    BY <1>1, <1>5, <2>5, <2>6 DEF WebSocketInv
<1> QED
  BY <1>1, <1>2, <1>4, <1>5 DEF ForwardData, GrpcInv

\* The end that is held comes after everything its side sent, unless it broke.
LEMMA ForwardCloseStep ==
  ASSUME TypeOK, WebSocketInv, GrpcInv, NEW s \in Side, ForwardClose(s)
  PROVE  WebSocketInv' /\ GrpcInv'
<1>1. /\ stage = "relay" /\ held[s] = <<Close>> /\ stage' = "ended"
      /\ UNCHANGED <<kind, sent, conn>>
      /\ got' = IF conn[Other(s)] = "broken" THEN got
                ELSE [got EXCEPT ![Other(s)] = got[Other(s)] \o held[s]]
  BY DEF ForwardClose
<1>2. kind = "websocket"
  BY <1>1 DEF GrpcInv, TypeOK
<1>3. \A t \in Side : Other(t) \in Side /\ Came(t) /\ (conn[Other(t)] # "broken" => Flow(t))
  BY <1>1, <1>2, Sides DEF WebSocketInv
<1>4. ASSUME NEW t \in Side, t # s \/ conn[Other(s)] = "broken" PROVE Came(t)'
  <2>1. got'[Other(t)] = got[Other(t)]
    BY <1>1, <1>3, <1>4, Sides DEF TypeOK
  <2> QED
    BY <1>1, <1>3, <2>1 DEF Came
<1>5. ASSUME conn[Other(s)] # "broken" PROVE CameToEnd(s)'
  <2> DEFINE n == Len(got[Other(s)])
  <2>1. n \in Nat /\ got[Other(s)] = First(n) /\ n \in 0..sent[s]
    BY <1>3, FirstFacts DEF Came
  <2>2. Ended(s, n)
    <3>1. MaxSent \in Nat /\ sent[s] \in 0..MaxSent
      BY Types
    <3>2. held[s] # <<>> /\ (n + 1 <= sent[s] => held[s] # <<n + 1>>)
      BY <1>1, <2>1, <3>1 DEF Close
    <3> QED
      BY <1>3, <1>5, <3>2 DEF Flow
  <2>3. got'[Other(s)] = First(n) \o <<Close>>
    BY <1>1, <1>3, <1>5, <2>1 DEF TypeOK
  <2> QED
    BY <1>1, <2>1, <2>2, <2>3 DEF CameToEnd, Ended, EndsWith
<1> QED
  BY <1>1, <1>2, <1>4, <1>5 DEF WebSocketInv, GrpcInv

-----------------------------------------------------------------------------
(* Connecting, and a gRPC call.                                             *)

\* Steps of a gRPC call do not concern the relay, and the other way round.
LEMMA ConnectSteps ==
  ASSUME TypeOK, WebSocketInv, GrpcInv, Connect \/ ConnectFails
  PROVE  WebSocketInv' /\ GrpcInv'
<1>1. stage = "connect" /\ UNCHANGED <<kind, sent, conn, inbox, held>>
  BY DEF Connect, ConnectFails
<1>2. ASSUME kind = "websocket" PROVE UNCHANGED got /\ stage' \in {"relay", "ended"}
  BY <1>2 DEF Connect, ConnectFails, Fail
<1>3. WebSocketInv'
  <2> SUFFICES ASSUME kind = "websocket", NEW t \in Side
               PROVE  Came(t)' /\ (conn'[Other(t)] # "broken" => Flow(t)')
    BY <1>1, <1>2 DEF WebSocketInv
  <2>1. Came(t) /\ (conn[Other(t)] # "broken" => Flow(t))
    BY <1>1 DEF WebSocketInv
  <2> QED
    BY <1>1, <1>2, <2>1 DEF Came, Flow, Unread, Ended
<1>4. GrpcInv'
  <2> SUFFICES ASSUME kind = "grpc" PROVE GrpcInv'
    BY <1>1 DEF GrpcInv
  <2>1. CASE Connect
    <3>1. stage' = "body" /\ UNCHANGED got
      BY <2>1 DEF Connect
    <3> QED
      BY <1>1, <3>1 DEF GrpcInv, Unread
  <2>2. CASE ConnectFails
    <3>1. /\ stage' = "ended" /\ got' = [got EXCEPT !["client"] = <<Failure>>]
          /\ got'["client"] = <<Failure>> /\ got'["upstream"] = got["upstream"]
      BY <2>2 DEF ConnectFails, Fail, TypeOK, Side
    <3> QED
      BY <1>1, <3>1 DEF GrpcInv
  <2> QED
    BY <2>1, <2>2
<1> QED
  BY <1>3, <1>4

\* A call that fails or is dropped has shown the client nothing but the failure.
LEMMA GrpcEnds ==
  ASSUME TypeOK, GrpcInv, kind = "grpc", stage # "ended", stage' = "ended",
         UNCHANGED <<kind, sent, conn>>,
         got' = got \/ got' = [got EXCEPT !["client"] = <<Failure>>]
  PROVE  GrpcInv'
<1>1. /\ got'["client"] \in {<<>>, <<Failure>>} /\ got'["upstream"] = got["upstream"]
      /\ DOMAIN got = Side
  BY DEF GrpcInv, TypeOK, Side
<1>2. got["upstream"] = <<>> \/ Delivered("client")
  BY DEF GrpcInv, TypeOK
<1>3. Delivered("client") => Delivered("client")'
  BY <1>1 DEF Delivered, EndsWith, Other
<1> QED
  BY <1>1, <1>2, <1>3 DEF GrpcInv

\* The stages are those of gRPC calls only.
LEMMA GrpcOnly == ASSUME WebSocketInv, TypeOK, GrpcCall \/ DropCall PROVE kind = "grpc"
<1>1. kind = "grpc" \/ stage \in {"body", "head", "capacity", "response"}
  BY DEF GrpcCall, DropCall, ReadBody, SendHead, SendBody, SendFails, ReadResponse
<1>2. "client" \in Side
  BY DEF Side
<1> QED
  BY <1>1, <1>2 DEF WebSocketInv, TypeOK

LEMMA ReadBodyStep == ASSUME TypeOK, GrpcInv, kind = "grpc", ReadBody PROVE GrpcInv'
<1> DEFINE m == NextFrom("client")
<1>1. /\ stage = "body" /\ inbox["client"] # <<>> /\ inbox' = Taken("client")
      /\ UNCHANGED <<kind, sent, conn>> /\ "client" \in Side /\ "upstream" \in Side
      /\ inbox'["upstream"] = inbox["upstream"]
  BY DEF ReadBody, Taken, Side, TypeOK
<1>2. PICK n \in 0..sent["client"] : held["client"] = First(n) /\ Unread("client", n)
  BY <1>1 DEF GrpcInv
<1>3. n \in Nat /\ n <= sent["client"] /\ sent["client"] \in 0..MaxSent /\ MaxSent \in Nat
  BY <1>1, <1>2, Types
<1>4. \/ m = n + 1 /\ n + 1 <= sent["client"] /\ Unread("client", n + 1)'
      \/ m = Close /\ n = sent["client"] /\ conn["client"] # "open"
      \/ m = Broken /\ conn["client"] = "broken"
  BY <1>1, <1>2, UnreadHead
<1>5. /\ got["client"] = <<>> /\ got["upstream"] = <<>>
      /\ \E k \in 0..sent["upstream"] : held["upstream"] = First(k) /\ Unread("upstream", k)
  BY <1>1 DEF GrpcInv
<1>6. \A k : Unread("upstream", k) => Unread("upstream", k)'
  BY <1>1 DEF Unread
<1>7. CASE m = Close /\ stage' = "head" /\ UNCHANGED <<held, got>>
  <2>2. Whole("client")'
    BY <1>1, <1>2, <1>3, <1>4, <1>7 DEF Whole, Close, Broken
  <2> QED
    BY <1>1, <1>5, <1>6, <1>7, <2>2 DEF GrpcInv
<1>8. CASE Fail
  BY <1>1, <1>8, GrpcEnds DEF Fail
<1>9. CASE /\ m \in Data /\ held' = [held EXCEPT !["client"] = Append(held["client"], m)]
           /\ UNCHANGED <<stage, got>>
  <2>1. m # Close /\ m # Broken
    BY <1>3, <1>9 DEF Data, Close, Broken
  <2>2. /\ held'["client"] = First(n + 1) /\ held'["upstream"] = held["upstream"]
        /\ n + 1 \in 0..sent["client"] /\ Unread("client", n + 1)'
    <3>1. m = n + 1 /\ n + 1 <= sent["client"] /\ Unread("client", n + 1)'
      BY <1>4, <2>1
    <3>2. Append(held["client"], m) = First(n + 1)
      BY <1>2, <1>3, <3>1, FirstGrows
    <3>3. DOMAIN held = Side
      BY DEF TypeOK
    <3>4. n + 1 \in 0..sent["client"]
      BY <1>3, <3>1
    <3> QED
      BY <1>1, <1>9, <3>1, <3>2, <3>3, <3>4
  <2> QED
    BY <1>1, <1>5, <1>6, <1>9, <2>2 DEF GrpcInv
<1> QED
  BY <1>7, <1>8, <1>9 DEF ReadBody

LEMMA SendHeadStep == ASSUME TypeOK, GrpcInv, kind = "grpc", SendHead PROVE GrpcInv'
<1>1. /\ stage = "head" /\ UNCHANGED <<kind, sent, conn, inbox, held>>
      /\ "client" \in Side /\ "upstream" \in Side
  BY DEF SendHead, Side
<1>2. /\ Whole("client") /\ got["upstream"] = <<>> /\ got["client"] = <<>>
      /\ \E k \in 0..sent["upstream"] : held["upstream"] = First(k) /\ Unread("upstream", k)
  BY <1>1 DEF GrpcInv
<1>3. \A k : Unread("upstream", k) => Unread("upstream", k)'
  BY <1>1 DEF Unread
<1>4. CASE held["client"] = <<>>
  <2>1. stage' = "response" /\ got' = [got EXCEPT !["upstream"] = <<Close>>]
    BY <1>4 DEF SendHead
  <2>2. got'["upstream"] = <<Close>> /\ got'["client"] = <<>>
    BY <1>1, <1>2, <2>1 DEF TypeOK
  <2>3. sent["client"] = 0
    <3>1. sent["client"] \in Nat /\ First(sent["client"]) = <<>>
      BY <1>1, <1>2, <1>4, Types DEF Whole
    <3>2. Len(First(sent["client"])) = sent["client"]
      BY <3>1, FirstFacts
    <3> QED
      BY <3>1, <3>2
  <2>4. First(0) \o <<Close>> = <<Close>>
    <3>1. Append(First(0), Close) = First(0) \o <<Close>>
      BY EndAppended
    <3>2. Append(<<>>, Close) = <<Close>>
      OBVIOUS
    <3> QED
      BY <3>1, <3>2, FirstNone
  <2>5. Delivered("client")'
    BY <1>1, <1>2, <2>2, <2>3, <2>4 DEF Delivered, EndsWith, Whole, Other
  <2> QED
    BY <1>1, <1>2, <1>3, <2>1, <2>2, <2>5 DEF GrpcInv
<1>5. CASE held["client"] # <<>>
  <2>1. stage' = "capacity" /\ UNCHANGED got
    BY <1>5 DEF SendHead
  <2> QED
    BY <1>1, <1>2, <1>3, <2>1 DEF GrpcInv, Whole
<1> QED
  BY <1>4, <1>5

LEMMA SendBodyStep == ASSUME TypeOK, GrpcInv, kind = "grpc", SendBody PROVE GrpcInv'
<1>1. /\ stage = "capacity" /\ stage' = "response" /\ UNCHANGED <<kind, sent, conn, inbox>>
      /\ got' = [got EXCEPT !["upstream"] = Append(held["client"], Close)]
      /\ held' = [held EXCEPT !["client"] = <<>>]
      /\ "client" \in Side /\ "upstream" \in Side
  BY DEF SendBody, Side
<1>2. /\ Whole("client") /\ got["client"] = <<>>
      /\ \E k \in 0..sent["upstream"] : held["upstream"] = First(k) /\ Unread("upstream", k)
  BY <1>1 DEF GrpcInv
<1>3. \A k : Unread("upstream", k) => Unread("upstream", k)'
  BY <1>1 DEF Unread
<1>4. /\ got'["upstream"] = Append(held["client"], Close) /\ got'["client"] = <<>>
      /\ held'["upstream"] = held["upstream"]
  BY <1>1, <1>2 DEF TypeOK
<1>5. Delivered("client")'
  BY <1>1, <1>2, <1>4, EndAppended, Types DEF Delivered, EndsWith, Whole, Other
<1> QED
  BY <1>1, <1>2, <1>3, <1>4, <1>5 DEF GrpcInv

\* The answer is given on the end of the upstream's stream, after all of it.
LEMMA ReadResponseStep == ASSUME TypeOK, GrpcInv, kind = "grpc", ReadResponse PROVE GrpcInv'
<1> DEFINE m == NextFrom("upstream")
<1>1. /\ stage = "response" /\ inbox["upstream"] # <<>> /\ inbox' = Taken("upstream")
      /\ UNCHANGED <<kind, sent, conn>> /\ "client" \in Side /\ "upstream" \in Side
  BY DEF ReadResponse, Side
<1>2. PICK n \in 0..sent["upstream"] : held["upstream"] = First(n) /\ Unread("upstream", n)
  BY <1>1 DEF GrpcInv
<1>3. n \in Nat /\ n <= sent["upstream"] /\ sent["upstream"] \in 0..MaxSent /\ MaxSent \in Nat
  BY <1>1, <1>2, Types
<1>4. \/ m = n + 1 /\ n + 1 <= sent["upstream"] /\ Unread("upstream", n + 1)'
      \/ m = Close /\ n = sent["upstream"] /\ conn["upstream"] # "open"
      \/ m = Broken /\ conn["upstream"] = "broken"
  BY <1>1, <1>2, UnreadHead
<1>5. got["client"] = <<>> /\ Delivered("client")
  BY <1>1 DEF GrpcInv
<1>6. CASE /\ m = Close /\ stage' = "ended"
           /\ got' = [got EXCEPT !["client"] = Answer(held["upstream"])]
  <2>2. got'["client"] = Answer(held["upstream"]) /\ got'["upstream"] = got["upstream"]
    BY <1>1, <1>6 DEF TypeOK
  <2>3. n = sent["upstream"] /\ conn["upstream"] # "open"
    BY <1>3, <1>4, <1>6 DEF Close, Broken
  <2>4. Delivered("upstream")'
    BY <1>1, <1>2, <1>3, <2>2, <2>3, EndAppended DEF Delivered, EndsWith, Answer, Other
  <2>5. Delivered("client")'
    BY <1>1, <1>5, <2>2 DEF Delivered, EndsWith, Other
  <2> QED
    BY <1>1, <1>6, <2>4, <2>5 DEF GrpcInv
<1>7. CASE Fail
  BY <1>1, <1>7, GrpcEnds DEF Fail
<1>8. CASE /\ m \in Data /\ held' = [held EXCEPT !["upstream"] = Append(held["upstream"], m)]
           /\ UNCHANGED <<stage, got>>
  <2>1. m # Close /\ m # Broken
    BY <1>3, <1>8 DEF Data, Close, Broken
  <2>2. /\ held'["upstream"] = First(n + 1)
        /\ n + 1 \in 0..sent["upstream"] /\ Unread("upstream", n + 1)'
    <3>1. m = n + 1 /\ n + 1 <= sent["upstream"] /\ Unread("upstream", n + 1)'
      BY <1>4, <2>1
    <3>2. Append(held["upstream"], m) = First(n + 1)
      BY <1>2, <1>3, <3>1, FirstGrows
    <3>3. DOMAIN held = Side
      BY DEF TypeOK
    <3>4. n + 1 \in 0..sent["upstream"]
      BY <1>3, <3>1
    <3> QED
      BY <1>1, <1>8, <3>1, <3>2, <3>3, <3>4
  <2>3. Delivered("client")'
    BY <1>1, <1>5, <1>8 DEF Delivered, EndsWith
  <2> QED
    BY <1>1, <1>5, <1>8, <2>2, <2>3 DEF GrpcInv
<1> QED
  BY <1>6, <1>7, <1>8 DEF ReadResponse

LEMMA GrpcSteps ==
  ASSUME TypeOK, WebSocketInv, GrpcInv, GrpcCall \/ DropCall
  PROVE  WebSocketInv' /\ GrpcInv'
<1>1. kind = "grpc" /\ UNCHANGED kind
  BY GrpcOnly DEF GrpcCall, DropCall, ReadBody, SendHead, SendBody, SendFails, ReadResponse
<1>2. WebSocketInv'
  BY <1>1 DEF WebSocketInv
<1>3. ASSUME SendFails PROVE GrpcInv'
  BY <1>1, <1>3, GrpcEnds DEF SendFails, Fail
<1>4. ASSUME DropCall PROVE GrpcInv'
  BY <1>1, <1>4, GrpcEnds DEF DropCall
<1> QED
  BY <1>1, <1>2, <1>3, <1>4, ReadBodyStep, SendHeadStep, SendBodyStep, ReadResponseStep DEF GrpcCall

-----------------------------------------------------------------------------
(* Types.                                                                   *)

LEMMA TypeStep == ASSUME TypeOK, [Next]_vars PROVE TypeOK'
<1> DEFINE In == Data \cup {Close, Broken}
           Kept == Data \cup {Close}
           Out == Data \cup {Close, Failure}
<1>1. CASE UNCHANGED vars
  BY <1>1 DEF vars, TypeOK
<1>2. ASSUME NEW s \in Side, SideSends(s) \/ SideCloses(s) \/ SideBreaks(s) PROVE TypeOK'
  <2>1. inbox[s] \in Seq(In) /\ sent[s] \in 0..MaxSent /\ MaxSent \in Nat
    BY Types
  <2>2. CASE SideSends(s)
    <3>1. sent[s] + 1 \in 0..MaxSent /\ sent[s] + 1 \in Data
      BY <2>1, <2>2 DEF SideSends, Data
    <3>2. Append(inbox[s], sent[s] + 1) \in Seq(In)
      BY <2>1, <3>1
    <3> QED
      BY <2>2, <3>1, <3>2 DEF SideSends, TypeOK
  <2>3. CASE SideCloses(s)
    <3>1. Append(inbox[s], Close) \in Seq(In)
      BY <2>1
    <3> QED
      BY <2>3, <3>1 DEF SideCloses, TypeOK
  <2>4. CASE SideBreaks(s)
    <3>1. \A i \in 0..Len(inbox[s]) : Append(SubSeq(inbox[s], 1, i), Broken) \in Seq(In)
      <4> TAKE i \in 0..Len(inbox[s])
      <4>1. SubSeq(inbox[s], 1, i) \in Seq(In)
        BY <2>1
      <4> QED
        BY <4>1
    <3> QED
      BY <2>4, <3>1 DEF SideBreaks, TypeOK
  <2> QED
    BY <1>2, <2>2, <2>3, <2>4
<1>3. <<Failure>> \in Seq(Out) /\ <<Close>> \in Seq(Out) /\ <<>> \in Seq(Kept)
  OBVIOUS
<1>4. Fail /\ TypeOK => got' \in [Side -> Seq(Out)] /\ stage' = "ended"
  BY <1>3 DEF Fail, TypeOK
<1>5. ASSUME Connect \/ ConnectFails \/ SendFails \/ DropCall PROVE TypeOK'
  BY <1>4, <1>5 DEF Connect, ConnectFails, SendFails, DropCall, TypeOK
<1>6. \A s \in Side : inbox[s] # <<>> =>
        /\ Taken(s) \in [Side -> Seq(In)]
        /\ NextFrom(s) \in In
  BY Types DEF Taken, NextFrom, TypeOK
<1>7. ASSUME NEW s \in Side, Relay(s) PROVE TypeOK'
  <2>1. Other(s) \in Side /\ held[s] \in Seq(Kept) /\ got[Other(s)] \in Seq(Out)
    BY Sides, Types DEF TypeOK
  <2>2. got[Other(s)] \o held[s] \in Seq(Out)
    <3>1. held[s] \in Seq(Out)
      BY <2>1
    <3> QED
      BY <2>1, <3>1
  <2>3. CASE ReadSide(s)
    <3>1. <<Passed(NextFrom(s))>> \in Seq(Kept)
      <4>1. Passed(NextFrom(s)) \in Kept
        BY <1>6, <2>3 DEF ReadSide, Passed
      <4> QED
        BY <4>1
    <3> QED
      BY <1>6, <2>3, <3>1 DEF ReadSide, TypeOK
  <2>4. CASE ForwardData(s)
    BY <1>3, <2>2, <2>4 DEF ForwardData, TypeOK
  <2>5. CASE ForwardClose(s)
    BY <1>3, <2>2, <2>5 DEF ForwardClose, TypeOK
  <2> QED
    BY <1>7, <2>3, <2>4, <2>5 DEF Relay
<1>8. "client" \in Side /\ "upstream" \in Side
  BY DEF Side
<1>9. \A s \in Side, m \in Data : Append(held[s], m) \in Seq(Kept)
  BY Types
<1>10. \A s \in Side : Append(held[s], Close) \in Seq(Out)
  <2> TAKE s \in Side
  <2>1. held[s] \in Seq(Out)
    BY Types
  <2> QED
    BY <2>1
<1>11. ASSUME ReadBody \/ ReadResponse PROVE TypeOK'
  <2>1. inbox' \in [Side -> Seq(In)] /\ UNCHANGED <<kind, sent, conn>>
    BY <1>6, <1>8, <1>11 DEF ReadBody, ReadResponse
  <2>2. CASE ReadBody
    BY <1>4, <1>8, <1>9, <2>1, <2>2 DEF ReadBody, TypeOK
  <2>3. CASE ReadResponse
    BY <1>4, <1>8, <1>9, <1>10, <2>1, <2>3 DEF ReadResponse, Answer, TypeOK
  <2> QED
    BY <1>11, <2>2, <2>3
<1>12. ASSUME SendHead \/ SendBody PROVE TypeOK'
  <2>1. /\ UNCHANGED <<kind, sent, conn, inbox>>
        /\ stage' \in {"response", "capacity"}
    BY <1>12 DEF SendHead, SendBody
  <2>2. held' \in [Side -> Seq(Kept)]
    BY <1>3, <1>12 DEF SendHead, SendBody, TypeOK
  <2>3. got' \in [Side -> Seq(Out)]
    <3>1. SendHead => got' = got \/ got' = [got EXCEPT !["upstream"] = <<Close>>]
      BY DEF SendHead
    <3>2. SendBody => got' = [got EXCEPT !["upstream"] = Append(held["client"], Close)]
      BY DEF SendBody
    <3>3. Append(held["client"], Close) \in Seq(Out)
      BY <1>8, <1>10
    <3>4. got \in [Side -> Seq(Out)]
      BY DEF TypeOK
    <3> QED
      BY <1>3, <1>12, <3>1, <3>2, <3>3, <3>4
  <2> QED
    BY <2>1, <2>2, <2>3 DEF TypeOK
<1> QED
  BY <1>1, <1>2, <1>5, <1>7, <1>11, <1>12 DEF Next, GrpcCall

-----------------------------------------------------------------------------
(* Theorems.                                                                *)

LEMMA InitIInv == Init => IInv
<1> SUFFICES ASSUME Init PROVE IInv
  OBVIOUS
<1> USE BoundsOK DEF BoundsOK
<1>1. TypeOK
  BY DEF Init, TypeOK, Side
<1>2. \A s \in Side : Unread(s, 0) /\ got[Other(s)] = First(0) /\ 0 \in 0..sent[s] /\ held[s] = First(0)
  BY Sides, FirstNone DEF Init, Unread
<1>3. WebSocketInv
  <2>1. \A s \in Side : Len(got[Other(s)]) = 0 /\ held[s] = <<>>
    BY <1>2, FirstNone
  <2> QED
    BY <1>2, <2>1 DEF Init, WebSocketInv, Came, Flow
<1>4. GrpcInv
  BY <1>2 DEF Init, GrpcInv, Side
<1> QED
  BY <1>1, <1>3, <1>4 DEF IInv

\* Whatever the sides send, and wherever they end or break, IInv is kept.
THEOREM Invariance == Spec => []IInv
<1>1. IInv /\ [Next]_vars => IInv'
  <2> SUFFICES ASSUME TypeOK, WebSocketInv, GrpcInv, [Next]_vars
               PROVE  TypeOK' /\ WebSocketInv' /\ GrpcInv'
    BY DEF IInv
  <2>1. TypeOK'
    BY TypeStep
  <2>2. CASE UNCHANGED vars
    <3>1. Spoke
      BY <2>2, Types DEF vars, Spoke, Ended, Unread
    <3> QED
      BY <2>1, <3>1, SpokeKeeps
  <2>3. ASSUME NEW s \in Side, SideSends(s) \/ SideCloses(s) \/ SideBreaks(s)
        PROVE  WebSocketInv' /\ GrpcInv'
    BY <2>3, SendsSpoke, ClosesSpoke, BreaksSpoke, SpokeKeeps
  <2>4. ASSUME NEW s \in Side, Relay(s) PROVE WebSocketInv' /\ GrpcInv'
    BY <2>4, ReadSideStep, ForwardDataStep, ForwardCloseStep DEF Relay
  <2>5. Next \/ UNCHANGED vars
    OBVIOUS
  <2> QED
    BY <2>1, <2>2, <2>3, <2>4, <2>5, ConnectSteps, GrpcSteps DEF Next
<1> QED
  BY <1>1, InitIInv, PTL DEF Spec

\* What has come to a side, in both kinds of exchange.
LEMMA CameSomehow ==
  ASSUME IInv, NEW s \in Side
  PROVE  \/ Came(s)
         \/ \E n \in 0..sent[s] : Ended(s, n) /\ EndsWith(Other(s), n)
         \/ got[Other(s)] = <<Failure>>
<1>1. sent[s] \in Nat /\ conn[s] \in {"open", "closed", "broken"} /\ 0 \in 0..sent[s]
  BY Types DEF IInv
<1>2. kind \in {"websocket", "grpc"} /\ got \in [Side -> Seq(Data \cup {Close, Failure})]
  BY DEF IInv, TypeOK
<1>3. got[Other(s)] = <<>> => Came(s)
  BY <1>1, FirstNone DEF Came
<1>4. Delivered(s) => \E n \in 0..sent[s] : Ended(s, n) /\ EndsWith(Other(s), n)
  BY <1>1 DEF Delivered, Ended
<1>5. CASE kind = "websocket"
  BY <1>5 DEF IInv, WebSocketInv, CameToEnd, TypeOK
<1>6. CASE kind = "grpc"
  <2>1. \/ got["client"] \in {<<>>, <<Failure>>}
        \/ Delivered("upstream")
    BY <1>6 DEF IInv, GrpcInv, TypeOK
  <2>2. got["upstream"] = <<>> \/ Delivered("client")
    BY <1>6 DEF IInv, GrpcInv, TypeOK
  <2> QED
    BY <1>3, <1>4, <2>1, <2>2 DEF Side, Other
<1> QED
  BY <1>2, <1>5, <1>6

\* Messages arrive in order, without a gap and without repetition, in both
\* directions of a relay and of a gRPC call, however many there are.
THEOREM ArrivesInOrder == Spec => []InOrder
<1>1. IInv => InOrder
  <2> SUFFICES ASSUME IInv, NEW s \in Side
               PROVE  \E n \in 0..sent[Other(s)], last \in {<<>>, <<Close>>, <<Failure>>} :
                        got[s] = First(n) \o last
    BY DEF InOrder
  <2>1. Other(s) \in Side /\ Other(Other(s)) = s /\ sent[Other(s)] \in Nat
    BY Sides, Types DEF IInv
  <2>2. CASE Came(Other(s))
    <3>1. PICK n \in 0..sent[Other(s)] : got[s] = First(n)
      BY <2>1, <2>2 DEF Came
    <3>2. First(n) \o <<>> = First(n)
      BY <2>1, FirstFacts
    <3> QED
      BY <3>1, <3>2
  <2>3. CASE \E n \in 0..sent[Other(s)] : EndsWith(s, n)
    BY <2>3 DEF EndsWith
  <2>4. CASE got[s] = <<Failure>>
    <3>1. First(0) \o <<Failure>> = <<Failure>> /\ 0 \in 0..sent[Other(s)]
      <4>1. <<>> \o <<Failure>> = <<Failure>>
        OBVIOUS
      <4>2. First(0) \o <<Failure>> = <<>> \o <<Failure>>
        BY FirstNone, Zenon
      <4>3. 0 \in 0..sent[Other(s)]
        BY <2>1
      <4> QED
        BY <4>1, <4>2, <4>3, Zenon
    <3> QED
      BY <2>4, <3>1
  <2> QED
    BY <2>1, <2>2, <2>3, <2>4, CameSomehow
<1> QED
  BY <1>1, Invariance, PTL

\* Nobody is told that the other side is done before it is, or, unless the
\* other side's connection broke, before all it sent has arrived.
THEOREM EndsAreComplete == Spec => []EndIsComplete
<1>1. IInv => EndIsComplete
  <2> SUFFICES ASSUME IInv, NEW s \in Side, NEW n \in 0..MaxSent, EndsWith(s, n)
               PROVE  \/ conn[Other(s)] = "broken"
                      \/ conn[Other(s)] = "closed" /\ n = sent[Other(s)]
    BY DEF EndIsComplete
  <2>1. /\ Other(s) \in Side /\ Other(Other(s)) = s
        /\ sent[Other(s)] \in 0..MaxSent /\ MaxSent \in Nat /\ n \in Nat
    BY Sides, Types DEF IInv
  <2>2. ~Came(Other(s))
    <3> SUFFICES ASSUME NEW k \in 0..sent[Other(s)], got[s] = First(k) PROVE FALSE
      BY <2>1 DEF Came
    <3>1. k \in 0..MaxSent
      BY <2>1
    <3>2. First(k) = First(n) \o <<Close>>
      BY DEF EndsWith
    <3> QED
      BY <3>1, <3>2, EndIsNotFirst
  <2>3. got[s] # <<Failure>>
    BY EndIsNotFailure DEF EndsWith
  <2>4. PICK k \in 0..sent[Other(s)] : Ended(Other(s), k) /\ EndsWith(s, k)
    BY <2>1, <2>2, <2>3, CameSomehow
  <2>5. k = n
    <3>1. First(k) \o <<Close>> = First(n) \o <<Close>>
      BY <2>4 DEF EndsWith
    <3>2. k \in Nat
      BY <2>1
    <3> QED
      BY <2>1, <3>1, <3>2, EndsOnce
  <2> QED
    BY <2>4, <2>5 DEF Ended
<1> QED
  BY <1>1, Invariance, PTL

\* A gRPC client gets the whole answer of an upstream that got the whole
\* request, or an error: never a part of an answer as if it were all.
THEOREM GrpcAnswersAreWhole == Spec => []AnswersAreWhole
<1>1. IInv => AnswersAreWhole
  BY DEF IInv, TypeOK, GrpcInv, AnswersAreWhole, Delivered, Other
<1> QED
  BY <1>1, Invariance, PTL
=============================================================================
