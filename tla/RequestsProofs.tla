--------------------------- MODULE RequestsProofs ---------------------------
(***************************************************************************)
(* Proofs about Requests.  The invariant IInv follows what a handler set   *)
(* through the copies that other requests take and write back, and ties    *)
(* every access to the collections that were public while it was possible. *)
(***************************************************************************)
EXTENDS Requests, TLAPS

-----------------------------------------------------------------------------
(* Lemmas.                                                                  *)

LEMMA InitIInv == Init => IInv
<1> SUFFICES ASSUME Init PROVE IInv
  OBVIOUS
<1>1. TypeOK
  BY ConstantsOK DEF Init, TypeOK, Content, Version, Route, ConstantsOK, InFlight, Ended
<1>2. \A r \in Request :
        /\ at[r] = "client" /\ cols[r] = {} /\ todo[r] = {} /\ cleared[r] = {}
        /\ changed[r] = {} /\ answer[r] = "none"
        /\ copy[r] = [d \in Document |-> NoDoc]
  BY DEF Init
<1>3. FreshInv
  BY <1>2 DEF FreshInv
<1>4. OpenedInv
  BY <1>2 DEF OpenedInv, InFlight
<1>5. SaveInv
  BY <1>2 DEF SaveInv
<1>6. CopyInv /\ PrivateStaysPrivate
  BY <1>2, ConstantsOK DEF CopyInv, PrivateStaysPrivate, ConstantsOK, Content
<1>7. OnlyHandlersWrite
  <2>1. \A d \in Document : docs[d] = 0 \/ docs[d] = NoDoc
    BY DEF Init
  <2>2. 0 \notin Request /\ NoDoc \notin Request
    BY ConstantsOK DEF ConstantsOK, Content, Version
  <2> QED
    BY <2>1, <2>2 DEF OnlyHandlersWrite
<1>8. KeptInv
  BY DEF Init, KeptInv
<1> QED
  BY <1>1, <1>3, <1>4, <1>5, <1>6, <1>7, <1>8 DEF IInv

\* Requests that have not run their handler made nothing that is stored or copied.
LEMMA NothingMade ==
  ASSUME IInv, NEW r \in Request, at[r] \in {"client", "body", "loading", "upstream"}
  PROVE  /\ \A d \in Document : docs[d] # r
         /\ \A q \in Request, d \in Document : copy[q][d] # r
<1>1. changed[r] = {}
  BY DEF IInv, FreshInv
<1> QED
  BY <1>1 DEF IInv, OnlyHandlersWrite, CopyInv

\* What requests may touch only grows with their history of public collections.
LEMMA TouchGrows ==
  ASSUME NEW r, NEW d, opened[r] \subseteq opened'[r], MayTouch(r, d)
  PROVE  MayTouch(r, d)'
BY DEF MayTouch, NsOf

\* Four conjuncts speak of contents and histories alone.
LEMMA ContentFrame ==
  ASSUME IInv, UNCHANGED <<docs, logged, copy, history>>
  PROVE  CopyInv' /\ PrivateStaysPrivate' /\ OnlyHandlersWrite' /\ KeptInv'
BY DEF IInv, KeptInv, CopyInv, PrivateStaysPrivate, OnlyHandlersWrite, MayTouch, NsOf, history

-----------------------------------------------------------------------------
(* The steps of a request.                                                  *)

LEMMA ArriveStep ==
  ASSUME IInv, NEW r \in Request, Arrive(r)
  PROVE  IInv'
<1> USE DEF Arrive, Moves, Answers, shared
<1>1. TypeOK'
  <2>1. route[HostOf[r]] \in Route
    BY ConstantsOK DEF IInv, TypeOK, ConstantsOK
  <2>2. Public \subseteq Collection
    BY DEF Public
  <2> QED
    BY <2>1, <2>2 DEF IInv, TypeOK, Ended, InFlight
<1>2. /\ at[r] = "client" /\ cols[r] = {} /\ cleared[r] = {}
      /\ copy[r] = [d \in Document |-> NoDoc]
      /\ answer[r] # "handler" /\ changed[r] = {}
  BY DEF IInv, FreshInv, OpenedInv, SaveInv
<1>3. \A q \in Request : q # r => at'[q] = at[q] /\ answer'[q] = answer[q] /\ opened'[q] = opened[q]
  BY DEF IInv, TypeOK
<1>4. opened'[r] = Public /\ at'[r] \in {"body", "answered"} /\ answer'[r] \in {answer[r], "error"}
  BY DEF IInv, TypeOK
<1>5. FreshInv'
  BY <1>2, <1>3, <1>4 DEF IInv, FreshInv
<1>6. OpenedInv'
  <2> SUFFICES ASSUME NEW q \in Request
               PROVE  /\ at'[q] \in InFlight => Public' \subseteq opened'[q]
                      /\ \A c \in cols'[q] : OwnerOf[c] = HostOf[q] \/ c \in opened'[q]
                      /\ \A d \in cleared'[q] : MayTouch(q, d)' /\ copy'[q][d] # NoDoc
                      /\ cols'[q] # {} => at'[q] = "loading"
                      /\ cleared'[q] # {} => at'[q] = "saving"
    BY DEF OpenedInv
  <2>1. CASE q = r
    BY <2>1, <1>2, <1>4 DEF Public
  <2>2. CASE q # r
    BY <2>2, <1>3 DEF IInv, OpenedInv, Public, MayTouch, NsOf
  <2> QED
    BY <2>1, <2>2
<1>7. CopyInv'
  BY <1>2, <1>3, NothingMade DEF IInv, CopyInv, MayTouch, NsOf
<1>8. SaveInv'
  BY <1>2, <1>3, <1>4 DEF IInv, SaveInv, NsOf
<1>9. PrivateStaysPrivate'
  BY <1>2, <1>3 DEF IInv, PrivateStaysPrivate, MayTouch, NsOf
<1>10. OnlyHandlersWrite'
  BY <1>2, <1>3, NothingMade DEF IInv, OnlyHandlersWrite, MayTouch, NsOf
<1>11. KeptInv'
  BY DEF IInv, KeptInv
<1> QED
  BY <1>1, <1>5, <1>6, <1>7, <1>8, <1>9, <1>10, <1>11 DEF IInv

\* Steps that move a request on and touch neither documents nor histories.
LEMMA MoveStep ==
  ASSUME IInv, NEW r \in Request,
         \/ RunNothing(r) \/ RunModifier(r) \/ HandlerFails(r)
         \/ UpstreamAnswers(r) \/ UpstreamFails(r) \/ AnswerHandled(r) \/ ClientGone(r)
  PROVE  IInv'
<1> USE DEF RunNothing, RunModifier, HandlerFails, UpstreamAnswers, UpstreamFails, AnswerHandled,
            ClientGone, Moves, Answers, shared, Loaded, Saved
<1>1. UNCHANGED <<docs, logged, visibility, cols, copy, todo, cleared, history>>
  OBVIOUS
<1>2. TypeOK'
  <2>1. \E to \in Ended \cup {"upstream"} : at' = [at EXCEPT ![r] = to]
    BY DEF Ended
  <2>2. \/ answer' = answer
        \/ \E what \in {"error", "upstream", "handler"} : answer' = [answer EXCEPT ![r] = what]
    OBVIOUS
  <2>3. UNCHANGED <<route, code, changes, found>>
    OBVIOUS
  <2> QED
    BY <2>1, <2>2, <2>3, <1>1 DEF IInv, TypeOK, Ended, InFlight, history
<1>3. \A q \in Request : q # r => at'[q] = at[q] /\ answer'[q] = answer[q]
  BY DEF IInv, TypeOK
<1>4. at[r] \in InFlight \ {"client"} /\ answer[r] # "handler"
  BY DEF IInv, SaveInv, InFlight
<1>5. /\ cols[r] = {} /\ cleared[r] = {}
      /\ at'[r] \in {"upstream", "answered", "gone"}
      /\ at[r] = "saving" => at'[r] = "answered"
      /\ answer'[r] = "handler" => at[r] = "saving" /\ at'[r] = "answered" /\ todo[r] = {}
  BY <1>4 DEF IInv, OpenedInv, TypeOK, InFlight
<1>6. FreshInv'
  BY <1>1, <1>3, <1>4, <1>5 DEF IInv, FreshInv, history, InFlight
<1>7. OpenedInv'
  <2>1. Public' = Public
    BY <1>1 DEF Public
  <2> QED
    BY <2>1, <1>1, <1>3, <1>4, <1>5 DEF IInv, OpenedInv, MayTouch, NsOf, history, InFlight
<1>8. SaveInv'
  BY <1>1, <1>3, <1>4, <1>5 DEF IInv, SaveInv, NsOf, history
<1> QED
  BY <1>1, <1>2, <1>6, <1>7, <1>8, ContentFrame DEF IInv

\* Listing takes collections that are public now or the request's own.
LEMMA ListStep ==
  ASSUME IInv, NEW r \in Request, ListCollections(r)
  PROVE  IInv'
<1> USE DEF ListCollections, Moves, shared
<1>1. PICK listed \in SUBSET Accessible(HostOf[r]) : cols' = [cols EXCEPT ![r] = listed]
  OBVIOUS
<1>2. TypeOK'
  BY <1>1 DEF IInv, TypeOK, Accessible, Public, Ended, InFlight, history
<1>3. \A q \in Request : q # r => at'[q] = at[q] /\ cols'[q] = cols[q]
  BY <1>1 DEF IInv, TypeOK
<1>4. at[r] = "body" /\ at'[r] = "loading" /\ cols'[r] = listed
  BY <1>1 DEF IInv, TypeOK
<1>5. FreshInv'
  BY <1>3, <1>4 DEF IInv, FreshInv, history
<1>6. OpenedInv'
  <2>1. Public' = Public /\ Public \subseteq opened[r] /\ cleared[r] = {}
    BY <1>4 DEF Public, IInv, OpenedInv, InFlight
  <2>2. \A c \in listed : OwnerOf[c] = HostOf[r] \/ c \in opened[r]
    BY <2>1 DEF Accessible
  <2> QED
    BY <2>1, <2>2, <1>3, <1>4 DEF IInv, OpenedInv, MayTouch, NsOf, history
<1>7. SaveInv'
  BY <1>3, <1>4 DEF IInv, SaveInv, NsOf, history
<1> QED
  BY <1>2, <1>5, <1>6, <1>7, ContentFrame DEF IInv

\* Loading copies what is stored, from collections the request may see.
LEMMA LoadStep ==
  ASSUME IInv, NEW r \in Request, LoadCollection(r)
  PROVE  IInv'
<1> USE DEF LoadCollection, shared, history
<1>1. PICK c \in cols[r] :
        /\ cols' = [cols EXCEPT ![r] = @ \ {c}]
        /\ \/ copy' = [copy EXCEPT ![r] =
                         [d \in Document |-> IF CollectionOf[d] = c THEN docs[d] ELSE @[d]]]
           \/ copy' = copy
  OBVIOUS
<1>2. TypeOK'
  <2>1. cols' \in [Request -> SUBSET Collection]
    BY <1>1 DEF IInv, TypeOK
  <2>2. copy' \in [Request -> [Document -> Content \cup {NoDoc}]]
    <3>1. CASE copy' = copy
      BY <3>1 DEF IInv, TypeOK
    <3>2. CASE copy' = [copy EXCEPT ![r] =
                 [d \in Document |-> IF CollectionOf[d] = c THEN docs[d] ELSE @[d]]]
      <4>1. [d \in Document |-> IF CollectionOf[d] = c THEN docs[d] ELSE copy[r][d]]
              \in [Document -> Content \cup {NoDoc}]
        BY DEF IInv, TypeOK
      <4>2. copy \in [Request -> [Document -> Content \cup {NoDoc}]]
        BY DEF IInv, TypeOK
      <4> QED
        BY <3>2, <4>1, <4>2
    <3> QED
      BY <1>1, <3>1, <3>2
  <2> QED
    BY <2>1, <2>2 DEF IInv, TypeOK
<1>3. at[r] = "loading" /\ cols'[r] = cols[r] \ {c}
  BY <1>1 DEF IInv, TypeOK
<1>4. \A q \in Request : q # r => copy'[q] = copy[q] /\ cols'[q] = cols[q]
  BY <1>1 DEF IInv, TypeOK
<1>5. \A d \in Document :
        \/ copy'[r][d] = copy[r][d]
        \/ copy'[r][d] = docs[d] /\ MayTouch(r, d)
  <2>1. OwnerOf[c] = HostOf[r] \/ c \in opened[r]
    BY DEF IInv, OpenedInv
  <2> QED
    BY <1>1, <2>1 DEF IInv, TypeOK, MayTouch, NsOf
<1>6. FreshInv'
  BY <1>3, <1>4 DEF IInv, FreshInv
<1>7. OpenedInv'
  <2>1. Public' = Public /\ cleared[r] = {}
    BY <1>3 DEF Public, IInv, OpenedInv
  <2>2. \A q \in Request : cols'[q] \subseteq cols[q] /\ (cleared[q] # {} => copy'[q] = copy[q])
    BY <2>1, <1>3, <1>4
  <2> QED
    BY <2>1, <2>2 DEF IInv, OpenedInv, MayTouch, NsOf
<1>8. CopyInv'
  BY <1>4, <1>5 DEF IInv, CopyInv, OnlyHandlersWrite, MayTouch, NsOf
<1>9. SaveInv'
  BY <1>3, <1>4 DEF IInv, SaveInv, Held, NsOf
<1>10. PrivateStaysPrivate'
  BY <1>4, <1>5 DEF IInv, PrivateStaysPrivate, MayTouch, NsOf
<1>11. OnlyHandlersWrite'
  BY DEF IInv, OnlyHandlersWrite, MayTouch, NsOf
<1>12. KeptInv'
  BY DEF IInv, KeptInv
<1> QED
  BY <1>2, <1>6, <1>7, <1>8, <1>9, <1>10, <1>11, <1>12 DEF IInv

\* A handler leaves in its copy what it set and what the copy had.
LEMMA HandlerStep ==
  ASSUME IInv, NEW r \in Request, RunHandler(r)
  PROVE  IInv'
<1> USE DEF RunHandler, Loaded, Moves, shared, history
<1>0. PICK set \in SUBSET Document : \E deleted \in SUBSET (Held(copy[r]) \ set) :
        /\ copy' = [copy EXCEPT ![r] = Edited(r, set, deleted)]
        /\ todo' = [todo EXCEPT ![r] = Held(Edited(r, set, deleted))]
        /\ changed' = [changed EXCEPT ![r] = set]
  OBVIOUS
<1>1. PICK deleted \in SUBSET (Held(copy[r]) \ set) :
        /\ copy' = [copy EXCEPT ![r] = Edited(r, set, deleted)]
        /\ todo' = [todo EXCEPT ![r] = Held(Edited(r, set, deleted))]
        /\ changed' = [changed EXCEPT ![r] = set]
  BY <1>0
<1> DEFINE edited == Edited(r, set, deleted)
<1>2. edited \in [Document -> Content \cup {NoDoc}]
  BY DEF IInv, TypeOK, Content, Edited
<1>3. copy \in [Request -> [Document -> Content \cup {NoDoc}]]
  BY DEF IInv, TypeOK
<1>4. \A d \in Document :
        \/ edited[d] = r /\ d \in set
        \/ edited[d] \in {NoDoc, copy[r][d]} /\ d \notin set
  BY DEF Edited
<1>5. \A d \in set : edited[d] = r /\ r # NoDoc
  BY ConstantsOK DEF ConstantsOK, Content, Edited
<1> HIDE DEF edited
<1>6. /\ copy' = [copy EXCEPT ![r] = edited] /\ todo' = [todo EXCEPT ![r] = Held(edited)]
      /\ changed' = [changed EXCEPT ![r] = set]
  BY <1>1 DEF edited
<1>7. TypeOK'
  <2>1. copy' \in [Request -> [Document -> Content \cup {NoDoc}]]
    BY <1>2, <1>3, <1>6
  <2>2. todo' \in [Request -> SUBSET Document] /\ changed' \in [Request -> SUBSET Document]
    BY <1>6 DEF IInv, TypeOK, Held
  <2> QED
    BY <2>1, <2>2 DEF IInv, TypeOK, InFlight
<1>8. /\ at[r] = "loading" /\ at'[r] = "saving" /\ cleared[r] = {} /\ cols[r] = {}
      /\ changed'[r] = set /\ todo'[r] = Held(edited) /\ copy'[r] = edited
      /\ answer[r] # "handler"
  BY <1>3, <1>6 DEF IInv, TypeOK, OpenedInv, SaveInv
<1>9. \A q \in Request : q # r => /\ at'[q] = at[q] /\ changed'[q] = changed[q]
                                  /\ todo'[q] = todo[q] /\ copy'[q] = copy[q]
  BY <1>3, <1>6 DEF IInv, TypeOK
<1>10. \A q \in Request, d \in Document : copy[q][d] # r /\ docs[d] # r
  BY <1>8, NothingMade
<1>11. FreshInv'
  BY <1>8, <1>9 DEF IInv, FreshInv
<1>12. OpenedInv'
  BY <1>8, <1>9 DEF IInv, OpenedInv, MayTouch, NsOf, Public, InFlight
<1>13. CopyInv'
  <2> SUFFICES ASSUME NEW q \in Request, NEW d \in Document, copy'[q][d] \in Request
               PROVE  (/\ d \in changed[copy[q][d]]
                       /\ copy[q][d] # q => MayTouch(copy[q][d], d))'
    BY DEF CopyInv
  <2>1. CASE q = r /\ d \in set
    BY <2>1, <1>5, <1>8
  <2>2. CASE ~(q = r /\ d \in set)
    <3>1. copy'[q][d] = copy[q][d]
      BY <2>2, <1>4, <1>8, <1>9, ConstantsOK DEF ConstantsOK, Content
    <3>2. copy[q][d] # r
      BY <1>10
    <3> QED
      BY <3>1, <3>2, <1>9 DEF IInv, CopyInv, MayTouch, NsOf
  <2> QED
    BY <2>1, <2>2
<1>14. SaveInv'
  <2>1. set \subseteq Held(edited)
    BY <1>5, <1>1 DEF Held
  <2> QED
    BY <2>1, <1>8, <1>9 DEF IInv, SaveInv, NsOf
<1>15. PrivateStaysPrivate'
  <2> SUFFICES ASSUME NEW q \in Request, NEW d \in Document, copy'[q][d] \notin {NoDoc, q}
               PROVE  MayTouch(q, d)'
    BY DEF PrivateStaysPrivate
  <2>1. copy'[q][d] = copy[q][d]
    BY <1>4, <1>8, <1>9
  <2> QED
    BY <2>1 DEF IInv, PrivateStaysPrivate, MayTouch, NsOf
<1>16. OnlyHandlersWrite'
  BY <1>9, <1>10 DEF IInv, OnlyHandlersWrite, MayTouch, NsOf
<1>17. KeptInv'
  BY DEF IInv, KeptInv
<1> QED
  BY <1>7, <1>11, <1>12, <1>13, <1>14, <1>15, <1>16, <1>17 DEF IInv

\* A document is cleared only in the own namespace or a public collection, and
\* in the own namespace always, unless the store fails.
LEMMA CheckStep ==
  ASSUME IInv, NEW r \in Request, CheckDocument(r)
  PROVE  IInv'
<1> USE DEF CheckDocument, shared, history
<1>0. PICK d \in todo[r] : \E may \in MayWrite(r, d) :
        /\ todo' = [todo EXCEPT ![r] = @ \ {d}]
        /\ cleared' = [cleared EXCEPT ![r] = IF may THEN {d} ELSE {}]
  OBVIOUS
<1>1. PICK may \in MayWrite(r, d) :
        /\ todo' = [todo EXCEPT ![r] = @ \ {d}]
        /\ cleared' = [cleared EXCEPT ![r] = IF may THEN {d} ELSE {}]
  BY <1>0
<1>2. d \in Document
  BY DEF IInv, TypeOK
<1>3. /\ may => NsOf(d) = HostOf[r] \/ CollectionOf[d] \in Public
      /\ NsOf(d) = HostOf[r] => may
  BY DEF MayWrite
<1>4. TypeOK'
  BY <1>1, <1>2 DEF IInv, TypeOK
<1>5. /\ at[r] = "saving" /\ cleared[r] = {} /\ todo'[r] = todo[r] \ {d}
      /\ cleared'[r] = IF may THEN {d} ELSE {}
  BY <1>1 DEF IInv, TypeOK
<1>6. \A q \in Request : q # r => todo'[q] = todo[q] /\ cleared'[q] = cleared[q]
  BY <1>1 DEF IInv, TypeOK
<1>7. FreshInv'
  BY DEF IInv, FreshInv
<1>8. OpenedInv'
  <2>1. Public' = Public /\ Public \subseteq opened[r]
    BY <1>5 DEF Public, IInv, OpenedInv, InFlight
  <2>2. copy[r][d] # NoDoc
    BY DEF IInv, SaveInv, Held
  <2>3. \A e \in cleared'[r] : MayTouch(r, e) /\ copy[r][e] # NoDoc
    BY <2>1, <2>2, <1>3, <1>5 DEF MayTouch
  <2> QED
    BY <2>1, <2>3, <1>5, <1>6 DEF IInv, OpenedInv, MayTouch, NsOf
<1>9. SaveInv'
  BY <1>3, <1>5, <1>6 DEF IInv, SaveInv, NsOf
<1> QED
  BY <1>4, <1>7, <1>8, <1>9, ContentFrame DEF IInv

\* A write carries the copy's content over, with all that is known of its maker.
LEMMA WriteStep ==
  ASSUME IInv, NEW r \in Request, WriteDocument(r)
  PROVE  IInv'
<1> USE DEF WriteDocument
<1>1. PICK d \in cleared[r] :
        \/ /\ docs' = [docs EXCEPT ![d] = copy[r][d]]
           /\ wrote' = [wrote EXCEPT ![r] = @ \cup {d}]
        \/ CollectionOf[d] \in Failing /\ UNCHANGED <<docs, wrote>>
  OBVIOUS
<1>2. /\ d \in Document /\ cleared[r] = {d} /\ MayTouch(r, d)
      /\ at[r] = "saving" /\ answer[r] # "handler"
  BY DEF IInv, TypeOK, OpenedInv, SaveInv
<1>3. cleared'[r] = {} /\ \A q \in Request : q # r => cleared'[q] = cleared[q]
  BY DEF IInv, TypeOK
<1>4. /\ d \in wrote'[r] \/ CollectionOf[d] \in Failing
      /\ \A q \in Request : wrote[q] \subseteq wrote'[q]
  <2>1. wrote \in [Request -> SUBSET Document]
    BY DEF IInv, TypeOK
  <2> HIDE DEF WriteDocument
  <2> QED
    BY <2>1, <1>1
<1>5. \A e \in Document : docs'[e] = docs[e] \/ (e = d /\ docs'[e] = copy[r][d])
  BY <1>1, <1>2 DEF IInv, TypeOK
<1>6. TypeOK'
  <2>1. docs' \in [Document -> Content \cup {NoDoc}]
    <3>1. copy[r][d] \in Content \cup {NoDoc}
      BY <1>2 DEF IInv, TypeOK
    <3> QED
      BY <1>1, <1>2, <3>1 DEF IInv, TypeOK
  <2>2. wrote' \in [Request -> SUBSET Document]
    <3>1. wrote \in [Request -> SUBSET Document]
      BY DEF IInv, TypeOK
    <3>2. wrote' = wrote \/ wrote' = [wrote EXCEPT ![r] = @ \cup {d}]
      BY <1>1
    <3> QED
      BY <3>1, <3>2, <1>2
  <2> QED
    BY <2>1, <2>2 DEF IInv, TypeOK
<1>7. FreshInv'
  BY DEF IInv, FreshInv
<1>8. OpenedInv'
  BY <1>3 DEF IInv, OpenedInv, MayTouch, NsOf, Public
<1>9. CopyInv' /\ PrivateStaysPrivate'
  BY DEF IInv, CopyInv, PrivateStaysPrivate, MayTouch, NsOf
<1>10. SaveInv'
  <2> SUFFICES ASSUME NEW q \in Request
               PROVE  /\ todo'[q] \subseteq Held(copy'[q])
                      /\ todo'[q] # {} => at'[q] = "saving"
                      /\ \A e, f \in cleared'[q] : e = f
                      /\ at'[q] = "saving" \/ answer'[q] = "handler" =>
                           \A e \in changed'[q] :
                             NsOf(e) = HostOf[q] /\ CollectionOf[e] \notin Failing =>
                               e \in todo'[q] \cup cleared'[q] \cup wrote'[q]
                      /\ answer'[q] = "handler" =>
                           at'[q] = "answered" /\ todo'[q] = {} /\ cleared'[q] = {}
    BY DEF SaveInv, NsOf
  <2>1. CASE q = r
    BY <2>1, <1>2, <1>3, <1>4 DEF IInv, SaveInv, NsOf
  <2>2. CASE q # r
    BY <2>2, <1>3, <1>4 DEF IInv, SaveInv, NsOf
  <2> QED
    BY <2>1, <2>2
<1>11. OnlyHandlersWrite'
  <2> SUFFICES ASSUME NEW e \in Document, docs'[e] \in Request
               PROVE  e \in changed[docs'[e]] /\ MayTouch(docs'[e], e)
    BY DEF OnlyHandlersWrite, MayTouch, NsOf
  <2>1. CASE docs'[e] = docs[e]
    BY <2>1 DEF IInv, OnlyHandlersWrite
  <2>2. CASE e = d /\ docs'[e] = copy[r][d]
    BY <2>2, <1>2 DEF IInv, CopyInv
  <2> QED
    BY <2>1, <2>2, <1>5
<1>12. KeptInv'
  <2>1. copy[r][d] # NoDoc
    BY <1>2 DEF IInv, OpenedInv
  <2>2. \A e \in Document : docs[e] # NoDoc => docs'[e] # NoDoc
    BY <2>1, <1>5
  <2>3. \A q \in Request : wrote'[q] = wrote[q] \/ (wrote'[q] = wrote[q] \cup {d} /\ docs'[d] # NoDoc)
    <3>1. CASE docs' = [docs EXCEPT ![d] = copy[r][d]] /\ wrote' = [wrote EXCEPT ![r] = @ \cup {d}]
      <4>1. docs'[d] # NoDoc
        BY <3>1, <2>1, <1>2 DEF IInv, TypeOK
      <4>2. wrote \in [Request -> SUBSET Document]
        BY DEF IInv, TypeOK
      <4> QED BY <3>1, <4>1, <4>2
    <3>2. CASE UNCHANGED <<docs, wrote>>
      BY <3>2
    <3> QED BY <1>1, <3>1, <3>2
  <2>4. \A q \in Request : wrote[q] \subseteq Document
    BY DEF IInv, TypeOK
  <2>5. logged' = logged
    OBVIOUS
  <2> QED BY <2>2, <2>3, <2>4, <2>5 DEF IInv, KeptInv
<1> QED
  BY <1>6, <1>7, <1>8, <1>9, <1>10, <1>11, <1>12 DEF IInv

-----------------------------------------------------------------------------
(* Admin calls.                                                             *)

\* An admin call writes its number or nothing, never a request's content.
LEMMA DocumentStep ==
  ASSUME IInv, NEW d \in Document, PutDocument(d) \/ DeleteDocument(d)
  PROVE  IInv'
<1> USE DEF PutDocument, DeleteDocument, requests, Change
<1>1. changes' \in Version /\ changes' \in 0..MaxChanges
  BY ConstantsOK DEF IInv, TypeOK, Version, ConstantsOK
<1>2. PICK v \in Version \cup {NoDoc} : /\ docs' = [docs EXCEPT ![d] = v]
                                       /\ logged' = [logged EXCEPT ![d] = v]
  BY <1>1
<1>3. v \notin Request
  BY ConstantsOK DEF ConstantsOK, Content
<1>4. TypeOK'
  BY <1>1, <1>2 DEF IInv, TypeOK, Content
<1>5. FreshInv' /\ SaveInv'
  BY DEF IInv, FreshInv, SaveInv, NsOf
<1>6. OpenedInv'
  BY DEF IInv, OpenedInv, MayTouch, NsOf, Public
<1>7. CopyInv' /\ PrivateStaysPrivate'
  BY DEF IInv, CopyInv, PrivateStaysPrivate, MayTouch, NsOf
<1>8. OnlyHandlersWrite'
  BY <1>2, <1>3 DEF IInv, TypeOK, OnlyHandlersWrite, MayTouch, NsOf
<1>9. KeptInv'
  <2>1. \A e \in Document : e # d => docs'[e] = docs[e] /\ logged'[e] = logged[e]
    BY <1>2 DEF IInv, TypeOK
  <2>2. logged'[d] # Unlogged
    BY <1>2, ConstantsOK DEF IInv, TypeOK, ConstantsOK, Content
  <2>3. \A q \in Request : wrote'[q] \subseteq Document
    BY DEF IInv, TypeOK
  <2> QED BY <2>1, <2>2, <2>3 DEF IInv, KeptInv
<1> QED
  BY <1>4, <1>5, <1>6, <1>7, <1>8, <1>9 DEF IInv

\* A collection that becomes public enters the history of every request under way.
LEMMA CollectionStep ==
  ASSUME IInv, NEW c \in Collection, NEW v \in {"none", "private", "public"}, SetCollection(c, v)
  PROVE  IInv'
<1> USE DEF SetCollection, requests, Change
<1>1. TypeOK'
  BY ConstantsOK DEF IInv, TypeOK, ConstantsOK
<1>2. \A r \in Request : /\ opened[r] \subseteq opened'[r]
                         /\ at[r] \in InFlight /\ v = "public" => c \in opened'[r]
  OBVIOUS
<1>3. Public' \subseteq (IF v = "public" THEN Public \cup {c} ELSE Public)
  BY DEF IInv, TypeOK, Public
<1>4. FreshInv' /\ SaveInv'
  BY DEF IInv, FreshInv, SaveInv, NsOf
<1>5. \A r \in Request, d \in Document : MayTouch(r, d) => MayTouch(r, d)'
  BY <1>2, TouchGrows
<1>6. OpenedInv'
  <2>1. \A r \in Request : at[r] \in InFlight => Public' \subseteq opened'[r]
    BY <1>2, <1>3 DEF IInv, OpenedInv
  <2>2. \A r \in Request : cleared[r] \subseteq Document
    BY DEF IInv, TypeOK
  <2> QED
    BY <2>1, <2>2, <1>2, <1>5 DEF IInv, OpenedInv
<1>7. CopyInv' /\ PrivateStaysPrivate' /\ OnlyHandlersWrite'
  BY <1>5 DEF IInv, CopyInv, PrivateStaysPrivate, OnlyHandlersWrite
<1>8. KeptInv'
  BY DEF IInv, KeptInv
<1> QED
  BY <1>1, <1>4, <1>6, <1>7, <1>8 DEF IInv

\* Routes and modules decide what runs, not what the invariant says of it.
LEMMA ServingStep ==
  ASSUME IInv, NEW n \in Namespace,
         \/ \E x \in Route : SetRoute(n, x)
         \/ \E present \in BOOLEAN : SetCode(n, present)
  PROVE  IInv'
<1> USE DEF SetRoute, SetCode, requests, Change
<1>1. TypeOK'
  <2>1. changes' \in 0..MaxChanges
    BY ConstantsOK DEF IInv, TypeOK, ConstantsOK
  <2>2. route' \in [Namespace -> Route] /\ code' \in [Namespace -> BOOLEAN]
    BY DEF IInv, TypeOK
  <2> QED
    BY <2>1, <2>2 DEF IInv, TypeOK
<1>2. UNCHANGED <<docs, logged, visibility, requests, opened>>
  OBVIOUS
<1>3. FreshInv' /\ SaveInv'
  BY <1>2 DEF IInv, FreshInv, SaveInv, NsOf
<1>4. OpenedInv'
  BY <1>2 DEF IInv, OpenedInv, MayTouch, NsOf, Public
<1> QED
  BY <1>1, <1>2, <1>3, <1>4, ContentFrame DEF IInv, history

-----------------------------------------------------------------------------
(* Restarts.                                                                *)

\* A replay puts back what admin calls wrote, and requests under way are gone.
LEMMA RestartStep ==
  ASSUME IInv, Restart
  PROVE  IInv'
<1> USE DEF Restart, Change, history
<1>1. \A d \in Document : /\ docs'[d] = IF logged[d] = Unlogged THEN docs[d] ELSE logged[d]
                          /\ docs'[d] \in Content \cup {NoDoc}
                          /\ docs'[d] \in Request => docs'[d] = docs[d]
  BY ConstantsOK DEF IInv, TypeOK, Replayed, Content, ConstantsOK
<1>2. \A r \in Request : /\ copy'[r] = [d \in Document |-> NoDoc]
                         /\ cols'[r] = {} /\ todo'[r] = {} /\ cleared'[r] = {}
                         /\ at'[r] = IF at[r] \in InFlight THEN "gone" ELSE at[r]
                         /\ at'[r] \in {"client"} \cup Ended
  <2>1. \A r \in Request : at[r] \in {"client"} \cup InFlight \cup Ended
    BY DEF IInv, TypeOK
  <2>2. \A r \in Request : /\ copy'[r] = [d \in Document |-> NoDoc]
                           /\ cols'[r] = {} /\ todo'[r] = {} /\ cleared'[r] = {}
                           /\ at'[r] = IF at[r] \in InFlight THEN "gone" ELSE at[r]
    OBVIOUS
  <2> QED
    BY <2>1, <2>2 DEF Ended
<1>3. TypeOK'
  <2>1. docs' \in [Document -> Content \cup {NoDoc}]
    BY <1>1 DEF Replayed
  <2>2. /\ at' \in [Request -> {"client"} \cup InFlight \cup Ended]
        /\ copy' \in [Request -> [Document -> Content \cup {NoDoc}]]
        /\ cols' \in [Request -> SUBSET Collection]
        /\ todo' \in [Request -> SUBSET Document] /\ cleared' \in [Request -> SUBSET Document]
    <3>1. \A r \in Request : at'[r] \in {"client"} \cup InFlight \cup Ended
      BY <1>2
    <3>2. \A r \in Request : copy'[r] \in [Document -> Content \cup {NoDoc}]
      BY <1>2
    <3> QED
      BY <3>1, <3>2
  <2>3. changes' \in 0..MaxChanges
    BY ConstantsOK DEF IInv, TypeOK, ConstantsOK
  <2> QED
    BY <2>1, <2>2, <2>3 DEF IInv, TypeOK
<1>4. FreshInv'
  BY <1>2 DEF IInv, FreshInv, Ended
<1>5. OpenedInv'
  BY <1>2 DEF OpenedInv, InFlight, Ended
<1>6. CopyInv' /\ PrivateStaysPrivate'
  BY <1>2, ConstantsOK DEF CopyInv, PrivateStaysPrivate, ConstantsOK, Content
<1>7. SaveInv'
  BY <1>2 DEF IInv, SaveInv, Ended, InFlight, NsOf
<1>8. OnlyHandlersWrite'
  BY <1>1 DEF IInv, OnlyHandlersWrite, MayTouch, NsOf
<1>9. KeptInv'
  <2>1. \A r \in Request : wrote[r] \subseteq Document
    BY DEF IInv, TypeOK
  <2> QED
    BY <2>1, <1>1 DEF IInv, KeptInv
<1> QED
  BY <1>3, <1>4, <1>5, <1>6, <1>7, <1>8, <1>9 DEF IInv

-----------------------------------------------------------------------------
(* Theorems.                                                                *)

\* However requests and admin calls interleave, IInv is kept: contents carry
\* their maker's licence with them.
THEOREM StepIInv == IInv /\ [Next]_vars => IInv'
<1> SUFFICES ASSUME IInv, [Next]_vars PROVE IInv'
  OBVIOUS
<1>1. CASE UNCHANGED vars
  <2>1. TypeOK' /\ FreshInv' /\ SaveInv' /\ KeptInv'
    BY <1>1 DEF KeptInv, IInv, vars, shared, history, TypeOK, FreshInv, SaveInv, NsOf
  <2>2. OpenedInv'
    BY <1>1 DEF IInv, vars, shared, history, OpenedInv, MayTouch, NsOf, Public
  <2> QED
    BY <2>1, <2>2, <1>1, ContentFrame DEF IInv, vars, shared
<1>2. ASSUME NEW r \in Request, Arrive(r) \/ ClientGone(r) PROVE IInv'
  BY <1>2, ArriveStep, MoveStep
<1>3. ASSUME NEW r \in Request, Serves(r) PROVE IInv'
  BY <1>3, ListStep, LoadStep, MoveStep, HandlerStep, CheckStep, WriteStep DEF Serves
<1>4. ASSUME Administers PROVE IInv'
  BY <1>4, DocumentStep, CollectionStep, ServingStep DEF Administers
<1>5. ASSUME Restart PROVE IInv'
  BY <1>5, RestartStep
<1> QED
  BY <1>1, <1>2, <1>3, <1>4, <1>5 DEF Next

\* The invariant of the run requests, for any requests, namespaces,
\* collections, documents, store failures and admin calls.
THEOREM Invariance == Spec => []IInv
<1> QED
  BY InitIInv, StepIInv, PTL DEF Spec

\* Modules see documents of other namespaces only where a collection was
\* public while their request ran.
THEOREM PrivacyKept == Spec => []PrivateStaysPrivate
<1>1. IInv => PrivateStaysPrivate
  BY DEF IInv
<1> QED
  BY <1>1, Invariance, PTL

\* What requests left in the store was set by their handlers, in reach of them.
THEOREM WritesAreLicensed == Spec => []OnlyHandlersWrite
<1>1. IInv => OnlyHandlersWrite
  BY DEF IInv
<1> QED
  BY <1>1, Invariance, PTL

\* What a handler saved before it answered is there after any restart, unless an
\* admin call wrote the document too.
THEOREM SavedDocumentsKept == Spec => []SavedIsKept
<1>1. IInv => SavedIsKept
  BY DEF IInv, SaveInv, KeptInv, SavedIsKept
<1> QED
  BY <1>1, Invariance, PTL

\* An answer of a handler comes after its own documents were saved.
THEOREM AnswersAreSaved == Spec => []AnswerAfterSave
<1>1. IInv => AnswerAfterSave
  BY DEF IInv, SaveInv, AnswerAfterSave
<1> QED
  BY <1>1, Invariance, PTL
=============================================================================
