------------------------------ MODULE Requests ------------------------------
(***************************************************************************)
(* The request pipeline: handle_request and what it calls in               *)
(* src/proxy/mod.rs, with the module contexts of src/modules/mod.rs.       *)
(*                                                                         *)
(* A request finds its namespace and route, reads its body, loads a copy   *)
(* of every document its namespace may see, and runs the route's modules   *)
(* on it.  With a service it then goes upstream; without one the module's  *)
(* request handler answers, and every document left in the copy is written *)
(* back.  Requests run side by side, and admin calls change documents,     *)
(* collections, routes and modules under them.  What an admin call does    *)
(* to these is one step here; its own steps are those of Gateway.  The     *)
(* process may stop at any step and be started again over file storage:    *)
(* then the changelogs of the admin calls are replayed before the proxy    *)
(* serves; what modules saved has no changelog.                            *)
(*                                                                         *)
(* The content of a document is known by who wrote it: the number of an    *)
(* admin call, or the request whose handler set it.                        *)
(***************************************************************************)
EXTENDS Integers

CONSTANTS
  Request, Namespace, Collection, Document,
  HostOf,        \* the namespace the request's host is resolved to
  OwnerOf,       \* the namespace of a collection
  CollectionOf,  \* the collection of a document
  NoDoc,         \* no such document
  Unlogged,      \* a document without a changelog
  Failing,       \* collections whose store operations may fail
  MaxChanges     \* bound on admin calls and restarts

NsOf(d) == OwnerOf[CollectionOf[d]]
Version == 0..MaxChanges
Content == Version \cup Request
Route == {"none", "bare", "service", "module", "both"}   \* what the route has

ASSUME ConstantsOK ==
  /\ HostOf \in [Request -> Namespace]
  /\ OwnerOf \in [Collection -> Namespace]
  /\ CollectionOf \in [Document -> Collection]
  /\ NoDoc \notin Content /\ Unlogged \notin Content \cup {NoDoc}
  /\ Request \cap Version = {}
  /\ Failing \subseteq Collection
  /\ MaxChanges \in Nat

VARIABLES
  docs,        \* the stored documents
  logged,      \* what the last changelog of each document leaves of it
  visibility,  \* the stored collections: "private", "public" or "none"
  route,       \* what each namespace's router finds
  code,        \* whether the executor has the module of the namespace
  changes,     \* admin calls and restarts so far (bounded)
  at,          \* where each request is
  found,       \* the compiled route it took along
  cols,        \* collections listed and not yet loaded
  copy,        \* its copy of the documents
  todo,        \* documents it has yet to save
  cleared,     \* the document it may write next
  answer,      \* what its client was told
  opened,      \* history: collections public at some time since it arrived
  changed,     \* history: documents its handler set
  wrote        \* history: documents it saved

shared == <<docs, logged, visibility, route, code, changes>>
history == <<opened, changed, wrote>>
vars == <<shared, at, found, cols, copy, todo, cleared, answer, history>>

Ended == {"answered", "gone"}
InFlight == {"body", "loading", "upstream", "saving"}

TypeOK ==
  /\ docs \in [Document -> Content \cup {NoDoc}]
  /\ logged \in [Document -> Version \cup {NoDoc, Unlogged}]
  /\ visibility \in [Collection -> {"none", "private", "public"}]
  /\ route \in [Namespace -> Route]
  /\ code \in [Namespace -> BOOLEAN]
  /\ changes \in 0..MaxChanges
  /\ at \in [Request -> {"client"} \cup InFlight \cup Ended]
  /\ found \in [Request -> Route]
  /\ cols \in [Request -> SUBSET Collection]
  /\ copy \in [Request -> [Document -> Content \cup {NoDoc}]]
  /\ todo \in [Request -> SUBSET Document]
  /\ cleared \in [Request -> SUBSET Document]
  /\ answer \in [Request -> {"none", "error", "upstream", "handler"}]
  /\ opened \in [Request -> SUBSET Collection]
  /\ changed \in [Request -> SUBSET Document]
  /\ wrote \in [Request -> SUBSET Document]

\* Any configuration earlier admin calls may have left.
Init ==
  /\ docs \in [Document -> {0, NoDoc}]
  /\ logged \in [Document -> {0, NoDoc, Unlogged}]
  /\ \A d \in Document : logged[d] \in {docs[d], Unlogged}
  /\ visibility \in [Collection -> {"none", "private", "public"}]
  /\ route \in [Namespace -> Route]
  /\ code \in [Namespace -> BOOLEAN]
  /\ changes = 0
  /\ at = [r \in Request |-> "client"]
  /\ found = [r \in Request |-> "none"]
  /\ cols = [r \in Request |-> {}]
  /\ copy = [r \in Request |-> [d \in Document |-> NoDoc]]
  /\ todo = [r \in Request |-> {}]
  /\ cleared = [r \in Request |-> {}]
  /\ answer = [r \in Request |-> "none"]
  /\ opened = [r \in Request |-> {}]
  /\ changed = [r \in Request |-> {}]
  /\ wrote = [r \in Request |-> {}]

-----------------------------------------------------------------------------
Moves(r, to) == at' = [at EXCEPT ![r] = to]

Answers(r, what) ==
  /\ Moves(r, "answered")
  /\ answer' = [answer EXCEPT ![r] = what]

Public == {c \in Collection : visibility[c] = "public"}
AccessibleAll(n) == {c \in Collection : visibility[c] # "none"}         \* mutant
Accessible(n) == Public \cup {c \in Collection : OwnerOf[c] = n /\ visibility[c] # "none"}

(***************************************************************************)
(* The host's namespace and the first route that matches are looked up and *)
(* the router is let go; the compiled route is the request's own from here.*)
(***************************************************************************)
Arrive(r) ==
  /\ at[r] = "client"
  /\ opened' = [opened EXCEPT ![r] = Public]
  /\ LET x == route[HostOf[r]] IN
     \/ /\ x = "none"
        /\ Answers(r, "error")
        /\ UNCHANGED found
     \/ /\ x # "none"
        /\ Moves(r, "body")
        /\ found' = [found EXCEPT ![r] = x]
        /\ UNCHANGED answer
  /\ UNCHANGED <<shared, cols, copy, todo, cleared, changed, wrote>>

\* The body is there, or could not be read; the collections are listed.
ListCollections(r) ==
  /\ at[r] = "body"
  /\ Moves(r, "loading")
  /\ \E listed \in {Accessible(HostOf[r])} \cup {{} : c \in Failing} :
       cols' = [cols EXCEPT ![r] = listed]
  /\ UNCHANGED <<shared, found, copy, todo, cleared, answer, history>>

\* The documents of one collection, visible as it was when listed.
LoadCollection(r) ==
  /\ at[r] = "loading"
  /\ \E c \in cols[r] :
       /\ cols' = [cols EXCEPT ![r] = @ \ {c}]
       /\ \/ copy' = [copy EXCEPT ![r] =
                        [d \in Document |-> IF CollectionOf[d] = c THEN docs[d] ELSE @[d]]]
          \/ c \in Failing /\ UNCHANGED copy
  /\ UNCHANGED <<shared, at, found, todo, cleared, answer, history>>

Loaded(r) == at[r] = "loading" /\ cols[r] = {}

\* The executor is read now, not when the route was found.
Scripted(r) == found[r] \in {"module", "both"} /\ code[HostOf[r]]
Upstream(r) == found[r] \in {"service", "both"}

\* Nothing to run: upstream as it is, or no handler.
RunNothing(r) ==
  /\ Loaded(r) /\ ~Scripted(r)
  /\ \/ Upstream(r) /\ Moves(r, "upstream") /\ UNCHANGED answer
     \/ ~Upstream(r) /\ Answers(r, "error")
  /\ UNCHANGED <<shared, found, cols, copy, todo, cleared, history>>

\* What a request modifier does to documents goes no further than this request.
RunModifier(r) ==
  /\ Loaded(r) /\ Scripted(r) /\ Upstream(r)
  /\ \/ Moves(r, "upstream") /\ UNCHANGED answer
     \/ Answers(r, "error")
  /\ UNCHANGED <<shared, found, cols, copy, todo, cleared, history>>

\* Documents in an edited copy.
Held(edited) == {d \in Document : edited[d] # NoDoc}

Edited(r, set, deleted) ==
  [d \in Document |-> CASE d \in set -> r
                        [] d \in deleted -> NoDoc
                        [] OTHER -> copy[r][d]]

(***************************************************************************)
(* The request handler, which may set any document and delete any of its   *)
(* copy; all that is then in the copy is to be saved.                      *)
(***************************************************************************)
RunHandler(r) ==
  /\ Loaded(r) /\ Scripted(r) /\ ~Upstream(r)
  /\ \E set \in SUBSET Document : \E deleted \in SUBSET (Held(copy[r]) \ set) :
       /\ copy' = [copy EXCEPT ![r] = Edited(r, set, deleted)]
       /\ todo' = [todo EXCEPT ![r] = Held(Edited(r, set, deleted))]
       /\ changed' = [changed EXCEPT ![r] = set]
  /\ Moves(r, "saving")
  /\ UNCHANGED <<shared, found, cols, cleared, answer, opened, wrote>>

\* The modifier or the handler throws; the error handler may answer, and saves nothing.
HandlerFails(r) ==
  /\ Loaded(r) /\ Scripted(r) /\ ~Upstream(r)
  /\ Answers(r, "error")
  /\ UNCHANGED <<shared, found, cols, copy, todo, cleared, history>>

\* The upstream's answer, which the module's response modifier may change.
UpstreamAnswers(r) ==
  /\ at[r] = "upstream"
  /\ Answers(r, "upstream")
  /\ UNCHANGED <<shared, found, cols, copy, todo, cleared, history>>

\* No url, no connection, no complete answer or the HTTP client's timeout.
UpstreamFails(r) ==
  /\ at[r] = "upstream"
  /\ Answers(r, "error")
  /\ UNCHANGED <<shared, found, cols, copy, todo, cleared, history>>

MayWriteAny(r, d) == {TRUE}                                             \* mutant
MayWriteMissing(r, d) ==                                                \* mutant
  {NsOf(d) = HostOf[r] \/ visibility[CollectionOf[d]] # "private"}
\* A collection that cannot be read counts as missing.
MayWrite(r, d) ==
  LET own == NsOf(d) = HostOf[r] IN
  {own \/ CollectionOf[d] \in Public} \cup {own : c \in Failing \cap {CollectionOf[d]}}

CheckDocumentAgain(r) ==                                                \* mutant
  /\ at[r] = "saving" /\ cleared[r] = {}
  /\ \E d \in todo[r] : \E may \in MayWrite(r, d) :
       /\ todo' = [todo EXCEPT ![r] = IF may THEN @ \ {d} ELSE @]
       /\ cleared' = [cleared EXCEPT ![r] = IF may THEN {d} ELSE {}]
  /\ UNCHANGED <<shared, at, found, cols, copy, answer, history>>
CheckDocument(r) ==
  /\ at[r] = "saving" /\ cleared[r] = {}
  /\ \E d \in todo[r] : \E may \in MayWrite(r, d) :
       /\ todo' = [todo EXCEPT ![r] = @ \ {d}]
       /\ cleared' = [cleared EXCEPT ![r] = IF may THEN {d} ELSE {}]
  /\ UNCHANGED <<shared, at, found, cols, copy, answer, history>>

WriteDocument(r) ==
  /\ at[r] = "saving"
  /\ \E d \in cleared[r] :
       \/ /\ docs' = [docs EXCEPT ![d] = copy[r][d]]
          /\ wrote' = [wrote EXCEPT ![r] = @ \cup {d}]
       \/ CollectionOf[d] \in Failing /\ UNCHANGED <<docs, wrote>>
  /\ cleared' = [cleared EXCEPT ![r] = {}]
  /\ UNCHANGED <<logged, visibility, route, code, changes, at, found, cols, copy, todo,
                 answer, opened, changed>>

SavedAlmost(r) == at[r] = "saving" /\ todo[r] = {}                      \* mutant
Saved(r) == at[r] = "saving" /\ todo[r] = {} /\ cleared[r] = {}

\* What the handler made of the response need not be one.
AnswerHandled(r) ==
  /\ Saved(r)
  /\ \E what \in {"handler", "error"} : Answers(r, what)
  /\ UNCHANGED <<shared, found, cols, copy, todo, cleared, history>>

\* The server drops the request at an await when its client hangs up.
ClientGone(r) ==
  /\ at[r] \in {"body", "upstream"}
  /\ Moves(r, "gone")
  /\ UNCHANGED <<shared, found, cols, copy, todo, cleared, answer, history>>

-----------------------------------------------------------------------------
(***************************************************************************)
(* Admin calls.                                                            *)
(***************************************************************************)
Change == changes < MaxChanges /\ changes' = changes + 1
requests == <<at, found, cols, copy, todo, cleared, answer, changed, wrote>>

PutDocument(d) ==
  /\ Change
  /\ docs' = [docs EXCEPT ![d] = changes']
  /\ logged' = [logged EXCEPT ![d] = changes']
  /\ UNCHANGED <<visibility, route, code, requests, opened>>

DeleteDocument(d) ==
  /\ Change
  /\ docs' = [docs EXCEPT ![d] = NoDoc]
  /\ logged' = [logged EXCEPT ![d] = NoDoc]
  /\ UNCHANGED <<visibility, route, code, requests, opened>>

\* put_collection or delete_collection, which leaves the documents alone.
SetCollection(c, v) ==
  /\ Change
  /\ visibility' = [visibility EXCEPT ![c] = v]
  /\ opened' = [r \in Request |-> IF at[r] \in InFlight /\ v = "public"
                                  THEN opened[r] \cup {c} ELSE opened[r]]
  /\ UNCHANGED <<docs, logged, route, code, requests>>

\* A rebuild of the namespace's router.
SetRoute(n, x) ==
  /\ Change
  /\ route' = [route EXCEPT ![n] = x]
  /\ UNCHANGED <<docs, logged, visibility, code, requests, opened>>

\* add_module or remove_module.
SetCode(n, present) ==
  /\ Change
  /\ code' = [code EXCEPT ![n] = present]
  /\ UNCHANGED <<docs, logged, visibility, route, requests, opened>>

(***************************************************************************)
(* The process stops and starts: restore_from_changelogs, before the proxy *)
(* serves.                                                                 *)
(***************************************************************************)
ReplayedOnly == [d \in Document |-> IF logged[d] = Unlogged THEN NoDoc ELSE logged[d]]  \* mutant
Replayed == [d \in Document |-> IF logged[d] = Unlogged THEN docs[d] ELSE logged[d]]

Restart ==
  /\ Change
  /\ docs' = Replayed
  /\ at' = [r \in Request |-> IF at[r] \in InFlight THEN "gone" ELSE at[r]]
  /\ copy' = [r \in Request |-> [d \in Document |-> NoDoc]]
  /\ cols' = [r \in Request |-> {}]
  /\ todo' = [r \in Request |-> {}]
  /\ cleared' = [r \in Request |-> {}]
  /\ UNCHANGED <<logged, visibility, route, code, found, answer, history>>

-----------------------------------------------------------------------------
Serves(r) ==
  \/ ListCollections(r) \/ LoadCollection(r)
  \/ RunNothing(r) \/ RunModifier(r) \/ RunHandler(r) \/ HandlerFails(r)
  \/ UpstreamAnswers(r) \/ UpstreamFails(r)
  \/ CheckDocument(r) \/ WriteDocument(r) \/ AnswerHandled(r)

Administers ==
  \/ \E d \in Document : PutDocument(d) \/ DeleteDocument(d)
  \/ \E c \in Collection, v \in {"none", "private", "public"} : SetCollection(c, v)
  \/ \E n \in Namespace, x \in Route : SetRoute(n, x)
  \/ \E n \in Namespace, present \in BOOLEAN : SetCode(n, present)

Next ==
  \/ \E r \in Request : Arrive(r) \/ Serves(r) \/ ClientGone(r)
  \/ Administers \/ Restart

(***************************************************************************)
(* The task of a request is polled until it ends, and the HTTP client      *)
(* gives up on an upstream after 30 seconds.  Nothing makes a client send  *)
(* the rest of its body.                                                   *)
(***************************************************************************)
Fairness == \A r \in Request : WF_vars(Serves(r) /\ at[r] # "body")

Spec == Init /\ [][Next]_vars /\ Fairness

-----------------------------------------------------------------------------
(***************************************************************************)
(* Safety.                                                                 *)
(***************************************************************************)
MayTouch(r, d) == NsOf(d) = HostOf[r] \/ CollectionOf[d] \in opened[r]

\* A module sees documents of another namespace only in collections that
\* were public at some time since its request arrived, although visibility
\* and documents are read at different times (get_documents_for_namespace).
PrivateStaysPrivate ==
  \A r \in Request, d \in Document :
    copy[r][d] \notin {NoDoc, r} => MayTouch(r, d)

\* Whatever was passed on by other requests' write-backs: a stored document
\* that a request made was set by its handler, which ended well, and lies in
\* its own namespace or in a collection that was public while it ran
\* (handle_request, save_module_documents).
OnlyHandlersWrite ==
  \A d \in Document : docs[d] \in Request =>
    d \in changed[docs[d]] /\ MayTouch(docs[d], d)

\* A client that is answered by a handler finds saved what the handler set in
\* its own namespace, unless the store failed (handle_request saves first).
AnswerAfterSave ==
  \A r \in Request : answer[r] = "handler" =>
    \A d \in changed[r] :
      NsOf(d) = HostOf[r] /\ CollectionOf[d] \notin Failing => d \in wrote[r]

\* What a handler saved in its own namespace before it answered is not lost
\* altogether, whatever others write and whenever the process restarts, until
\* an admin call writes the document, which the replay then prefers
\* (save_module_documents makes no changelog, restore_from_changelogs).
SavedIsKept ==
  \A r \in Request : answer[r] = "handler" =>
    \A d \in changed[r] : NsOf(d) = HostOf[r] /\ CollectionOf[d] \notin Failing =>
      docs[d] # NoDoc \/ logged[d] # Unlogged

(***************************************************************************)
(* Liveness.                                                               *)
(***************************************************************************)
\* A request whose body has arrived is answered or given up by its client,
\* whatever the upstream, the modules and the store do (handle_request).
EveryRequestEnds ==
  \A r \in Request : at[r] \in InFlight \ {"body"} ~> at[r] \in Ended

(***************************************************************************)
(* What the code says of itself and does not do.                           *)
(***************************************************************************)
\* Saving changes only documents the module modified (save_module_documents).
SavesOnlyModified ==
  [][\A r \in Request, d \in Document :
       WriteDocument(r) /\ docs'[d] # docs[d] => d \in changed[r]]_vars

(***************************************************************************)
(* The inductive invariant of RequestsProofs.                              *)
(***************************************************************************)
\* Before its handler has run a request has set and saved nothing.
FreshInv ==
  \A r \in Request :
    /\ at[r] \in {"client", "body", "loading", "upstream"} => changed[r] = {}
    /\ at[r] = "client" => copy[r] = [d \in Document |-> NoDoc]

\* A request's history of public collections covers what it may still load or write.
OpenedInv ==
  \A r \in Request :
    /\ at[r] \in InFlight => Public \subseteq opened[r]
    /\ \A c \in cols[r] : OwnerOf[c] = HostOf[r] \/ c \in opened[r]
    /\ \A d \in cleared[r] : MayTouch(r, d) /\ copy[r][d] # NoDoc
    /\ cols[r] # {} => at[r] = "loading"
    /\ cleared[r] # {} => at[r] = "saving"

\* Contents made by requests, wherever copies have carried them.
CopyInv ==
  \A r \in Request, d \in Document : copy[r][d] \in Request =>
    /\ d \in changed[copy[r][d]]
    /\ copy[r][d] # r => MayTouch(copy[r][d], d)

\* What a handler set is saved or yet to be saved.
SaveInv ==
  \A r \in Request :
    /\ todo[r] \subseteq Held(copy[r])
    /\ todo[r] # {} => at[r] = "saving"
    /\ \A d, e \in cleared[r] : d = e
    /\ at[r] = "saving" \/ answer[r] = "handler" =>
         \A d \in changed[r] : NsOf(d) = HostOf[r] /\ CollectionOf[d] \notin Failing =>
           d \in todo[r] \cup cleared[r] \cup wrote[r]
    /\ answer[r] = "handler" => at[r] = "answered" /\ todo[r] = {} /\ cleared[r] = {}

\* What a request has saved is stored, or was logged since.
KeptInv ==
  \A r \in Request : \A d \in wrote[r] : docs[d] # NoDoc \/ logged[d] # Unlogged

IInv ==
  /\ KeptInv
  /\ TypeOK /\ FreshInv /\ OpenedInv /\ CopyInv /\ SaveInv
  /\ PrivateStaysPrivate /\ OnlyHandlersWrite
=============================================================================
