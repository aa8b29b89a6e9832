----------------------------- MODULE Passthrough ----------------------------
(***************************************************************************)
(* Requests that are passed through to an upstream, past the modules:      *)
(* WebSocket connections and gRPC calls (src/proxy/mod.rs:                 *)
(* handle_websocket_upgrade, relay_websocket, handle_grpc_proxy).          *)
(*                                                                         *)
(* A WebSocket connection is relayed by two futures, one per direction,    *)
(* that a select runs until the first of them ends; the other is dropped   *)
(* wherever it is.  A gRPC call is taken in whole, sent on, and its answer *)
(* taken in whole before the client gets any of it.                        *)
(*                                                                         *)
(* The two sides and their connections are external.  What a side sends is *)
(* numbered; a side ends what it sends (a Close frame, the end of a        *)
(* stream), or its connection breaks and what was under way is lost.       *)
(***************************************************************************)
EXTENDS Integers, Sequences

CONSTANTS
  MaxSent,   \* bound on what each side sends
  MaxBody    \* the body limit of gRPC calls

ASSUME BoundsOK == MaxSent \in Nat /\ MaxBody \in Nat

VARIABLES
  kind,   \* "websocket" or "grpc"
  stage,  \* where the request is
  sent,   \* sent[s]: how much side s has sent
  conn,   \* conn[s]: "open", "closed" by s itself, or "broken"
  inbox,  \* inbox[s]: what has arrived from s and was not read yet
  held,   \* held[s]: read from s and not passed on yet
  got     \* got[s]: what the proxy has written to s

vars == <<kind, stage, sent, conn, inbox, held, got>>

Side == {"client", "upstream"}
Other(s) == IF s = "client" THEN "upstream" ELSE "client"
Data == 1..MaxSent
Close == MaxSent + 1       \* a Close frame, or the end of a stream with its trailers
Broken == MaxSent + 2      \* reading fails
Failure == MaxSent + 3     \* an error answer of the proxy

TypeOK ==
  /\ kind \in {"websocket", "grpc"}
  /\ stage \in {"connect", "relay", "body", "head", "capacity", "response", "ended"}
  /\ sent \in [Side -> 0..MaxSent]
  /\ conn \in [Side -> {"open", "closed", "broken"}]
  /\ inbox \in [Side -> Seq(Data \cup {Close, Broken})]
  /\ held \in [Side -> Seq(Data \cup {Close})]
  /\ got \in [Side -> Seq(Data \cup {Close, Failure})]

Init ==
  /\ kind \in {"websocket", "grpc"}
  /\ stage = "connect"
  /\ sent = [s \in Side |-> 0]
  /\ conn = [s \in Side |-> "open"]
  /\ inbox = [s \in Side |-> <<>>]
  /\ held = [s \in Side |-> <<>>]
  /\ got = [s \in Side |-> <<>>]

-----------------------------------------------------------------------------
(* The two sides.  An upstream speaks once it is connected, in a gRPC call    *)
(* once it has the head of the request.                                       *)

Speaks(s) == conn[s] = "open" /\ (s = "client" \/ stage \in {"relay", "capacity", "response"})

SideSends(s) ==
  /\ Speaks(s) /\ sent[s] < MaxSent
  /\ sent' = [sent EXCEPT ![s] = @ + 1]
  /\ inbox' = [inbox EXCEPT ![s] = Append(@, sent[s] + 1)]
  /\ UNCHANGED <<kind, stage, conn, held, got>>

SideCloses(s) ==
  /\ Speaks(s)
  /\ conn' = [conn EXCEPT ![s] = "closed"]
  /\ inbox' = [inbox EXCEPT ![s] = Append(@, Close)]
  /\ UNCHANGED <<kind, stage, sent, held, got>>

\* Of what has not been read some is lost, the end that was sent with it.
SideBreaks(s) ==
  /\ conn[s] # "broken" /\ (s = "client" \/ stage # "connect")
  /\ conn' = [conn EXCEPT ![s] = "broken"]
  /\ \E i \in 0..Len(inbox[s]) :
       inbox' = [inbox EXCEPT ![s] = Append(SubSeq(@, 1, i), Broken)]
  /\ UNCHANGED <<kind, stage, sent, held, got>>

-----------------------------------------------------------------------------
(* Connecting to the upstream: connect_async for a WebSocket, whose client    *)
(* has its upgrade by then and is just dropped on failure; TCP and the HTTP/2 *)
(* handshake for gRPC.                                                        *)

Fail ==
  /\ stage' = "ended"
  /\ got' = IF kind = "grpc" THEN [got EXCEPT !["client"] = <<Failure>>] ELSE got

Connect ==
  /\ stage = "connect"
  /\ stage' = IF kind = "websocket" THEN "relay" ELSE "body"
  /\ UNCHANGED <<kind, sent, conn, inbox, held, got>>

ConnectFails ==
  /\ stage = "connect" /\ Fail
  /\ UNCHANGED <<kind, sent, conn, inbox, held>>

-----------------------------------------------------------------------------
(* relay_websocket: the direction from side s.                               *)

NextFrom(s) == Head(inbox[s])
Taken(s) == [inbox EXCEPT ![s] = Tail(@)]

\* A Close frame and a failed read both make a Close frame for the other side.
Passed(m) == IF m = Broken THEN Close ELSE m

ReadSideEagerly(s) ==                                              \* mutant
  /\ stage = "relay" /\ inbox[s] # <<>>
  /\ held' = [held EXCEPT ![s] = <<Passed(NextFrom(s))>>]
  /\ inbox' = Taken(s)
  /\ UNCHANGED <<kind, stage, sent, conn, got>>
ReadSide(s) ==
  /\ stage = "relay" /\ held[s] = <<>> /\ inbox[s] # <<>>
  /\ held' = [held EXCEPT ![s] = <<Passed(NextFrom(s))>>]
  /\ inbox' = Taken(s)
  /\ UNCHANGED <<kind, stage, sent, conn, got>>

\* Writing to a side whose Close was read fails, and to a broken connection
\* sooner or later; the select ends with the direction that fails.
ForwardData(s) ==
  /\ stage = "relay" /\ held[s] # <<>> /\ held[s] # <<Close>>
  /\ held' = [held EXCEPT ![s] = <<>>]
  /\ \/ /\ conn[Other(s)] # "broken" /\ held[Other(s)] # <<Close>>
        /\ got' = [got EXCEPT ![Other(s)] = @ \o held[s]]
        /\ UNCHANGED stage
     \/ /\ held[Other(s)] = <<Close>>
        /\ stage' = "ended" /\ UNCHANGED got
     \/ /\ conn[Other(s)] = "broken"
        /\ stage' \in {"relay", "ended"} /\ UNCHANGED got
  /\ UNCHANGED <<kind, sent, conn, inbox>>

\* The select ends with the first direction that ends.
ForwardCloseOnly(s) ==                                              \* mutant: join
  /\ stage = "relay" /\ held[s] = <<Close>>
  /\ got' = IF conn[Other(s)] = "broken" THEN got ELSE [got EXCEPT ![Other(s)] = @ \o held[s]]
  /\ held' = [held EXCEPT ![s] = <<>>]
  /\ UNCHANGED <<kind, stage, sent, conn, inbox>>
ForwardClose(s) ==
  /\ stage = "relay" /\ held[s] = <<Close>>
  /\ got' = IF conn[Other(s)] = "broken" THEN got ELSE [got EXCEPT ![Other(s)] = @ \o held[s]]
  /\ held' = [held EXCEPT ![s] = <<>>]
  /\ stage' = "ended"
  /\ UNCHANGED <<kind, sent, conn, inbox>>

-----------------------------------------------------------------------------
(* handle_grpc_proxy.                                                        *)

ReadBodyCut ==                                                      \* mutant: cut at the limit
  /\ stage = "body" /\ inbox["client"] # <<>>
  /\ inbox' = Taken("client")
  /\ LET m == NextFrom("client")
     IN  \/ m = Broken /\ Fail /\ UNCHANGED held
         \/ /\ m = Close \/ (m \in Data /\ Len(held["client"]) = MaxBody)
            /\ stage' = "head" /\ UNCHANGED <<held, got>>
         \/ /\ m \in Data /\ Len(held["client"]) < MaxBody
            /\ held' = [held EXCEPT !["client"] = Append(@, m)]
            /\ UNCHANGED <<stage, got>>
  /\ UNCHANGED <<kind, sent, conn>>
ReadBody ==
  /\ stage = "body" /\ inbox["client"] # <<>>
  /\ inbox' = Taken("client")
  /\ LET m == NextFrom("client")
     IN  \/ m = Close /\ stage' = "head" /\ UNCHANGED <<held, got>>
         \/ /\ m = Broken \/ (m \in Data /\ Len(held["client"]) = MaxBody)
            /\ Fail /\ UNCHANGED held
         \/ /\ m \in Data /\ Len(held["client"]) < MaxBody
            /\ held' = [held EXCEPT !["client"] = Append(@, m)]
            /\ UNCHANGED <<stage, got>>
  /\ UNCHANGED <<kind, sent, conn>>

\* The head of the request; without a body it also ends the stream.
SendHead ==
  /\ stage = "head"
  /\ IF held["client"] = <<>>
     THEN stage' = "response" /\ got' = [got EXCEPT !["upstream"] = <<Close>>]
     ELSE stage' = "capacity" /\ UNCHANGED got
  /\ UNCHANGED <<kind, sent, conn, inbox, held>>

\* The body, once the stream has capacity.
SendBody ==
  /\ stage = "capacity" /\ conn["upstream"] # "broken"
  /\ got' = [got EXCEPT !["upstream"] = Append(held["client"], Close)]
  /\ held' = [held EXCEPT !["client"] = <<>>]
  /\ stage' = "response"
  /\ UNCHANGED <<kind, sent, conn, inbox>>

\* Anything on the way may fail; an upstream that answers and resets the stream
\* before it has the body loses its answer.
SendFails ==
  /\ \/ stage = "head"
     \/ stage = "capacity" /\ conn["upstream"] # "open"
  /\ Fail
  /\ UNCHANGED <<kind, sent, conn, inbox, held>>

\* The answer is given when the trailers are there.
Answer(h) == Append(h, Close)
ReadResponseSoFar ==                                                \* mutant: an error ends it
  /\ stage = "response" /\ inbox["upstream"] # <<>>
  /\ inbox' = Taken("upstream")
  /\ LET m == NextFrom("upstream")
     IN  IF m \in {Close, Broken}
         THEN /\ got' = [got EXCEPT !["client"] = Answer(held["upstream"])]
              /\ stage' = "ended" /\ UNCHANGED held
         ELSE /\ held' = [held EXCEPT !["upstream"] = Append(@, m)]
              /\ UNCHANGED <<stage, got>>
  /\ UNCHANGED <<kind, sent, conn>>
ReadResponse ==
  /\ stage = "response" /\ inbox["upstream"] # <<>>
  /\ inbox' = Taken("upstream")
  /\ LET m == NextFrom("upstream")
     IN  \/ /\ m = Close
            /\ got' = [got EXCEPT !["client"] = Answer(held["upstream"])]
            /\ stage' = "ended" /\ UNCHANGED held
         \/ m = Broken /\ Fail /\ UNCHANGED held
         \/ /\ m \in Data
            /\ held' = [held EXCEPT !["upstream"] = Append(@, m)]
            /\ UNCHANGED <<stage, got>>
  /\ UNCHANGED <<kind, sent, conn>>

\* The server drops a call whose client is gone.
DropCall ==
  /\ kind = "grpc" /\ stage # "ended" /\ conn["client"] = "broken"
  /\ stage' = "ended"
  /\ UNCHANGED <<kind, sent, conn, inbox, held, got>>

-----------------------------------------------------------------------------
Relay(s) == ReadSide(s) \/ ForwardData(s) \/ ForwardClose(s)
GrpcCall == ReadBody \/ SendHead \/ SendBody \/ SendFails \/ ReadResponse

Next ==
  \/ \E s \in Side : SideSends(s) \/ SideCloses(s) \/ SideBreaks(s)
  \/ Connect \/ ConnectFails
  \/ \E s \in Side : Relay(s)
  \/ GrpcCall \/ DropCall

Spec == Init /\ [][Next]_vars

(* The task of a request is polled: connecting comes to an end, and a side    *)
(* that is written to reads.                                                  *)
Fairness ==
  /\ WF_vars(Connect \/ ConnectFails)
  /\ \A s \in Side : WF_vars(Relay(s))
  /\ WF_vars(GrpcCall) /\ WF_vars(DropCall)
FairSpec == Spec /\ Fairness

-----------------------------------------------------------------------------
(* Properties.                                                               *)

First(n) == [i \in 1..n |-> i]

\* What a side gets is what the other one sent, in order, without a gap or a
\* repetition, as far as it goes; then an end or an error answer, and no more.
InOrder ==
  \A s \in Side : \E n \in 0..sent[Other(s)], last \in {<<>>, <<Close>>, <<Failure>>} :
    got[s] = First(n) \o last

\* A side is told of an end only when the other side ended; if that one ended of
\* itself, all it had sent has arrived before.
EndsWith(s, n) == got[s] = First(n) \o <<Close>>
EndIsComplete ==
  \A s \in Side, n \in 0..MaxSent : EndsWith(s, n) =>
    \/ conn[Other(s)] = "broken"
    \/ conn[Other(s)] = "closed" /\ n = sent[Other(s)]

\* The client of a gRPC call gets a whole answer or an error, and a whole answer
\* only when the upstream had the whole request.
AnswersAreWhole ==
  kind = "grpc" /\ got["client"] # <<>> =>
    \/ got["client"] = <<Failure>>
    \/ EndsWith("client", sent["upstream"]) /\ EndsWith("upstream", sent["client"])

\* When one side of a WebSocket is done the relay ends, and with it the other
\* side; a gRPC call ends when client and upstream have said all they say.
EveryExchangeEnds ==
  /\ kind = "websocket" /\ (\E s \in Side : conn[s] # "open") ~> stage = "ended"
  /\ kind = "grpc" /\ (\A s \in Side : conn[s] # "open") ~> stage = "ended"
=============================================================================
