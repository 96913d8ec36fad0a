------------------------------- MODULE Gateway -------------------------------
(***************************************************************************)
(* One request through either loopback gateway                             *)
(* (src/broker/src/public-gateway.ts, private-api-gateway.ts), as the      *)
(* event-loop callbacks that touch it: routing, the local body read of the *)
(* private gateway, and forward(): its `settled` flag, its deadline timer, *)
(* the upstream request's response, error and idle-timeout events, and the *)
(* client hanging up.  Requests share no state, so one is modelled; the    *)
(* relayed upstream body is one unit that arrives whole or breaks off.     *)
(* BrokerProcess places the request in the process that serves it.         *)
(***************************************************************************)
EXTENDS Naturals

CONSTANTS
  MaxBody,     \* MAX_BODY_BYTES
  ChunkSizes   \* sizes of the data events of a request body

ASSUME GatewayAssumption == MaxBody \in Nat /\ ChunkSizes \subseteq Nat \ {0}

VARIABLES
  kind,       \* which gateway accepted the request
  stage,      \* "routing" (not yet received), "reading", "forwarding", "refused"
  size,       \* bytes of the request body seen so far
  settled,    \* forward()'s flag
  deadline,   \* forward()'s timer is armed
  upstream,   \* the upstream request: "none", "pending", "body", "done", "gone"
  client,     \* the client's connection: "open" or "closed"
  reply,      \* "none", "head" (headers sent), "ended" or "cut" (destroyed)
  status,     \* whose answer the headers carry
  heads       \* history: writeHead calls

gatewayVars ==
  <<kind, stage, size, settled, deadline, upstream, client, reply, status, heads>>

forwardVars == <<settled, deadline, upstream>>
replyVars == <<reply, status, heads>>

GatewayInit ==
  /\ kind \in {"public", "private"} /\ stage = "routing" /\ size = 0
  /\ settled = FALSE /\ deadline = FALSE /\ upstream = "none"
  /\ client = "open" /\ reply = "none" /\ status = "none" /\ heads = 0

\* sendJson: a complete answer of the gateway's own.
SendJson(code) ==
  reply' = "ended" /\ status' = code /\ heads' = heads + 1

Refuse(code) ==
  /\ SendJson(code) /\ stage' = "refused"
  /\ UNCHANGED <<kind, size, client, forwardVars>>

\* Another path or method, or (private) another content type.
RouteRefuses ==
  /\ stage = "routing"
  /\ \/ Refuse("404")
     \/ kind = "public" /\ Refuse("405")
     \/ kind = "private" /\ Refuse("400")

\* forward(): the timer and the upstream request start together.
Forward ==
  /\ stage' = "forwarding" /\ deadline' = TRUE /\ upstream' = "pending"
  /\ UNCHANGED <<kind, size, settled, client, replyVars>>

RouteForwards == stage = "routing" /\ kind = "public" /\ Forward

\* A declared length is refused before anything is read: 413 when it is over
\* the limit, 400 when it is not a number.
ReadJsonBody ==
  /\ stage = "routing" /\ kind = "private"
  /\ \/ Refuse("413") \/ Refuse("400")
     \/ /\ stage' = "reading"
        /\ UNCHANGED <<kind, size, client, forwardVars, replyVars>>

TooLarge(bytes) == bytes > MaxBody

\* Plausible defect: the chunk is held against the limit, not the sum so far.
BodyChunk_ChecksChunk(n) ==
  /\ stage = "reading" /\ client = "open"
  /\ size' = size + n
  /\ \/ /\ TooLarge(n)
        /\ SendJson("413") /\ stage' = "refused"
        /\ UNCHANGED <<kind, client, forwardVars>>
     \/ /\ ~TooLarge(n)
        /\ UNCHANGED <<kind, stage, client, forwardVars, replyVars>>

\* A data event: the answer is sent at the chunk that crosses the limit, and
\* readJsonBody's own flag drops whatever the body still brings.
BodyChunk(n) ==
  /\ stage = "reading" /\ client = "open"
  /\ size' = size + n
  /\ \/ /\ TooLarge(size')
        /\ SendJson("413") /\ stage' = "refused"
        /\ UNCHANGED <<kind, client, forwardVars>>
     \/ /\ ~TooLarge(size')
        /\ UNCHANGED <<kind, stage, client, forwardVars, replyVars>>

BodyEnds ==
  /\ stage = "reading" /\ client = "open"
  /\ Forward \/ Refuse("400")

\* fail(): the client gets a 502 unless an answer has begun.  (Headers are sent
\* only with the flag set, so fail() never gets to destroy the response.)
Fail ==
  /\ settled' = TRUE /\ deadline' = FALSE
  /\ \/ settled /\ UNCHANGED replyVars
     \/ ~settled /\ SendJson("502")

\* The deadline leaves the upstream request running.
DeadlineFires ==
  /\ deadline /\ Fail
  /\ UNCHANGED <<kind, stage, size, upstream, client>>

\* Plausible defect: the response callback does not look at the flag.
LateResponse_Relayed == FALSE

LateResponse == settled

\* The upstream answers: relayed, or destroyed when it is too late.
UpstreamResponds ==
  /\ upstream = "pending"
  /\ \/ /\ LateResponse
        /\ upstream' = "gone" /\ UNCHANGED <<settled, deadline, replyVars>>
     \/ /\ ~LateResponse
        /\ upstream' = "body" /\ settled' = TRUE /\ deadline' = FALSE
        /\ reply' = "head" /\ status' = "upstream" /\ heads' = heads + 1
  /\ UNCHANGED <<kind, stage, size, client>>

UpstreamEnds ==
  /\ upstream = "body" /\ upstream' = "done"
  /\ reply' = "ended"
  /\ UNCHANGED <<kind, stage, size, settled, deadline, client, status, heads>>

\* Plausible defect: a response that breaks off ends the client's response.
BrokenRelay_Ends == "ended"

\* upstreamResponse.on("error"): the client's connection is destroyed.
BrokenRelay == "cut"

\* The upstream request is destroyed or its connection lost: `error` on the
\* request before the response (fail), on the response after it.
UpstreamLost ==
  /\ upstream' = "gone"
  /\ \/ upstream = "pending" /\ Fail
     \/ /\ upstream = "body"
        /\ reply' = BrokenRelay
        /\ UNCHANGED <<settled, deadline, status, heads>>

UpstreamBreaks ==
  UpstreamLost /\ UNCHANGED <<kind, stage, size, client>>

\* Plausible defect: no listener for the request's timeout event.
IdleTimeout_Ignored ==
  /\ upstream \in {"pending", "body"} /\ UNCHANGED gatewayVars

\* The socket idles for timeoutMs: the timeout handler destroys the request.
IdleTimeout ==
  UpstreamLost /\ UNCHANGED <<kind, stage, size, client>>

\* Plausible defect: no close listener on the client response.
HangUpCancels_Never == FALSE

\* clientResponse.on("close"): cancels unless the answer is complete.
HangUpCancels == reply \in {"none", "head"} /\ upstream \in {"pending", "body"}

\* The client hangs up: while reading it aborts the body (400, unseen).
ClientCloses ==
  /\ client = "open" /\ client' = "closed"
  /\ \/ /\ stage = "reading"
        /\ SendJson("400") /\ stage' = "refused" /\ UNCHANGED <<kind, size, forwardVars>>
     \/ /\ stage = "forwarding" /\ HangUpCancels
        /\ UpstreamLost /\ UNCHANGED <<kind, stage, size>>
     \/ /\ stage = "forwarding" /\ ~HangUpCancels
        /\ UNCHANGED <<kind, stage, size, forwardVars, replyVars>>

\* The request handler's first turn.
RequestArrives == RouteRefuses \/ RouteForwards \/ ReadJsonBody

\* The callbacks of a request under way that depend on no other part.
RequestProceeds ==
  \/ (\E n \in ChunkSizes : BodyChunk(n)) \/ BodyEnds
  \/ DeadlineFires \/ UpstreamEnds \/ UpstreamBreaks \/ IdleTimeout \/ ClientCloses

-----------------------------------------------------------------------------
\* A client is answered at most once, whichever of the deadline, the upstream's
\* answer, its failure and the hang-up come first (a second writeHead throws
\* inside an event callback and would take the process down).
AnsweredOnce == heads <= 1

\* An upstream answer the client sees end is the upstream's whole answer: one
\* that breaks off is cut, never passed off as complete.
EndedIsWhole == reply = "ended" /\ status = "upstream" => upstream = "done"

\* Nothing is relayed to a client that hung up; the broker is left working for
\* it only when it hung up after the deadline's 502.
HangUpStopsRelay ==
  client = "closed" => /\ upstream # "body"
                       /\ upstream = "pending" => status = "502"

\* The broker sees only requests the gateway let through: nothing that was
\* answered 400, 404, 405 or 413 is forwarded as well, and no body over
\* MAX_BODY_BYTES is, in however many chunks it came and whether or not its
\* length was declared (the sum is checked chunk by chunk, the forward is
\* decided in the `end` handler).
OnlyAcceptedForwarded ==
  upstream # "none" =>
    size <= MaxBody /\ status \notin {"400", "404", "405", "413"}

\* Every forwarded request comes to an end on both sides: the client's answer
\* ends or is cut, and the upstream request does not stay open.
ForwardEnds ==
  stage = "forwarding"
    ~> reply \in {"ended", "cut"} /\ upstream \in {"done", "gone"}
=============================================================================
