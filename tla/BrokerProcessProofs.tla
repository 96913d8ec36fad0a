------------------------- MODULE BrokerProcessProofs -------------------------
(***************************************************************************)
(* The followed request and the process that serves it, for any body limit *)
(* and any number of other connections.  That a client is answered once    *)
(* rests on what forward()'s `settled` flag means: RequestOK says, stage   *)
(* by stage, which of the flag, the timer, the upstream request and the    *)
(* answer can be found together.                                           *)
(***************************************************************************)
EXTENDS BrokerProcess, TLAPS

RequestTypeOK ==
  /\ kind \in {"public", "private"}
  /\ stage \in {"routing", "reading", "forwarding", "refused"}
  /\ size \in Nat
  /\ settled \in BOOLEAN /\ deadline \in BOOLEAN
  /\ upstream \in {"none", "pending", "body", "done", "gone"}
  /\ client \in {"open", "closed"}
  /\ reply \in {"none", "head", "ended", "cut"}
  /\ status \in {"none", "400", "404", "405", "413", "502", "upstream"}
  /\ heads \in Nat

\* Nothing has been answered; only the end of the process cuts the connection.
Unanswered ==
  /\ ~settled /\ status = "none" /\ heads = 0
  /\ reply = "none" \/ (reply = "cut" /\ phase = "exited")

BeforeForward == ~deadline /\ upstream = "none" /\ ~settled

Forwarding ==
  \/ /\ Unanswered
     /\ upstream = "pending" \/ (upstream = "gone" /\ phase = "exited")
  \/ /\ settled /\ heads = 1 /\ ~deadline
     /\ \/ status = "502" /\ reply = "ended" /\ upstream \in {"pending", "gone"}
        \/ /\ status = "upstream"
           /\ \/ reply = "head" /\ upstream = "body"
              \/ reply = "ended" /\ upstream = "done"
              \/ reply = "cut" /\ upstream = "gone"

RequestOK ==
  /\ stage \in {"routing", "reading"} =>
        BeforeForward /\ Unanswered /\ client = "open"
  /\ stage = "refused" =>
        BeforeForward /\ heads = 1 /\ reply = "ended" /\ status \notin {"upstream", "none"}
  /\ stage = "forwarding" => Forwarding
  /\ HangUpStopsRelay

\* Before the first listener is bound nothing can have arrived.
ProcessOK ==
  /\ conns \in [Servers -> Nat]
  /\ phase \in {"preflight", "exited"} => listening = {}
  /\ phase = "preflight" =>
        conns = [s \in Servers |-> 0] /\ stage = "routing" /\ ~reached

ProcInv == RequestTypeOK /\ RequestOK /\ ProcessOK

-----------------------------------------------------------------------------
LEMMA InitProcInv == ProcessInit => ProcInv
<1> SUFFICES ASSUME ProcessInit PROVE ProcInv
  OBVIOUS
<1> USE DEF ProcessInit, GatewayInit
<1>1. RequestTypeOK
  BY DEF RequestTypeOK
<1>2. RequestOK
  BY DEF RequestOK, BeforeForward, Unanswered, HangUpStopsRelay
<1>3. ProcessOK
  BY DEF ProcessOK
<1> QED BY <1>1, <1>2, <1>3 DEF ProcInv

\* A step of the request itself, in a process that has not ended.
LEMMA ArrivesOK ==
  ASSUME RequestTypeOK, RequestOK, RequestArrives, UNCHANGED phase
  PROVE  RequestTypeOK' /\ RequestOK'
<1> USE DEF RequestTypeOK, RequestOK, BeforeForward, Unanswered, Forwarding,
            HangUpStopsRelay, Refuse, SendJson, Forward, forwardVars, replyVars
<1>1. CASE RouteRefuses
  BY <1>1 DEF RouteRefuses
<1>2. CASE RouteForwards
  BY <1>2 DEF RouteForwards
<1>3. CASE ReadJsonBody
  BY <1>3 DEF ReadJsonBody
<1> QED BY <1>1, <1>2, <1>3 DEF RequestArrives

\* Whichever of the deadline, the upstream's answer, its failure and the
\* hang-up comes first settles the request; the others then find the flag set.
LEMMA ProceedsOK ==
  ASSUME GatewayAssumption, RequestTypeOK, RequestOK, phase # "exited", UNCHANGED phase,
         RequestProceeds \/ UpstreamResponds
  PROVE  RequestTypeOK' /\ RequestOK'
<1> USE DEF RequestTypeOK, RequestOK, BeforeForward, Unanswered, Forwarding,
            HangUpStopsRelay, SendJson, forwardVars, replyVars
<1>1. ASSUME NEW n \in ChunkSizes, BodyChunk(n) PROVE RequestTypeOK' /\ RequestOK'
  BY <1>1, GatewayAssumption DEF BodyChunk, TooLarge
<1>2. CASE BodyEnds
  <2>1. CASE Forward
    BY <1>2, <2>1 DEF BodyEnds, Forward
  <2>2. CASE Refuse("400")
    BY <1>2, <2>2 DEF BodyEnds, Refuse
  <2> QED BY <1>2, <2>1, <2>2 DEF BodyEnds
<1>3. CASE DeadlineFires
  <2>1. /\ stage = "forwarding" /\ ~settled /\ upstream = "pending" /\ client = "open"
        /\ heads = 0
    BY <1>3 DEF DeadlineFires
  <2>2. /\ settled' = TRUE /\ deadline' = FALSE
        /\ reply' = "ended" /\ status' = "502" /\ heads' = 1
        /\ UNCHANGED <<kind, stage, size, upstream, client>>
    BY <1>3, <2>1 DEF DeadlineFires, Fail
  <2> QED BY <2>1, <2>2
<1>4. CASE UpstreamResponds
  <2>1. CASE settled
    <3>1. /\ upstream = "pending" /\ upstream' = "gone"
          /\ UNCHANGED <<settled, deadline, reply, status, heads, kind, stage, size, client>>
      BY <1>4, <2>1 DEF UpstreamResponds, LateResponse
    <3>2. stage = "forwarding" /\ status = "502"
      BY <2>1, <3>1
    <3> QED BY <2>1, <3>1, <3>2
  <2>2. CASE ~settled
    <3>1. /\ upstream = "pending"
          /\ stage = "forwarding" /\ heads = 0 /\ client = "open"
      BY <1>4, <2>2 DEF UpstreamResponds
    <3>2. /\ upstream' = "body"
          /\ settled' = TRUE /\ deadline' = FALSE
          /\ reply' = "head" /\ status' = "upstream" /\ heads' = 1
          /\ UNCHANGED <<kind, stage, size, client>>
      BY <1>4, <2>2, <3>1 DEF UpstreamResponds, LateResponse
    <3> QED BY <3>1, <3>2
  <2> QED BY <2>1, <2>2
<1>5. CASE UpstreamEnds
  BY <1>5 DEF UpstreamEnds
<1>6. ASSUME UpstreamLost, UNCHANGED <<kind, stage, size>>, client' \in {"open", "closed"}
      PROVE  RequestTypeOK' /\ RequestOK'
  <2>1. stage = "forwarding" /\ upstream \in {"pending", "body"} /\ upstream' = "gone"
    BY <1>6 DEF UpstreamLost
  <2>2. CASE upstream = "body"
    <3>1. reply' = "cut" /\ UNCHANGED <<settled, deadline, status, heads>>
      BY <1>6, <2>2 DEF UpstreamLost, BrokenRelay
    <3> QED BY <1>6, <2>1, <2>2, <3>1
  <2>3. CASE upstream = "pending" /\ settled
    <3>1. settled' = TRUE /\ deadline' = FALSE /\ UNCHANGED <<reply, status, heads>>
      BY <1>6, <2>3 DEF UpstreamLost, Fail
    <3> QED BY <1>6, <2>1, <2>3, <3>1
  <2>4. CASE upstream = "pending" /\ ~settled
    <3>1. heads = 0
      BY <2>1, <2>4
    <3>2. /\ settled' = TRUE /\ deadline' = FALSE
          /\ reply' = "ended" /\ status' = "502" /\ heads' = 1
      BY <1>6, <2>4, <3>1 DEF UpstreamLost, Fail
    <3> QED BY <1>6, <2>1, <3>2
  <2> QED BY <2>1, <2>2, <2>3, <2>4
<1>7. CASE UpstreamBreaks \/ IdleTimeout
  BY <1>6, <1>7 DEF UpstreamBreaks, IdleTimeout
<1>8. CASE ClientCloses
  <2>1. CASE stage = "reading"
    BY <1>8, <2>1 DEF ClientCloses
  <2>2. CASE stage = "forwarding" /\ UpstreamLost
    BY <1>6, <1>8, <2>2 DEF ClientCloses
  <2>3. CASE stage = "forwarding" /\ ~HangUpCancels
    <3>1. client' = "closed" /\ UNCHANGED <<kind, stage, size, forwardVars, replyVars>>
      BY <1>8, <2>3 DEF ClientCloses
    <3> QED BY <2>3, <3>1 DEF HangUpCancels
  <2> QED BY <1>8, <2>1, <2>2, <2>3 DEF ClientCloses
<1> QED BY <1>1, <1>2, <1>3, <1>4, <1>5, <1>7, <1>8 DEF RequestProceeds

\* The end of the process cuts an answer in progress and completes none.
LEMMA ExitOK ==
  ASSUME RequestTypeOK, RequestOK, ProcessOK, NEW code, Exit(code)
  PROVE  RequestTypeOK' /\ RequestOK' /\ ProcessOK'
<1>1. RequestTypeOK' /\ RequestOK'
  BY DEF Exit, InProgress, RequestTypeOK, RequestOK, BeforeForward, Unanswered, Forwarding,
         HangUpStopsRelay
<1>2. ProcessOK'
  BY DEF Exit, ProcessOK
<1> QED BY <1>1, <1>2

LEMMA NextProcInv == ProcInv /\ [ProcessNext]_pvars => ProcInv'
<1> SUFFICES ASSUME ProcInv, [ProcessNext]_pvars PROVE ProcInv'
  OBVIOUS
<1> USE DEF ProcInv
<1>0. UNCHANGED gatewayVars /\ phase # "exited" => RequestTypeOK' /\ RequestOK'
  BY DEF gatewayVars, RequestTypeOK, RequestOK, BeforeForward, Unanswered, Forwarding,
         HangUpStopsRelay
<1>1. CASE UNCHANGED pvars
  BY <1>1 DEF pvars, processVars, gatewayVars, RequestTypeOK, RequestOK, BeforeForward,
              Unanswered, Forwarding, HangUpStopsRelay, ProcessOK
<1>2. CASE Preflight
  <2>1. CASE Exit("1")
    BY <2>1, ExitOK
  <2>2. CASE phase' = "binding" /\ UNCHANGED <<listening, conns, exit, reached, gatewayVars>>
    BY <1>0, <1>2, <2>2 DEF Preflight, ProcessOK
  <2> QED BY <1>2, <2>1, <2>2 DEF Preflight
<1>3. CASE Bind \/ BindFails
  BY <1>0, <1>3 DEF Bind, BindFails, ProcessOK
<1>4. CASE CloseCompletes
  <2>1. PICK code : Exit(code)
    BY <1>4 DEF CloseCompletes
  <2> QED BY <2>1, ExitOK
<1>5. ASSUME NEW sig \in Signals, Signal(sig) PROVE ProcInv'
  <2>1. CASE Exit("killed")
    BY <2>1, ExitOK
  <2>2. CASE ~Exit("killed")
    BY <1>0, <1>5, <2>2 DEF Signal, ProcessOK
  <2> QED BY <2>1, <2>2
<1>6. ASSUME NEW s \in Servers, Connect(s) \/ Answered(s) PROVE ProcInv'
  <2>1. phase # "exited" \/ Answered(s)
    BY <1>6 DEF Connect, ProcessOK
  <2>2. ProcessOK'
    BY <1>6 DEF Connect, Answered, ProcessOK
  <2>3. RequestTypeOK' /\ RequestOK'
    BY <1>6 DEF Connect, Answered, gatewayVars, RequestTypeOK, RequestOK, BeforeForward,
              Unanswered, Forwarding, HangUpStopsRelay
  <2> QED BY <2>2, <2>3
<1>7. CASE GatewayReceives
  <2>1. phase # "preflight" /\ UNCHANGED <<processVars, reached>>
    BY <1>7 DEF GatewayReceives, ProcessOK
  <2>2. ProcessOK'
    BY <2>1 DEF processVars, ProcessOK
  <2> QED BY <1>7, <2>1, <2>2, ArrivesOK DEF GatewayReceives, processVars
<1>8. CASE GatewayWorks \/ BrokerAnswers
  <2>1. /\ phase # "exited" /\ UNCHANGED <<processVars, reached>>
        /\ RequestProceeds \/ UpstreamResponds
    BY <1>8 DEF GatewayWorks, BrokerAnswers
  <2>2. RequestTypeOK' /\ RequestOK'
    BY <2>1, ProceedsOK, GatewayAssumption DEF processVars
  <2>3. stage # "routing"
    BY <2>1 DEF RequestOK, BeforeForward, Unanswered, RequestProceeds, UpstreamResponds,
           BodyChunk, BodyEnds, DeadlineFires, UpstreamEnds, UpstreamBreaks, IdleTimeout,
           UpstreamLost, ClientCloses, HangUpCancels
  <2>4. ProcessOK'
    BY <2>1, <2>3 DEF processVars, ProcessOK
  <2> QED BY <2>2, <2>4
<1>9. CASE BrokerAccepts
  BY <1>0, <1>9 DEF BrokerAccepts, processVars, ProcessOK
<1> QED BY <1>1, <1>2, <1>3, <1>4, <1>5, <1>6, <1>7, <1>8, <1>9 DEF ProcessNext

LEMMA ProcInductive == ProcessSpec => []ProcInv
BY InitProcInv, NextProcInv, PTL DEF ProcessSpec

-----------------------------------------------------------------------------
(* What the gateways and the process promise *)

\* Whatever order the deadline, the upstream's answer or failure, the hang-up
\* and the end of the process come in, writeHead is called at most once.
THEOREM OneAnswer == ProcessSpec => []AnsweredOnce
<1>1. ProcInv => AnsweredOnce
  BY DEF ProcInv, RequestTypeOK, RequestOK, Unanswered, Forwarding, AnsweredOnce
<1> QED BY <1>1, ProcInductive, PTL

\* A relayed answer ends only when the upstream's did; a broken one is cut.
THEOREM WholeOrCut == ProcessSpec => []EndedIsWhole
<1>1. ProcInv => EndedIsWhole
  BY DEF ProcInv, RequestTypeOK, RequestOK, Unanswered, Forwarding, EndedIsWhole
<1> QED BY <1>1, ProcInductive, PTL

\* Nothing is relayed to a client that hung up, and the broker works for it
\* only when the deadline had already answered 502.
THEOREM HangUpCancelsRelay == ProcessSpec => []HangUpStopsRelay
<1>1. ProcInv => HangUpStopsRelay
  BY DEF ProcInv, RequestOK
<1> QED BY <1>1, ProcInductive, PTL

\* What is read of a body that is not refused, in chunks of any size.
BodyWithinLimit == stage # "refused" => size <= MaxBody

LEMMA BodyFits == ProcessSpec => []BodyWithinLimit
<1>1. ProcessInit => BodyWithinLimit
  BY GatewayAssumption DEF ProcessInit, GatewayInit, BodyWithinLimit
<1>2. ProcInv /\ BodyWithinLimit /\ [ProcessNext]_pvars => BodyWithinLimit'
  <2> SUFFICES ASSUME ProcInv, BodyWithinLimit, [ProcessNext]_pvars
               PROVE  BodyWithinLimit'
    OBVIOUS
  <2>1. CASE stage' = "refused" \/ (UNCHANGED size /\ stage # "refused")
    BY <2>1 DEF BodyWithinLimit
  <2>2. CASE stage = "refused" /\ UNCHANGED stage
    BY <2>2 DEF BodyWithinLimit
  <2>3. CASE \E n \in ChunkSizes : BodyChunk(n)
    BY <2>3, GatewayAssumption
       DEF BodyChunk, TooLarge, BodyWithinLimit, ProcInv, RequestTypeOK
  <2>4. CASE RequestArrives
    BY <2>1, <2>4 DEF RequestArrives, RouteRefuses, RouteForwards, ReadJsonBody, Refuse, Forward
  <2>5. CASE RequestProceeds
    BY <2>1, <2>2, <2>3, <2>5
       DEF RequestProceeds, BodyEnds, Forward, Refuse, DeadlineFires, UpstreamEnds,
           UpstreamBreaks, IdleTimeout, ClientCloses
  <2>6. CASE UNCHANGED <<stage, size>>
    BY <2>6 DEF BodyWithinLimit
  <2>7. ASSUME NEW code, Exit(code) PROVE UNCHANGED <<stage, size>>
    BY <2>7 DEF Exit
  <2>8. CASE UNCHANGED pvars \/ Preflight \/ Bind \/ BindFails \/ CloseCompletes
             \/ BrokerAccepts \/ BrokerAnswers
    BY <2>6, <2>7, <2>8
       DEF pvars, gatewayVars, Preflight, Bind, BindFails, CloseCompletes, BrokerAccepts,
           BrokerAnswers, UpstreamResponds
  <2>9. ASSUME NEW sig, Signal(sig) PROVE BodyWithinLimit'
    BY <2>6, <2>7, <2>9 DEF Signal, gatewayVars
  <2>10. ASSUME NEW s, Connect(s) \/ Answered(s) PROVE BodyWithinLimit'
    BY <2>6, <2>10 DEF Connect, Answered, gatewayVars
  <2> QED BY <2>4, <2>5, <2>8, <2>9, <2>10 DEF ProcessNext, GatewayReceives, GatewayWorks
<1> QED BY <1>1, <1>2, ProcInductive, PTL DEF ProcessSpec

\* Neither gateway forwards what it refused, and the private one no body over
\* MAX_BODY_BYTES, also when it came in chunks and no length was declared.
THEOREM ForwardedWasAccepted == ProcessSpec => []OnlyAcceptedForwarded
<1>1. ProcInv /\ BodyWithinLimit => OnlyAcceptedForwarded
  BY DEF ProcInv, RequestTypeOK, RequestOK, BeforeForward, Unanswered, Forwarding,
         BodyWithinLimit, OnlyAcceptedForwarded
<1> QED BY <1>1, ProcInductive, BodyFits, PTL
=============================================================================
