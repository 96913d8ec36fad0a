---------------------------- MODULE BrokerProcess ----------------------------
(***************************************************************************)
(* The broker process (src/broker/src/index.ts) and one request through    *)
(* one of its gateways (Gateway): the preflight with the protected secret  *)
(* files (runtime-secrets.ts), the four loopback listeners bound one after *)
(* another, the close of all of them when one cannot bind, the             *)
(* SIGINT/SIGTERM shutdown, and the request that is accepted, read,        *)
(* forwarded to the broker's own listener or cut off meanwhile.  `conns`   *)
(* counts the other requests in progress on each server: server.close()    *)
(* stops accepting at once and completes when no request is in progress.   *)
(***************************************************************************)
EXTENDS Gateway, Sequences, SequencesExt

CONSTANTS
  MaxConns,   \* bound on a server's other concurrent requests
  Modes       \* permission bits a secret file may have, as sets of Bits

Bits == [who : {"owner", "group", "other"}, may : {"r", "w", "x"}]

ASSUME ProcessAssumption == MaxConns \in Nat \ {0} /\ Modes \subseteq SUBSET Bits

VARIABLES
  phase,      \* "preflight", "binding", "closing", "up", "draining", "exited"
  secrets,    \* the secret file as it was when it was accepted
  listening,  \* servers that accept connections
  conns,      \* other requests in progress per server
  armed,      \* signals whose once() handler is still installed
  exit,       \* "none", "0", "1", or "killed" by a signal's default action
  reached     \* the broker's listener accepted the forwarded request

processVars == <<phase, secrets, listening, conns, armed, exit>>
pvars == <<processVars, reached, gatewayVars>>

Signals == {"SIGINT", "SIGTERM"}

\* The order in which startBrokerDeployment binds.
BindOrder == <<"public", "admin", "gateway", "privateGateway">>

Servers == Range(BindOrder)

\* What lstat tells of a secret file, and what is in it.
Files ==
  [type : {"file", "symlink"}, owner : {"service", "root", "another"},
   group : {"service", "another"}, mode : Modes,
   content : {"good", "empty", "short", "malformed"}]

NoFile == [type |-> "missing"]

ProcessInit ==
  /\ GatewayInit /\ reached = FALSE
  /\ phase = "preflight" /\ secrets = NoFile /\ listening = {}
  /\ conns = [s \in Servers |-> 0] /\ armed = {} /\ exit = "none"

\* The server a gateway's requests arrive at.
GatewayServer == IF kind = "public" THEN "gateway" ELSE "privateGateway"

\* The client still waits for its answer.
InProgress ==
  stage # "routing" /\ client = "open" /\ reply \notin {"ended", "cut"}

AtBroker == reached /\ upstream \in {"pending", "body"}

Quiet == (\A s \in Servers : conns[s] = 0) /\ ~InProgress /\ ~AtBroker

\* The end of the process closes every socket it has.
Exit(code) ==
  /\ phase' = "exited" /\ exit' = code /\ listening' = {} /\ armed' = {}
  /\ conns' = [s \in Servers |-> 0]
  /\ reply' = IF InProgress THEN "cut" ELSE reply
  /\ upstream' = IF upstream \in {"pending", "body"} THEN "gone" ELSE upstream
  /\ deadline' = FALSE
  /\ UNCHANGED <<secrets, reached, kind, stage, size, settled, client, status, heads>>

May(who, may) == [who : who, may : may]

\* process.getuid() is there on the platforms the broker is deployed on.
ServiceOwned(file) == file.owner = "service"

\* (mode & 0o027) === 0 and (mode & 0o040) === 0o040.
RootControlled(file) ==
  /\ file.owner = "root" /\ file.group = "service"
  /\ file.mode \cap (May({"group"}, {"w"}) \cup May({"other"}, {"r", "w", "x"})) = {}
  /\ May({"group"}, {"r"}) \subseteq file.mode

\* readProtectedText: lstat refuses a link; (mode & 0o077) === 0 when the
\* service owns the file.
ReadProtectedText(file) ==
  /\ file.type = "file"
  /\ ServiceOwned(file) \/ RootControlled(file)
  /\ ServiceOwned(file)
       => file.mode \cap May({"group", "other"}, {"r", "w", "x"}) = {}

\* Then its content: not empty, long enough, canonical base64 of 32 bytes.
Loaded(file) == ReadProtectedText(file) /\ file.content = "good"

\* composeBrokerDeployment: the environment is parsed, the secret files are
\* loaded (one stands for the three), and both stores are read once.
Preflight ==
  /\ phase = "preflight"
  /\ \/ Exit("1")
     \/ \E file \in Files :
          /\ Loaded(file)
          /\ secrets' = file /\ phase' = "binding"
          /\ UNCHANGED <<listening, conns, armed, exit, reached, gatewayVars>>

ToBind == BindOrder[Len(SelectSeq(BindOrder, LAMBDA s : s \in listening)) + 1]

\* Once the last listener is up the signal handlers are installed.
Bind ==
  /\ phase = "binding"
  /\ listening' = listening \cup {ToBind}
  /\ IF listening' = Servers
       THEN phase' = "up" /\ armed' = Signals
       ELSE UNCHANGED <<phase, armed>>
  /\ UNCHANGED <<secrets, conns, exit, reached, gatewayVars>>

\* Plausible defect: the listeners already bound are not closed.
BindFails_LeavesBound ==
  /\ phase = "binding" /\ phase' = "closing"
  /\ UNCHANGED <<secrets, listening, conns, armed, exit, reached, gatewayVars>>

\* EADDRINUSE and the like: close() stops every listener, then the error is
\* rethrown.
BindFails ==
  /\ phase = "binding" /\ phase' = "closing"
  /\ listening' = {}
  /\ UNCHANGED <<secrets, conns, armed, exit, reached, gatewayVars>>

\* close(): every server's close callback has run.
Closed == Quiet

\* After a failed start only process.exitCode is set: the process ends when
\* nothing is left in its event loop, no timer and no upstream request either.
\* A shutdown calls process.exit(0).
CloseCompletes ==
  /\ Closed
  /\ \/ /\ phase = "closing" /\ listening = {}
        /\ ~deadline /\ upstream \notin {"pending", "body"}
        /\ Exit("1")
     \/ phase = "draining" /\ Exit("0")

\* A signal runs its handler once; without a handler the default action ends
\* the process, requests in progress and all.
Signal(sig) ==
  /\ phase # "exited"
  /\ \/ /\ sig \in armed
        /\ armed' = armed \ {sig}
        /\ phase' = "draining" /\ listening' = {}
        /\ UNCHANGED <<secrets, conns, exit, reached, gatewayVars>>
     \/ sig \notin armed /\ Exit("killed")

Connect(s) ==
  /\ s \in listening /\ conns[s] < MaxConns
  /\ conns' = [conns EXCEPT ![s] = @ + 1]
  /\ UNCHANGED <<phase, secrets, listening, armed, exit, reached, gatewayVars>>

Answered(s) ==
  /\ conns[s] > 0
  /\ conns' = [conns EXCEPT ![s] = @ - 1]
  /\ UNCHANGED <<phase, secrets, listening, armed, exit, reached, gatewayVars>>

-----------------------------------------------------------------------------
\* The followed request.  It is received while its gateway listens; a request
\* under way goes on after that.

GatewayReceives ==
  /\ GatewayServer \in listening /\ RequestArrives
  /\ UNCHANGED <<processVars, reached>>

GatewayWorks ==
  /\ phase # "exited" /\ RequestProceeds
  /\ UNCHANGED <<processVars, reached>>

\* The upstream is the process's own broker: it is reached while it listens,
\* and only then answers.  A connection refused is UpstreamBreaks.
BrokerAccepts ==
  /\ upstream = "pending" /\ ~reached /\ "public" \in listening
  /\ reached' = TRUE
  /\ UNCHANGED <<processVars, gatewayVars>>

BrokerAnswers ==
  /\ phase # "exited" /\ reached /\ UpstreamResponds
  /\ UNCHANGED <<processVars, reached>>

ProcessNext ==
  \/ Preflight \/ Bind \/ BindFails \/ CloseCompletes
  \/ \E sig \in Signals : Signal(sig)
  \/ \E s \in Servers : Connect(s) \/ Answered(s)
  \/ GatewayReceives \/ GatewayWorks \/ BrokerAccepts \/ BrokerAnswers

ProcessSpec == ProcessInit /\ [][ProcessNext]_pvars

\* Whatever interrupts the followed request's forward: its two timers.
TimerFires ==
  /\ phase # "exited" /\ (DeadlineFires \/ IdleTimeout)
  /\ UNCHANGED <<processVars, reached>>

\* The client sends its body to the end or goes away.
ClientMoves ==
  /\ phase # "exited" /\ stage = "reading" /\ (BodyEnds \/ ClientCloses)
  /\ UNCHANGED <<processVars, reached>>

\* Node arms the deadline with setTimeout and the idle timer with the request's
\* `timeout` option; close callbacks run; the other requests are answered.
\* Nothing is assumed of the broker's answer to the followed request.
ProcessFairSpec ==
  /\ ProcessSpec /\ WF_pvars(CloseCompletes)
  /\ WF_pvars(TimerFires) /\ WF_pvars(ClientMoves)
  /\ \A s \in Servers : WF_pvars(Answered(s))

-----------------------------------------------------------------------------
\* A start that failed and a shutdown that began both end the process, whatever
\* the followed request is doing and whether or not the broker answers it.
ShutdownEnds == phase \in {"closing", "draining"} ~> phase = "exited"
=============================================================================
