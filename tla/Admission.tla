------------------------------ MODULE Admission -----------------------------
(***************************************************************************)
(* How a device gets a pairing: POST /oauth/pair of broker/src/server.ts   *)
(* and POST /admin/enrollment of broker/src/admin-server.ts, composing the *)
(* rate limiter, the enrollment codes and the pairing store.               *)
(*                                                                         *)
(* The handler awaits the request body after the rate limiter and runs to  *)
(* its end without another await: the code is consumed first, the pairing  *)
(* created next.  The rest of the handshake is in BrokerServer.tla; here   *)
(* it can only evict expired pairings.                                     *)
(***************************************************************************)
EXTENDS EnrollmentStore

CONSTANTS Pairs, Nonces, MaxRecords, MaxTtl, MaxNonceTtl,
          Addresses, MaxAttempts, Window,
          NoCode,     \* a pairing that was not created
          MaxWaiting  \* bound on requests of one address awaiting their body

ASSUME AdmissionAssumption ==
    /\ NoCode \notin Codes
    /\ MaxAttempts \in Nat \ {0} /\ Window \in Nat \ {0} /\ MaxWaiting \in Nat \ {0}

VARIABLES drawn, status, expiresAt, device, hasHandle, states,
          callbackHandles, nonces, accepted,
          startedAt, count, admitted,
          waiting,     \* requests past the limiter, body not read
          admittedWith \* the code each pairing was created with (history)

Pairing == INSTANCE PairingStore
Limiter == INSTANCE RateLimiter

pairingVars == <<drawn, status, expiresAt, device, hasHandle, states,
                 callbackHandles, nonces, accepted>>
limiterVars == <<startedAt, count, admitted>>
admissionVars == <<now, pairingVars, codeVars, limiterVars, waiting, admittedWith>>

AdmissionInit ==
    /\ Pairing!Init
    /\ Init
    /\ Limiter!Init
    /\ waiting = [a \in Addresses |-> 0]
    /\ admittedWith = [p \in Pairs |-> NoCode]

(* POST /admin/enrollment: a code for the device the operator approved. *)
AdminEnrollment ==
    /\ \/ \E c \in Codes, d \in Devices, ttl \in CodeTtls : Issue(c, d, ttl)
       \/ IssueRefused
    /\ UNCHANGED <<pairingVars, limiterVars, waiting, admittedWith>>

(* POST /oauth/pair reaches the limiter: 429, or the body is awaited. *)
PairArrives(a) ==
    /\ \/ /\ waiting[a] < MaxWaiting
          /\ Limiter!AllowPairAttempt(a)
          /\ waiting' = [waiting EXCEPT ![a] = @ + 1]
       \/ /\ Limiter!RefusePairAttempt(a)
          /\ UNCHANGED waiting
    /\ UNCHANGED <<pairingVars, codeVars, admittedWith>>

(* Mutated form: the pairing is created and the code stays usable. *)
PairCreates_KeepsCode(p, c, d, ttl) ==
    /\ Pairing!Create(p, d, ttl)
    /\ admittedWith' = [admittedWith EXCEPT ![p] = c]
    /\ UNCHANGED codeVars

Approved(c, d) == ConsumeResult(c, d) = "ok"

PairCreates(p, c, d, ttl) ==
    /\ Consume(c, d)
    /\ Pairing!Create(p, d, ttl)
    /\ admittedWith' = [admittedWith EXCEPT ![p] = c]

BodyRead(a) ==
    /\ waiting[a] > 0
    /\ waiting' = [waiting EXCEPT ![a] = @ - 1]
    /\ UNCHANGED limiterVars

(* 201: the code is spent on the device that signed up with it. *)
PairAccepted(a, p, c, d) ==
    /\ BodyRead(a)
    /\ Approved(c, d)
    /\ \E ttl \in 1..MaxTtl : PairCreates(p, c, d, ttl)

(* 400: create throws on a full store or on keys of the wrong type; the    *)
(* code is already spent.                                                  *)
PairFails(a, c, d, keysOk) ==
    /\ BodyRead(a)
    /\ Approved(c, d)
    /\ ~keysOk \/ ~Pairing!HasCapacity
    /\ Consume(c, d)
    /\ Pairing!EvictExpired
    /\ UNCHANGED admittedWith

(* 403: no approval, no pairing. *)
PairDenied(a, c, d) ==
    /\ BodyRead(a)
    /\ ~Approved(c, d)
    /\ Consume(c, d)
    /\ UNCHANGED <<pairingVars, admittedWith>>

(* 400 or 415: a body without usable keys never reaches the code check. *)
PairMalformed(a) ==
    /\ BodyRead(a)
    /\ UNCHANGED <<now, pairingVars, codeVars, admittedWith>>

(* An OAuth callback evicts expired pairings (see BrokerServer). *)
CallbackEvicts ==
    /\ Pairing!EvictExpired
    /\ UNCHANGED <<codeVars, limiterVars, waiting, admittedWith>>

TimePasses ==
    /\ Tick
    /\ UNCHANGED <<pairingVars, limiterVars, waiting, admittedWith>>

AdmissionNext ==
    \/ TimePasses
    \/ AdminEnrollment
    \/ CallbackEvicts
    \/ \E a \in Addresses :
        \/ PairArrives(a)
        \/ PairMalformed(a)
        \/ \E c \in Codes, d \in Devices :
            \/ \E p \in Pairs : PairAccepted(a, p, c, d)
            \/ \E keysOk \in BOOLEAN : PairFails(a, c, d, keysOk)
            \/ PairDenied(a, c, d)

AdmissionSpec == AdmissionInit /\ [][AdmissionNext]_admissionVars

-----------------------------------------------------------------------------
(* Properties *)

(* Every pairing that was ever created goes back to a code the operator    *)
(* issued for that very device, redeemed once and for no other pairing,    *)
(* whatever requests race or fail.                                         *)
PairingsApproved ==
    \A p \in Pairs \cap drawn :
        /\ admittedWith[p] \in issued
        /\ approved[admittedWith[p]] = device[p]
        /\ redemptions[admittedWith[p]] = 1
        /\ \A q \in Pairs \cap drawn : admittedWith[q] = admittedWith[p] => q = p

(* The limiter's bound on any stretch of Window instants (RateLimiter).    *)
SlidingRateBounded == Limiter!SlidingRateBounded

(* Nobody is turned away with budget left (RateLimiter).                   *)
RefusedOnlyWhenSpent == Limiter!RefusedOnlyWhenSpent
=============================================================================
