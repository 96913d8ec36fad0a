----------------------------- MODULE RateLimiter ----------------------------
(***************************************************************************)
(* allowPairAttempt of broker/src/server.ts: a fixed-window attempt        *)
(* counter per client address.  Every attempt first deletes the entries of *)
(* all addresses whose window has passed.  Admission.tla runs it in front  *)
(* of the pairing handler.                                                 *)
(***************************************************************************)
EXTENDS Naturals, Functions

CONSTANTS
    Addresses,    \* remote addresses
    MaxAttempts,  \* maxPairAttempts
    Window,       \* rateLimitWindowMs
    Horizon       \* bound on the clock

VARIABLES
    now,
    startedAt,  \* entry.startedAtMs
    count,      \* entry.count, 0 without an entry
    admitted    \* attempts let through, per address and instant (history)

Init ==
    /\ now = 0
    /\ startedAt = [a \in Addresses |-> 0]
    /\ count = [a \in Addresses |-> 0]
    /\ admitted = [a \in Addresses |-> [t \in 0..Horizon |-> 0]]

(* Mutated forms, one slip each, of the definitions that follow. *)
CurrentCount_NeverReset(a) == count[a]
CurrentCount_EarlyReset(a) == IF now - startedAt[a] + 1 >= Window THEN 0 ELSE count[a]

(* The count an address has left after the deletion of stale entries. *)
CurrentCount(a) == IF now - startedAt[a] >= Window THEN 0 ELSE count[a]

Refused(a) == CurrentCount(a) >= MaxAttempts

AllowPairAttempt(a) ==
    /\ ~Refused(a)
    /\ count' = [b \in Addresses |-> IF b = a THEN CurrentCount(a) + 1
                                     ELSE CurrentCount(b)]
    /\ startedAt' = IF CurrentCount(a) = 0
                    THEN [startedAt EXCEPT ![a] = now] ELSE startedAt
    /\ admitted' = [admitted EXCEPT ![a][now] = @ + 1]
    /\ UNCHANGED now

RefusePairAttempt(a) ==
    /\ Refused(a)
    /\ count' = [b \in Addresses |-> CurrentCount(b)]
    /\ UNCHANGED <<now, startedAt, admitted>>

-----------------------------------------------------------------------------
(* Properties *)

(* Attempts of an address let through at the instants in S. *)
AdmittedIn(a, S) ==
    FoldFunctionOnSet(+, 0, admitted[a], S)

(* Fixed windows bound the rate over ANY window: no stretch of Window      *)
(* instants lets through 2 * MaxAttempts attempts of one address.          *)
SlidingRateBounded ==
    \A a \in Addresses : \A t \in 0..now :
        AdmittedIn(a, {u \in t..now : u < t + Window}) < 2 * MaxAttempts

(* Only spent budget refuses: a refused address was let through exactly    *)
(* MaxAttempts times since its window began, less than Window ago, so      *)
(* neither other addresses nor its own refusals use its budget.            *)
RefusedOnlyWhenSpent ==
    \A a \in Addresses : Refused(a) =>
        AdmittedIn(a, {u \in startedAt[a]..now : now < startedAt[a] + Window})
            = MaxAttempts
=============================================================================
