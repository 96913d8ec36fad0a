-------------------------- MODULE PairingLifecycle --------------------------
(***************************************************************************)
(* What the broker's pairing handshake promises, with none of the store's  *)
(* indexes: a pairing walks                                                *)
(*                                                                         *)
(*     pending -> callback_state_consumed -> authorized -> enrolled        *)
(*                                                                         *)
(* one link at a time and only before its deadline, an operator may revoke *)
(* it at any point, and once it is overdue it may be forgotten for good.   *)
(* PairingStore.tla is the implementation and is shown to refine this.     *)
(***************************************************************************)
EXTENDS Naturals

CONSTANTS Pairs, MaxTtl

VARIABLES clock, phase, deadline

lifecycleVars == <<clock, phase, deadline>>

Phase == {"none", "pending", "callback_state_consumed", "authorized",
          "enrolled", "revoked", "gone"}

(* Phases in which the broker still holds a record of the pairing. *)
Held == Phase \ {"none", "gone"}

LifecycleInit ==
    /\ clock = 0
    /\ phase = [p \in Pairs |-> "none"]
    /\ deadline = [p \in Pairs |-> 0]

Overdue == {p \in Pairs : phase[p] \in Held /\ clock >= deadline[p]}

(* The phases once the overdue pairings in S have been forgotten. *)
Forgetting(S) == [p \in Pairs |-> IF p \in S THEN "gone" ELSE phase[p]]

Forget(S) ==
    /\ phase' = Forgetting(S)
    /\ UNCHANGED <<clock, deadline>>

Begin(p, ttl, S) ==
    /\ phase[p] = "none"
    /\ phase' = [Forgetting(S) EXCEPT ![p] = "pending"]
    /\ deadline' = [deadline EXCEPT ![p] = clock + ttl]
    /\ UNCHANGED clock

Advance(p, from, to, S) ==
    /\ phase[p] = from
    /\ clock < deadline[p]
    /\ phase' = [Forgetting(S) EXCEPT ![p] = to]
    /\ UNCHANGED <<clock, deadline>>

RevokePairing(p) ==
    /\ phase[p] \in Held
    /\ phase' = [phase EXCEPT ![p] = "revoked"]
    /\ UNCHANGED <<clock, deadline>>

Pass ==
    /\ clock' = clock + 1
    /\ UNCHANGED <<phase, deadline>>

LifecycleNext ==
    \/ Pass
    \/ \E p \in Pairs : RevokePairing(p)
    \/ \E S \in SUBSET Overdue :
        \/ Forget(S)
        \/ \E p \in Pairs :
            \/ \E ttl \in 1..MaxTtl : Begin(p, ttl, S)
            \/ Advance(p, "pending", "callback_state_consumed", S)
            \/ Advance(p, "callback_state_consumed", "authorized", S)
            \/ Advance(p, "authorized", "enrolled", S)

LifecycleSpec == LifecycleInit /\ [][LifecycleNext]_lifecycleVars
=============================================================================
