---------------------------- MODULE AccessContract ----------------------------
(***************************************************************************)
(* What the relay's cached access checks promise: a verdict about a person *)
(* is right once nothing about the person's access to the channel changed  *)
(* for Bound ticks.  Until then a verdict may go either way, so a removal  *)
(* takes effect within Bound ticks and so does an addition, on every pod   *)
(* and whichever messages between the pods are lost.                       *)
(***************************************************************************)
EXTENDS Naturals

CONSTANTS People, Bound

VARIABLES
    access,   \* who has access to the channel
    quiet,    \* ticks since something about a person's access changed
    granted,  \* verdicts of the last step: allowed
    denied    \* verdicts of the last step: refused

contractVars == <<access, quiet, granted, denied>>

ContractInit ==
    /\ access \subseteq People
    /\ quiet = [p \in People |-> Bound + 1]
    /\ granted = {} /\ denied = {}

\* Memberships, the visibility or the channel itself change for some people.
Change ==
    \E S \in SUBSET People :
        /\ access' \subseteq People
        /\ \A p \in People \ S : p \in access' <=> p \in access
        /\ quiet' = [p \in People |-> IF p \in S THEN 0 ELSE quiet[p]]
        /\ granted' = {} /\ denied' = {}

MayGrant(p) == p \in access \/ quiet[p] <= Bound
MayDeny(p)  == p \notin access \/ quiet[p] <= Bound

\* A handler gives its verdicts: a REQ, an ingest gate, a fan-out.
Verdicts ==
    \E G, D \in SUBSET People :
        /\ \A p \in G : MayGrant(p)
        /\ \A p \in D : MayDeny(p)
        /\ granted' = G /\ denied' = D
        /\ UNCHANGED <<access, quiet>>

Later(n) == IF n > Bound THEN n ELSE n + 1

Pass ==
    /\ quiet' = [p \in People |-> Later(quiet[p])]
    /\ granted' = {} /\ denied' = {}
    /\ UNCHANGED access

ContractSpec == ContractInit /\ [][Change \/ Verdicts \/ Pass]_contractVars
=============================================================================
