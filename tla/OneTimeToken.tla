----------------------------- MODULE OneTimeToken -----------------------------
(***************************************************************************)
(* What a single-use bootstrap secret promises: at most one request ever   *)
(* redeems it, and the winner is never replaced.                           *)
(***************************************************************************)
CONSTANTS Tokens, Requests, Nobody

VARIABLE owner      \* owner[t]: the request that redeemed t, or Nobody

Init == owner = [t \in Tokens |-> Nobody]

Redeem(t, r) ==
    /\ owner[t] = Nobody
    /\ owner' = [owner EXCEPT ![t] = r]

Next == \E t \in Tokens, r \in Requests : Redeem(t, r)

Spec == Init /\ [][Next]_owner
==============================================================================
