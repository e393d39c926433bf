------------------------------ MODULE MCAccounts ------------------------------
(***************************************************************************)
(* The account endpoints and the limiter in front of them, each on a small *)
(* instance.  They share no state, so that interleaving them would show    *)
(* nothing: in a behaviour one part moves and the other rests.             *)
(***************************************************************************)
EXTENDS Accounts, RateLimiter, TLC

CONSTANTS q1, q2

\* A name in two spellings, and an address.
MCUsernames == {<<"a", "a", "a">>, <<" ", "A", "a", "a">>}
MCAddresses == {<<"b", "@", "a", ".", "a">>}
Interchangeable == Permutations(Reqs)

VARIABLE part
MCInit == part \in {"accounts", "limiter"} /\ Init /\ LimiterInit
MCNext == /\ UNCHANGED part
          /\ \/ part = "accounts" /\ Next /\ UNCHANGED limiterVars
             \/ part = "limiter" /\ LimiterNext /\ UNCHANGED vars
MCSpec == MCInit /\ [][MCNext]_<<vars, limiterVars, part>>
==============================================================================
