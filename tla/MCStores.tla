------------------------------- MODULE MCStores -------------------------------
(***************************************************************************)
(* The stores of accounts and of results, in memory and in Postgres, each  *)
(* under the calls of its handlers on a small instance.  Accounts and      *)
(* results share no table, so that interleaving them would show nothing:   *)
(* in a behaviour one part moves and the other rests.                      *)
(***************************************************************************)
EXTENDS AuthStores, Results, TLC

\* Names and addresses in lower case, two of which look alike; and a text
\* that looks like a name and is none.
MCNames == {<<"a", "a", "a">>, <<"b", "b", "b">>}
MCEmails == {<<"a", "@", "a", ".", "a">>, <<"f", "@", "a", ".", "a">>,
             <<"b", "@", "a", ".", "a">>}
MCTexts == MCNames \cup MCEmails \cup {<<"f", "a", "a">>}

P(pegging, hand, crib) == [pegging |-> pegging, hand |-> hand, crib |-> crib]

\* A narrow win of seat 0, and one of seat 1 whose last count goes over.
MCOutcomes == {[s \in Seat |-> IF s = 0 THEN P(3, 4, 3) ELSE P(2, 5, 2)],
               [s \in Seat |-> IF s = 0 THEN P(1, 2, 0) ELSE P(4, 8, 0)]}

Interchangeable == Permutations(Accounts) \cup Permutations(Games)

VARIABLE part
MCInit == part \in {"accounts", "results"} /\ Init /\ ResultsInit
MCNext == /\ UNCHANGED part
          /\ \/ part = "accounts" /\ Next /\ UNCHANGED resultVars
             \/ part = "results" /\ ResultsNext /\ UNCHANGED vars
MCSpec == MCInit /\ [][MCNext]_<<vars, resultVars, part>>
===============================================================================
