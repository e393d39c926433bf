------------------------------ MODULE Delivery ------------------------------
(***************************************************************************)
(* What the event streams of a game promise, without saying how: the log   *)
(* of a game only grows, and what a browser tab has applied is at every    *)
(* moment a beginning of the log, applied in order and never taken back.   *)
(***************************************************************************)
EXTENDS Naturals, Sequences

CONSTANT Tabs \* the browser tabs that follow the game

VARIABLES log, \* the events of the game
          seen \* per tab, the events it has applied

IsBeginning(s, t) == Len(s) <= Len(t) /\ \A i \in 1..Len(s) : s[i] = t[i]

Init == seen = [t \in Tabs |-> <<>>]

Publish == IsBeginning(log, log') /\ UNCHANGED seen

Apply(t) ==
  \E n \in Len(seen[t])..Len(log) :
    /\ IsBeginning(seen[t], log)
    /\ seen' = [seen EXCEPT ![t] = SubSeq(log, 1, n)]
    /\ UNCHANGED log

Next == Publish \/ \E t \in Tabs : Apply(t)

Spec == Init /\ [][Next]_<<log, seen>>
=============================================================================
