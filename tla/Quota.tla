--------------------------------- MODULE Quota --------------------------------
(***************************************************************************)
(* What the rate limiter promises, without its memory: per key a window    *)
(* that opens with a request, admits Limit of them and closes by itself      *)
(* when its length has passed.                                             *)
(***************************************************************************)
EXTENDS Integers

CONSTANTS Keys, Limit, Window, Closed

VARIABLES now, open, \* per key: Closed, or when it opened and what it took
          answer     \* the last request: its key and whether it was admitted

TimeLeft(w) == w # Closed /\ now' - w.start < Window

Init == now = 0 /\ open = [k \in Keys |-> Closed] /\ answer = Closed

Opens(k) ==
  /\ open[k] = Closed
  /\ open' = [open EXCEPT ![k] = [start |-> now, count |-> 1]]
  /\ answer' = [key |-> k, admitted |-> TRUE]
  /\ UNCHANGED now

Counts(k) ==
  /\ open[k] # Closed
  /\ open' = [open EXCEPT ![k].count = @ + 1]
  /\ answer' = [key |-> k, admitted |-> open[k].count < Limit]
  /\ UNCHANGED now

Passes ==
  /\ now' = now + 1
  /\ open' = [k \in Keys |-> IF TimeLeft(open[k]) THEN open[k] ELSE Closed]
  /\ UNCHANGED answer

Next == Passes \/ \E k \in Keys : Opens(k) \/ Counts(k)

Spec == Init /\ [][Next]_<<now, open, answer>>
==============================================================================
