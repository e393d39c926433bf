------------------------------ MODULE MCStreams ------------------------------
(***************************************************************************)
(* SessionStreams with one tab per seat and a connection to spare, so that *)
(* a tab can come back before its old connection is noticed dead.          *)
(***************************************************************************)
EXTENDS SessionStreams, TLC

CONSTANTS host, guest

MCSeatOf == [t \in Tabs |-> IF t = host THEN 0 ELSE 1]

\* Connections are interchangeable.
ConnsAlike == Permutations(Conns)
=============================================================================
