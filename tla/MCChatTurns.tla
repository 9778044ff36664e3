----------------------------- MODULE MCChatTurns -----------------------------
(* Instances of ChatTurns for TLC.                                         *)
EXTENDS ChatTurns, TLC

CONSTANTS u1, u2, r1, r2, r3

\* u1 asks every question; any other account only owns conversations.
OneAsker == [r \in Requests |-> u1]

SessionSymmetry == Permutations(Sessions)

=============================================================================
