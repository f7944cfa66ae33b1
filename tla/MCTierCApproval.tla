--------------------------- MODULE MCTierCApproval ---------------------------
(* TierCApproval for TLC: proposals are interchangeable, and so are the     *)
(* zones and outcomes they command.                                         *)
EXTENDS TierCApproval, TLC

AllAssignments == [Proposals -> Keys]
\* Each proposal on a zone of its own.
InOrder        == {[p \in Proposals |-> p]}

Symmetry == Permutations(Proposals) \cup Permutations(Keys)
=============================================================================
