----------------------------- MODULE MCSelfHeal -----------------------------
(***************************************************************************)
(* An instance of SelfHeal for TLC: two tasks, one reason of each kind     *)
(* that the question of a run needs, and two decisions.                    *)
(***************************************************************************)
EXTENDS SelfHeal

SecondAfterFirst == <<{}, {1}>>
OldKinds == <<None, None>>
Blame(wrapped, causes) == [wrapped |-> wrapped, causes |-> causes]

\* Candidates that all failed on a known defect, or one of them on something else.
Aggregates == {Blame(TRUE, {"gitignore", "capability"}), Blame(TRUE, {"scope", "model"}),
               Blame(TRUE, {"gitignore", "model"})}
=============================================================================
