----------------------------- MODULE MCRouting -----------------------------
(***************************************************************************)
(* An instance of Routing for TLC: one backend that every role may use and *)
(* no limits of the user's own, so that only the backend's can stop it.    *)
(***************************************************************************)
EXTENDS Routing

EachRole(x) == [r \in {"conductor", "coder", "qa"} |-> x]

Nothing   == EachRole({})
Anything  == EachRole(Backend)
NoWish    == EachRole(<<>>)
One       == <<1>>
OneToken  == EachRole(1)
Lenient   == [independent |-> FALSE, local |-> TRUE, stopShort |-> TRUE, confidence |-> FALSE]
=============================================================================
