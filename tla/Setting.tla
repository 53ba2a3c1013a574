------------------------------ MODULE Setting ------------------------------
(* What the parts of a project have in common. *)
CONSTANTS
    None,   \* no value
    Env     \* what may happen around the parts; each says what it knows of
=============================================================================
