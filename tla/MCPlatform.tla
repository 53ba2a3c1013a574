----------------------------- MODULE MCPlatform -----------------------------
(***************************************************************************)
(* An instance of Platform for TLC.  The components have no state in       *)
(* common, so a behaviour is one of a single component, chosen by `focus'  *)
(* in the initial state: one run explores each of them in turn.            *)
(***************************************************************************)
EXTENDS Platform, TLC

\* People may fix what lint finds while ticks run, or break it.  One skill may complete on
\* its own and is one success short of it; the other one is sensitive.
CheckList == <<"lint", "test">>
FixedOrNot == {{}, {"lint"}}
Earlier == {[runs |-> 19, passes |-> 18, streak |-> 0]}

\* Each of two roles falls back to the other.
FallsBack == [worker |-> "worker_fallback", worker_fallback |-> "worker"]
OneGroup == [o \in Op |-> "fleet"]

\* Two projects share codex, of which the second may be routed to the local ollama; the
\* third runs on ollama only.
Same == <<1, 1, 1>>
Chains == <<{"codex"}, {"codex", "ollama"}, {"ollama"}>>
OneEach == [codex |-> 1, ollama |-> 1]

VARIABLE focus

\* One initial state is enough for a component that is not explored.
MCInit ==
    /\ focus \in {"maintenance", "api", "registry", "service", "dashboard", "backend", "fleet"}
    /\ Init
    /\ focus # "maintenance" => ~failFast
    /\ focus # "api" => spent = 0
    /\ focus # "fleet" => ready = {}

MCNext ==
    /\ UNCHANGED focus
    /\ \/ focus = "maintenance" /\ Maintains
       \/ focus = "api" /\ Calls
       \/ focus = "registry" /\ Registers
       \/ focus = "service" /\ Serves
       \/ focus = "dashboard" /\ Shows
       \/ focus = "backend" /\ Supervises
       \/ focus = "fleet" /\ Schedules

MCSpec == MCInit /\ [][MCNext]_<<focus, vars>>

Symmetry == Permutations(Process)
=============================================================================
