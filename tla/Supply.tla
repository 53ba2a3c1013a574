------------------------------- MODULE Supply -------------------------------
(***************************************************************************)
(* What the cycles of a project draw on, side by side: skills and servers, *)
(* the prompt and its cache, the routing of backends and the waits between *)
(* cycles.  The parts have no state in common; the properties of each are  *)
(* collected here under names of their own.                                *)
(***************************************************************************)
EXTENDS Setting, Naturals, Sequences, FiniteSets

CONSTANTS
    Skill, MaxRev, RevisionKind, Summed, MaxSkillOps,                   \* Skills
    Owner, Server, Template, Suggested, Machine, MaxOps,                \* Mcp
    Material, ModelWindows, Reserve, Percent, Title, Wrap, MinPiece,    \* Context
    Factor, Marker,
    Caller, Version, Sensitive,                                         \* Cache
    Backend, Local, Excluded, Able, Preferred, Strength, Limits, Cost,  \* Routing
    Envelope, Policy, Faults, MaxHour, MaxWork, MaxCalls,
    Day, Windows, CycleLength, Cool, Recovery, MaxRecovery, Keep,       \* Cooling
    Hints, MaxTime, MaxStreak, MaxFails

VARIABLES
    mirror, catalog, quarantine, registry, installed, backup, kJob, kOps, approved, refused, owned,
    servers, prompts, pJob, pOps, found, raised, vetted,
    stage, items, given, budget, package, waiting, omitted,
    files, entries, tmp, pc, hashes, text,
    hour, board, used, highest, nextRun, decision, role, chain, pos, coders, author, work,
    spent, repaired,
    now, window, began, oNextRun, oStreak, told, entry, stated

kvars == <<mirror, catalog, quarantine, registry, installed, backup, kJob, kOps, approved,
           refused, owned>>
pvars == <<servers, prompts, pJob, pOps, found, raised, vetted>>
bvars == <<stage, items, given, budget, package, waiting, omitted>>
xvars == <<files, entries, tmp, pc, hashes, text>>
dvars == <<hour, board, used, highest, nextRun, decision, role, chain, pos, coders, author,
           work, spent, repaired>>
ovars == <<now, window, began, oNextRun, oStreak, told, entry, stated>>
supplyVars == <<kvars, pvars, bvars, xvars, dvars, ovars>>

K == INSTANCE Skills WITH Kind <- RevisionKind, MaxOps <- MaxSkillOps, job <- kJob, ops <- kOps
P == INSTANCE Mcp WITH Project <- Owner, job <- pJob, ops <- pOps
B == INSTANCE Context WITH Candidates <- Material, Windows <- ModelWindows
X == INSTANCE Cache
D == INSTANCE Routing
O == INSTANCE Cooling WITH nextRun <- oNextRun, streak <- oStreak

Acquires   == K!Next /\ UNCHANGED <<pvars, bvars, xvars, dvars, ovars>>
Configures == P!Next /\ UNCHANGED <<kvars, bvars, xvars, dvars, ovars>>
Assembles  == B!Next /\ UNCHANGED <<kvars, pvars, xvars, dvars, ovars>>
Caches     == X!Next /\ UNCHANGED <<kvars, pvars, bvars, dvars, ovars>>
Routes     == D!Next /\ UNCHANGED <<kvars, pvars, bvars, xvars, ovars>>
Cools      == O!Next /\ UNCHANGED <<kvars, pvars, bvars, xvars, dvars>>

SupplyInit == K!Init /\ P!Init /\ B!Init /\ X!Init /\ D!Init /\ O!Init
SupplyNext == \/ Acquires \/ Configures \/ Assembles \/ Caches \/ Routes \/ Cools
SupplySpec == SupplyInit /\ [][SupplyNext]_supplyVars

-----------------------------------------------------------------------------
\* The properties of the parts with their types, under their own names.
\* What a skill or a server may do is vetted, no skill is lost, and a human is asked once.
SourcesVetted == /\ K!TypeOK /\ K!InstalledIsVetted /\ K!NeverLost
                 /\ P!TypeOK /\ P!EnabledIsTrusted /\ P!FoundIsOwn /\ P!PromptedOnce

\* A prompt keeps its budget and what it must contain, under the policy of the moment.
PromptsSound == /\ B!TypeOK /\ B!PromptIsSound /\ B!EveryItemAccounted
                /\ X!TypeOK /\ X!ServedIsCurrent /\ X!NothingSensitive

\* No backend beyond its limits or before its time, no cycle outside the operating window.
RoutingSound == /\ D!TypeOK /\ D!LimitsKept /\ D!EnvelopeSuffices
                /\ O!TypeOK /\ O!WindowKept /\ O!StatedIsRespected
=============================================================================
