------------------------------- MODULE Skills -------------------------------
(***************************************************************************)
(* The life of a skill: discovered in a mirrored registry, copied into     *)
(* quarantine, scanned and evaluated, approved by an administrator or by   *)
(* the deterministic policy, enabled, updated, rolled back and removed     *)
(* (core/skillmarket.py, core/skillreg.py, core/skillacquire.py).  The     *)
(* catalogue, the registry and four directories are separate files; an     *)
(* installation goes through them one after the other.                     *)
(*                                                                         *)
(* The content of a skill is the revision it was taken from.               *)
(***************************************************************************)
EXTENDS Naturals, FiniteSets

CONSTANTS
    Skill,
    MaxRev,      \* revisions of a mirror are 1..MaxRev
    Kind,        \* <<skill, revision>> -> "clean", "scripts", "injected", "hooked"
    Summed,      \* skills whose index publishes a checksum
    MaxOps,      \* commands and acquisitions
    None,
    Env          \* departures: "crash" (between two files), "race" (an acquisition of a
                 \* cycle beside a command)

VARIABLES
    mirror,      \* skill -> the revision the mirror holds
    catalog,     \* catalog.json: skill -> its record, or None
    quarantine,  \* skill -> what its quarantine directory holds, or None
    registry,    \* registry.yaml: skill -> its manifest, or None
    installed,   \* skill -> what skills/installed holds, or None
    backup,      \* skill -> what skills/rollback holds, or None
    job,         \* actor -> what it is in the middle of
    ops,
    approved,    \* history: <<skill, content>> an administrator has approved
    refused,     \* history: <<skill, content>> rejected by one, and not approved since
    owned        \* history: skills installed once and not removed by a command

kvars == <<mirror, catalog, quarantine, registry, installed, backup, job, ops,
           approved, refused, owned>>
dirs  == <<quarantine, registry, installed, backup>>
hist  == <<approved, refused, owned>>

Actor == {"admin", "cycle"}
Rev   == 1..MaxRev
Idle  == [step |-> "idle", skill |-> None, auto |-> FALSE, back |-> FALSE]

(***************************************************************************)
(* What is known of a candidate.                                           *)
(***************************************************************************)
Fresh == [state |-> "discovered", cur |-> None, pin |-> None, prev |-> None, sum |-> None,
          scripts |-> FALSE, injected |-> FALSE, verdict |-> "none"]

Published(s) == IF s \in Summed THEN mirror[s] ELSE None

\* evaluate: the fixtures, without the extended scan.
Verdict(s, r) == IF quarantine[s] # None /\ ~r.injected /\ ~r.scripts
                 THEN "recommend" ELSE "review"

\* Mutant: only what evaluate looked at is asked for.
LevelUnscanned(s, r) ==
    IF r.state = "discovered" THEN 0
    ELSE IF r.injected \/ r.state = "rejected" \/ r.sum = None \/ r.pin = None THEN 4
    ELSE IF r.verdict = "recommend" THEN 2 ELSE 1

\* classify_trust_level: 0 metadata, 1 quarantined, 2 automatic, 3 explicit, 4 blocked.
Level(s, r) ==
    IF r.state = "discovered" THEN 0
    ELSE IF r.injected \/ r.state = "rejected" \/ r.sum = None \/ r.pin = None THEN 4
    ELSE IF quarantine[s] = None THEN 1
    ELSE IF /\ ~r.scripts
            /\ Kind[<<s, quarantine[s]>>] # "hooked"
            /\ r.verdict = "recommend" \/ r.state = "approved" THEN 2
    ELSE IF r.state = "approved" THEN 3 ELSE 1

(***************************************************************************)
(* Commands that touch one file.                                           *)
(***************************************************************************)
Init ==
    /\ mirror = [s \in Skill |-> 1]
    /\ catalog = [s \in Skill |-> None] /\ quarantine = catalog /\ registry = catalog
    /\ installed = catalog /\ backup = catalog
    /\ job = [a \in Actor |-> Idle]
    /\ ops = 0
    /\ approved = {} /\ refused = {} /\ owned = {}

Free(a) == /\ job[a] = Idle
           /\ "race" \in Env \/ \A b \in Actor : job[b] = Idle
           /\ ops < MaxOps /\ ops' = ops + 1

\* Someone refreshes the mirror, at any time.
MirrorAdvances(s) ==
    /\ mirror[s] < MaxRev
    /\ mirror' = [mirror EXCEPT ![s] = @ + 1]
    /\ UNCHANGED <<catalog, dirs, job, ops, hist>>

\* discover, for a skill that is not installed: its state and evaluation stay.
Discovered(s) == LET old == IF catalog[s] = None THEN Fresh ELSE catalog[s] IN
    [Fresh EXCEPT !.state = old.state, !.cur = mirror[s], !.sum = Published(s),
                  !.injected = old.injected, !.verdict = old.verdict]

Discover == /\ Free("admin")
            /\ catalog' = [s \in Skill |-> IF registry[s] = None THEN Discovered(s) ELSE catalog[s]]
            /\ UNCHANGED <<mirror, dirs, job, hist>>

\* check_updates: an installed skill whose mirror holds another revision.
CheckUpdates ==
    /\ Free("admin")
    /\ catalog' = [s \in Skill |->
           IF registry[s] = None \/ registry[s].rev = mirror[s] THEN catalog[s]
           ELSE [(IF catalog[s] = None THEN Fresh ELSE catalog[s]) EXCEPT
                     !.state = "update_available", !.cur = mirror[s], !.pin = None,
                     !.prev = registry[s].rev, !.sum = Published(s)]]
    /\ UNCHANGED <<mirror, dirs, job, hist>>

\* quarantine: the files of the mirror, under the revision that discovery has seen.
Quarantined(s) == LET c == mirror[s]  r == catalog[s] IN
    IF r.sum \notin {None, c}
    THEN /\ quarantine' = [quarantine EXCEPT ![s] = None]
         /\ catalog' = [catalog EXCEPT ![s].state = "rejected", ![s].verdict = "rejected",
                                       ![s].injected = FALSE]
    ELSE /\ quarantine' = [quarantine EXCEPT ![s] = c]
         /\ catalog' = [catalog EXCEPT ![s].state = "quarantined", ![s].pin = r.cur, ![s].sum = c,
                                       ![s].scripts = Kind[<<s, c>>] = "scripts",
                                       ![s].injected = Kind[<<s, c>>] = "injected",
                                       ![s].verdict = "none"]

Quarantine(s) ==
    /\ Free("admin") /\ catalog[s] # None
    /\ Quarantined(s)
    /\ UNCHANGED <<mirror, registry, installed, backup, job, hist>>

Pending(s) == IF catalog[s] = None THEN FALSE
              ELSE catalog[s].state \in {"quarantined", "update_available"}

Evaluate(s) ==
    /\ Free("admin") /\ Pending(s)
    /\ catalog' = [catalog EXCEPT ![s].verdict = Verdict(s, catalog[s])]
    /\ UNCHANGED <<mirror, dirs, job, hist>>

Reject(s) ==
    /\ Free("admin") /\ catalog[s] # None
    /\ refused' = IF quarantine[s] = None THEN refused ELSE refused \cup {<<s, quarantine[s]>>}
    /\ catalog' = [catalog EXCEPT ![s].state = "rejected"]
    /\ quarantine' = [quarantine EXCEPT ![s] = None]
    /\ UNCHANGED <<mirror, registry, installed, backup, job, approved, owned>>

Intact(s) == registry[s].content = installed[s]

\* enable verifies the files, and disables what fails.
Enable(s) ==
    /\ Free("admin") /\ registry[s] # None
    /\ \/ ~Intact(s)
       \/ ~registry[s].scripts \/ registry[s].reviewed
    /\ registry' = [registry EXCEPT ![s].enabled = Intact(s)]
    /\ UNCHANGED <<mirror, catalog, quarantine, installed, backup, job, hist>>

(***************************************************************************)
(* An acquisition of a cycle: discover, quarantine, evaluate and, for what *)
(* the policy accepts, approve.                                            *)
(***************************************************************************)
At(a, step) == job' = [job EXCEPT ![a].step = step]
Ends(a)     == job' = [job EXCEPT ![a] = Idle]

Acquire(s) ==
    /\ Free("cycle") /\ registry[s] = None
    /\ catalog' = [catalog EXCEPT ![s] = Discovered(s)]
    /\ job' = [job EXCEPT !["cycle"] = [step |-> "quarantine", skill |-> s, auto |-> TRUE,
                                        back |-> FALSE]]
    /\ UNCHANGED <<mirror, dirs, hist>>

AcquireQuarantine(a) == LET s == job[a].skill IN
    /\ job[a].step = "quarantine"
    /\ Quarantined(s)
    /\ IF catalog'[s].state = "rejected" THEN Ends(a) ELSE At(a, "evaluate")
    /\ UNCHANGED <<mirror, registry, installed, backup, ops, hist>>

AcquireEvaluate(a) == LET s == job[a].skill IN
    /\ job[a].step = "evaluate"
    /\ IF Pending(s)
       THEN catalog' = [catalog EXCEPT ![s].verdict = Verdict(s, catalog[s])] /\ At(a, "decide")
       ELSE UNCHANGED catalog /\ Ends(a)
    /\ UNCHANGED <<mirror, dirs, ops, hist>>

\* auto_approve_if_eligible: never an update.
AutoApprove(a) == LET s == job[a].skill IN
    /\ job[a].step = "decide"
    /\ IF catalog[s].state = "quarantined" /\ catalog[s].prev = None /\ Level(s, catalog[s]) = 2
       THEN At(a, "backup") ELSE Ends(a)
    /\ UNCHANGED <<mirror, catalog, dirs, ops, hist>>

(***************************************************************************)
(* Approval and rollback: the old version out, the new one in.             *)
(***************************************************************************)
Approve(s) ==
    /\ Free("admin") /\ Pending(s)
    /\ IF Pending(s) THEN catalog[s].pin # None ELSE FALSE
    /\ quarantine[s] # None
    /\ job' = [job EXCEPT !["admin"] = [step |-> "backup", skill |-> s, auto |-> FALSE,
                                        back |-> FALSE]]
    /\ approved' = approved \cup {<<s, quarantine[s]>>}
    /\ refused' = refused \ {<<s, quarantine[s]>>}
    /\ UNCHANGED <<mirror, catalog, dirs, owned>>

\* Mutant: the installed version is removed without a copy.
NoBackup(a) == LET s == job[a].skill IN
    /\ job[a].step = "backup"
    /\ At(a, IF registry[s] = None THEN "copy" ELSE "unlist")
    /\ UNCHANGED backup
    /\ UNCHANGED <<mirror, catalog, quarantine, registry, installed, ops, hist>>

\* What is installed is preserved before it goes.
Backup(a) == LET s == job[a].skill IN
    /\ job[a].step = "backup"
    /\ At(a, IF registry[s] = None THEN "copy" ELSE "unlist")
    /\ backup' = IF registry[s] = None THEN backup
                 ELSE [backup EXCEPT ![s] = [content |-> installed[s], rev |-> registry[s].rev]]
    /\ UNCHANGED <<mirror, catalog, quarantine, registry, installed, ops, hist>>

\* rollback reads and deletes the note of the revision first, and writes it again at the end.
Rollback(s) ==
    /\ Free("admin") /\ backup[s] # None
    /\ job' = [job EXCEPT !["admin"] =
                  [step |-> IF registry[s] = None THEN "copy" ELSE "unlist",
                   skill |-> s, auto |-> FALSE, back |-> TRUE]]
    /\ UNCHANGED <<mirror, catalog, dirs, hist>>

\* SkillRegistry.remove: the manifest first, the files next.
Remove(s) ==
    /\ Free("admin") /\ registry[s] # None
    /\ registry' = [registry EXCEPT ![s] = None]
    /\ job' = [job EXCEPT !["admin"] = [Idle EXCEPT !.step = "delete", !.skill = s]]
    /\ owned' = owned \ {s}
    /\ UNCHANGED <<mirror, catalog, quarantine, installed, backup, approved, refused>>

Unlist(a) == LET s == job[a].skill IN
    /\ job[a].step = "unlist"
    /\ registry' = [registry EXCEPT ![s] = None]
    /\ At(a, "purge")
    /\ UNCHANGED <<mirror, catalog, quarantine, installed, backup, ops, hist>>

Delete(a) == LET s == job[a].skill IN
    /\ job[a].step \in {"delete", "purge"}
    /\ installed' = [installed EXCEPT ![s] = None]
    /\ IF job[a].step = "delete" THEN Ends(a) ELSE At(a, "copy")
    /\ UNCHANGED <<mirror, catalog, quarantine, registry, backup, ops, hist>>

\* SkillRegistry.add refuses a listed skill; a directory that is left over is an error too.
Copy(a) == LET s == job[a].skill IN
    /\ job[a].step = "copy"
    /\ IF registry[s] # None \/ installed[s] # None THEN Ends(a) /\ UNCHANGED installed
       ELSE /\ installed' = [installed EXCEPT ![s] = IF job[a].back THEN backup[s].content
                                                     ELSE quarantine[s]]
            /\ At(a, "list")
    /\ UNCHANGED <<mirror, catalog, quarantine, registry, backup, ops, hist>>

\* Listed as it was copied, not reviewed and not enabled.
List(a) == LET s == job[a].skill IN
    /\ job[a].step = "list"
    /\ registry' = [registry EXCEPT ![s] =
           [rev |-> IF job[a].back THEN backup[s].rev ELSE catalog[s].pin,
            content |-> installed[s], scripts |-> Kind[<<s, installed[s]>>] = "scripts",
            reviewed |-> FALSE, enabled |-> FALSE]]
    /\ At(a, "settle")
    /\ owned' = owned \cup {s}
    /\ UNCHANGED <<mirror, catalog, quarantine, installed, backup, ops, approved, refused>>

\* mark_reviewed, the candidate's state; what the policy or a rollback installs is enabled.
Settle(a) == LET s == job[a].skill IN
    /\ job[a].step = "settle"
    /\ registry' = IF registry[s] = None THEN registry
                   ELSE [registry EXCEPT ![s].reviewed = TRUE,
                                         ![s].enabled = @ \/ job[a].auto \/ job[a].back]
    /\ catalog' = IF catalog[s] = None THEN catalog
                  ELSE [catalog EXCEPT ![s].state = "approved",
                            ![s].prev = IF job[a].back \/ job[a].auto THEN @
                                        ELSE IF backup[s] = None THEN None ELSE backup[s].rev]
    /\ Ends(a)
    /\ UNCHANGED <<mirror, quarantine, installed, backup, ops, hist>>

\* The process dies between two files; a rollback has deleted the note of the revision.
Crash(a) == LET s == job[a].skill IN
    /\ "crash" \in Env /\ job[a] # Idle
    /\ backup' = IF job[a].back THEN [backup EXCEPT ![s].rev = None] ELSE backup
    /\ Ends(a)
    /\ UNCHANGED <<mirror, catalog, quarantine, registry, installed, ops, hist>>

Next ==
    \/ Discover \/ CheckUpdates
    \/ \E s \in Skill : \/ MirrorAdvances(s) \/ Quarantine(s) \/ Evaluate(s) \/ Reject(s)
                        \/ Enable(s) \/ Acquire(s) \/ Approve(s) \/ Rollback(s) \/ Remove(s)
    \/ \E a \in Actor : \/ AcquireQuarantine(a) \/ AcquireEvaluate(a) \/ AutoApprove(a)
                        \/ Backup(a) \/ Unlist(a) \/ Delete(a) \/ Copy(a) \/ List(a)
                        \/ Settle(a) \/ Crash(a)

Spec == Init /\ [][Next]_kvars

-----------------------------------------------------------------------------
TypeOK ==
    /\ mirror \in [Skill -> Rev]
    /\ quarantine \in [Skill -> Rev \cup {None}] /\ installed \in [Skill -> Rev \cup {None}]
    /\ \A s \in Skill : registry[s] # None => registry[s].content \in Rev
    /\ \A a \in Actor : job[a].step # "idle" => job[a].skill \in Skill

\* skillacquire.py: nothing is listed, kept for a rollback or enabled that neither an
\* administrator has approved nor every criterion of the policy accepts, wherever an
\* installation was interrupted; the policy never replaces a version that is installed.
InstalledIsVetted ==
    /\ \A s \in Skill : registry[s] # None =>
           <<s, registry[s].content>> \in approved \/ Kind[<<s, registry[s].content>>] = "clean"
    /\ \A s \in Skill : backup[s] # None =>
           <<s, backup[s].content>> \in approved \/ Kind[<<s, backup[s].content>>] = "clean"
    /\ \A a \in Actor : job[a].auto /\ job[a].step = "backup" /\ "race" \notin Env =>
           registry[job[a].skill] = None

\* skillmarket.py, approve: "Preserves any previously installed version for rollback".
NeverLost == \A s \in owned :
    \/ registry[s] # None /\ Intact(s)
    \/ backup[s] # None
    \/ \E a \in Actor : job[a].skill = s

(***************************************************************************)
(* What the documentation says and the code does not do.                   *)
(***************************************************************************)
\* skillacquire.py 28: a candidate that is blocked, and a rejected one is, is "never
\* installable".
RejectedStays == \A s \in Skill : registry[s] # None =>
    <<s, registry[s].content>> \notin refused

\* skillmarket.py 165: quarantine copies the candidate and "pins its revision".
PinnedIsContent == \A s \in Skill : registry[s] # None => registry[s].rev \in {registry[s].content, None}

\* An installation that was interrupted can be made again.
Reinstallable == \A s \in Skill :
    registry[s] = None /\ (\A a \in Actor : job[a] = Idle) => installed[s] = None
=============================================================================
