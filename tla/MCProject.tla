----------------------------- MODULE MCProject -----------------------------
(***************************************************************************)
(* An instance of Workspace and Supply, which with the capabilities make   *)
(* up a project, for TLC.  Their parts have no state in common, so a       *)
(* behaviour is one of a single part, chosen by `focus' in the initial     *)
(* state: one run explores each of them in turn.                           *)
(***************************************************************************)
EXTENDS Workspace, Supply, TLC

CONSTANTS
    Cap, Dependencies, Rivals, Alternatives, Conditions, Always,        \* Capability
    Confidence, Risk, Checks, Sources, Command

VARIABLES plan, graph, usable, view, ops, proven

cvars == <<plan, graph, usable, view, ops, proven>>
C == INSTANCE Capability WITH Conflicts <- Rivals, Candidates <- Sources, Process <- Command

\* What a project has proven it has.
CapabilitiesSound == C!TypeOK /\ C!PlanIsSound /\ C!SatisfiedIsProven

\* A contract over a manifest, a directory, a file in it and a file of credentials.
FileAt(path, nonEmpty) == [path |-> path, type |-> "file", required |-> TRUE, nonEmpty |-> nonEmpty]
Other(type, path) == [path |-> path, type |-> type, required |-> TRUE, nonEmpty |-> FALSE]
Deep(dir) == [dir |-> dir, deep |-> TRUE]
Flat(dir) == [dir |-> dir, deep |-> FALSE]
Grant(allowed, forbidden, inputs, expected) ==
    [allowed |-> allowed, forbidden |-> forbidden, inputs |-> inputs, expected |-> expected]

Paths == {<<"manifest">>, <<"src">>, <<"src", "a">>, <<"env">>}
Outputs == {FileAt(<<"manifest">>, TRUE), FileAt(<<"src", "a">>, TRUE),
            Other("directory", <<"src">>), Other("unknown", <<"src", "a">>),
            Other("glob", <<"src">>)}
WorkOrders == {Grant({Deep(<<>>)}, {}, {}, {}),
               Grant({Deep(<<"src">>)}, {}, {}, {<<"src", "a">>}),
               Grant({Deep(<<"src">>), Flat(<<"manifest">>)}, {}, {}, {}),
               Grant({Flat(<<"manifest">>), Flat(<<"src">>), Flat(<<"a">>)},
                     {Deep(<<"src">>)}, {<<"src">>}, {})}
ProtectedPaths == {Flat(<<"env">>)}
Credentials    == {<<"env">>}
Manifests      == {<<"manifest">>}

\* Two tasks, the second after the first; what the platform and the task are blamed for.
SecondAfterFirst == <<{}, {1}>>
OldKinds == <<None, None>>
Blame(wrapped, causes) == [wrapped |-> wrapped, causes |-> causes]
Texts == {Blame(FALSE, {"zero_checks"}), Blame(FALSE, {"scope"}),
          Blame(FALSE, {"contradicted"}), Blame(FALSE, {"model"}),
          Blame(TRUE, {"gitignore", "capability"}), Blame(TRUE, {"scope", "model"}),
          Blame(TRUE, {"model"})}
Asked == <<"framework", "account", "licence">>

\* 3 needs 2, which needs 1; 4 is in conflict with 2 and 3.
Needed       == <<{}, {1}, {2}, {}>>
InConflict   == <<{}, {4}, {4}, {}>>
OtherThan    == <<<<2>>, <<1>>, <<>>, <<>>>>
OnlyWith     == <<{}, {1}, {}, {}>>
Certainty    == <<90, 75, 75, 90>>
Danger       == <<"low", "medium", "medium", "high">>
Source(id, type, risk) == [id |-> id, type |-> type, risk |-> risk, reviewed |-> TRUE]
TwoSources   == [c \in 1..4 |-> IF c > 2 THEN {} ELSE
                    {Source(1, "skill", "low"), Source(2, "mcp_tool", "medium")}]

\* One skill whose mirror goes from harmless files to lifecycle hooks and to scripts.
Revisions == [x \in {"s"} \X (1..3) |->
                 CASE x[2] = 1 -> "clean" [] x[2] = 2 -> "hooked" [] OTHER -> "scripts"]

\* Two projects that may use either of two servers; the first one needs a key, the second one an
\* account.
Asks(account) == [bounded |-> TRUE, local |-> TRUE, mutates |-> FALSE, login |-> "env_key",
                  sensitive |-> account, paid |-> FALSE]
Templates == <<Asks(FALSE), Asks(TRUE)>>
OneNeed   == <<<<1, 2>>>>

\* The candidates of a coder's prompt: two pieces of code one within the other, a memory that
\* replaces another, a skill that repeats a file.
Item(id, category, tokens, relevance, trust, content) ==
    [id |-> id, category |-> category, tokens |-> tokens, relevance |-> relevance,
     trust |-> trust, content |-> content, path |-> None, span |-> None, supersedes |-> None]
Piece(item, path, span) == [item EXCEPT !.path = path, !.span = span]
Prompt ==
    <<Item(1, "policy", 2, 10, "trusted", 1), Item(2, "work_order", 3, 10, "trusted", 2),
      Item(3, "validation", 2, 9, "untrusted", 3), Item(4, "project_summary", 2, 7, "trusted", 4),
      Piece(Item(5, "code", 6, 6, "untrusted", 5), "f", <<1, 9>>),
      Piece(Item(6, "code", 2, 6, "untrusted", 6), "f", <<2, 4>>),
      Item(7, "code", 3, 6, "untrusted", 7),
      [Item(8, "memory", 3, 5, "untrusted", 8) EXCEPT !.supersedes = 9],
      Item(9, "memory", 2, 5, "untrusted", 9), Item(10, "skill", 2, 5, "untrusted", 7)>>
Allocation == [project_summary |-> 20, skill |-> 20, code |-> 35, memory |-> 30]

\* One text of the policy looks like a secret.
Secret == {<<None, 1>>}

\* Two backends; a second cycle does not fit into the first one's limit of tokens.
Limit(b, what, hours, max) == [backend |-> b, what |-> what, hours |-> hours, max |-> max]
ForRole(first, second, third) == [conductor |-> first, coder |-> second, qa |-> third]
NoneExcluded == ForRole({}, {}, {})
AllAble      == ForRole({1, 2}, {1, 2}, {1, 2})
CoderOnFirst == ForRole(<<>>, <<1>>, <<>>)
Strengths    == <<2, 3>>
Costs        == ForRole(1, 2, 1)
OwnLimits    == {Limit(1, "tokens", 0, 5), Limit(2, "calls", 0, 3), Limit(2, "tokens", 1, 9)}
Configured   == [independent |-> TRUE, local |-> FALSE, stopShort |-> TRUE, confidence |-> FALSE]

\* Two tasks in two milestones; one requirement names a task that is not in the backlog.
InOrder      == <<1, 2>>
OneByOne     == <<{1}, {2}>>
Requirements == <<{1}, {3}>>
ByCapability == <<{}, {"web"}>>

\* A day of six units with a window by day, one over midnight, or none.
DayAndNight == {None, [start |-> 1, stop |-> 4], [start |-> 4, stop |-> 1]}
Cooldowns   == [success |-> 2, failure |-> 1, platform |-> 1, limit |-> 2, least |-> 1, most |-> 4]
Recoveries  == [limit |-> 2, outage |-> 1]

VARIABLE focus

\* One initial state is enough for a part that is not explored.
MCInit ==
    /\ focus \in {"contract", "worktrees", "healing", "completion", "locks", "capability",
                  "skills", "mcp", "prompt", "cache", "routing", "cooling"}
    /\ T!Init /\ (focus # "contract" => outputs = {} /\ ~depsDone)
    /\ C!Init /\ (focus # "capability" => usable = {})
    /\ B!Init /\ (focus # "prompt" => items = Prompt /\ budget = 6)
    /\ O!Init /\ (focus # "cooling" => window = None)
    /\ W!Init /\ H!Init /\ A!Init /\ L!Init
    /\ K!Init /\ P!Init /\ X!Init /\ D!Init

MCNext ==
    /\ UNCHANGED focus
    /\ \/ /\ \/ focus = "contract" /\ Contracts
             \/ focus = "worktrees" /\ Commits
             \/ focus = "healing" /\ Heals
             \/ focus = "completion" /\ Completes
             \/ focus = "locks" /\ Locks
          /\ UNCHANGED <<supplyVars, cvars>>
       \/ focus = "capability" /\ C!Next /\ UNCHANGED <<supplyVars, wsvars>>
       \/ /\ \/ focus = "skills" /\ Acquires
             \/ focus = "mcp" /\ Configures
             \/ focus = "prompt" /\ Assembles
             \/ focus = "cache" /\ Caches
             \/ focus = "routing" /\ Routes
             \/ focus = "cooling" /\ Cools
          /\ UNCHANGED <<wsvars, cvars>>

MCSpec == MCInit /\ [][MCNext]_<<focus, wsvars, supplyVars, cvars>>
=============================================================================
