-------------------------------- MODULE Mcp --------------------------------
(***************************************************************************)
(* The gateway to MCP servers and the resolution of capabilities through   *)
(* it (core/mcp.py, core/mcpresolve.py).  The records of all projects are  *)
(* in one file, mcp.json, under the servers' names; a resolution looks for *)
(* a server that is configured and usable, and otherwise configures one    *)
(* from a template, or asks for the one thing a human must do.             *)
(***************************************************************************)
EXTENDS Naturals, Sequences, FiniteSets

CONSTANTS
    Project,
    Server,      \* names, of servers and of templates
    Template,    \* name -> what the template says, or None; its login is "none", "env_key"
                 \* or "oauth"
    Suggested,   \* capability -> the sequence of names it suggests
    Machine,     \* the scope of a server of every project
    MaxOps,      \* commands and resolutions
    None,
    Env          \* departures: "crash" (between two writes of mcp.json), "race" (a command
                 \* of the administrator during a resolution)

VARIABLES
    servers,     \* mcp.json: name -> its record, or None
    prompts,     \* setup-actions.yaml: project -> the pending actions, as <<name, kind, n>>
    job,         \* project -> the resolution it is in the middle of
    ops,
    found,       \* project -> what its last resolution reported as available: <<name, scope>>
    raised,      \* projects whose last resolution ended with an exception
    vetted       \* history: names whose record an administrator has reviewed

pvars == <<servers, prompts, job, ops, found, raised, vetted>>

Capability == DOMAIN Suggested
Kind == {"oauth", "sensitive_account", "paid_service", "production_mutation"}
Idle == [step |-> "idle", todo |-> <<>>]
Names(todo) == {todo[i] : i \in 1..Len(todo)}

(***************************************************************************)
(* Records.                                                                *)
(***************************************************************************)
\* add: untrusted until it is reviewed and enabled.
Added(owner, login) ==
    [owner |-> owner, login |-> login, auth |-> "unconfigured", reviewed |-> FALSE,
     enabled |-> FALSE]

Authenticated(r) == r.auth = "ok" \/ ~r.login
Usable(r)        == r.enabled /\ r.reviewed /\ Authenticated(r)

\* Mutant: the servers of other projects are listed too.
ListedForAll(p) == {s \in Server : servers[s] # None}

\* list: what a project sees.
Listed(p) == {s \in Server : IF servers[s] = None THEN FALSE
                             ELSE servers[s].owner \in {p, Machine}}

Init ==
    /\ servers = [s \in Server |-> None]
    /\ prompts = [p \in Project |-> {}]
    /\ job = [p \in Project |-> Idle]
    /\ ops = 0
    /\ found = [p \in Project |-> {}]
    /\ raised = {}
    /\ vetted = {}

Quiet == /\ "race" \in Env \/ \A p \in Project : job[p] = Idle
         /\ ops < MaxOps /\ ops' = ops + 1

Add(s, owner, login) ==
    /\ Quiet /\ servers[s] = None
    /\ servers' = [servers EXCEPT ![s] = Added(owner, login)]
    /\ UNCHANGED <<prompts, job, found, raised, vetted>>

MarkReviewed(s) ==
    /\ Quiet /\ servers[s] # None
    /\ servers' = [servers EXCEPT ![s].reviewed = TRUE]
    /\ vetted' = vetted \cup {s}
    /\ UNCHANGED <<prompts, job, found, raised>>

Enable(s) ==
    /\ Quiet /\ servers[s] # None
    /\ IF servers[s] = None THEN FALSE ELSE servers[s].reviewed
    /\ servers' = [servers EXCEPT ![s].enabled = TRUE]
    /\ UNCHANGED <<prompts, job, found, raised, vetted>>

Disable(s) ==
    /\ Quiet /\ servers[s] # None
    /\ servers' = [servers EXCEPT ![s].enabled = FALSE]
    /\ UNCHANGED <<prompts, job, found, raised, vetted>>

Remove(s) ==
    /\ Quiet /\ servers[s] # None
    /\ servers' = [servers EXCEPT ![s] = None]
    /\ vetted' = vetted \ {s}
    /\ UNCHANGED <<prompts, job, found, raised>>

\* The login itself happens elsewhere.
Authenticate(s) ==
    /\ Quiet /\ servers[s] # None
    /\ servers' = [servers EXCEPT ![s].auth = IF servers[s].login THEN "pending" ELSE "ok"]
    /\ UNCHANGED <<prompts, job, found, raised, vetted>>

\* test: whatever the answer, it is the authentication that is blamed.
Test(s, ok) ==
    /\ Quiet /\ servers[s] # None
    /\ servers' = [servers EXCEPT ![s].auth = IF ~servers[s].login THEN @
                                              ELSE IF ok THEN "ok" ELSE "error"]
    /\ UNCHANGED <<prompts, job, found, raised, vetted>>

ResolveSetupAction(p, a) ==
    /\ Quiet /\ a \in prompts[p]
    /\ prompts' = [prompts EXCEPT ![p] = @ \ {a}]
    /\ UNCHANGED <<servers, job, found, raised, vetted>>

(***************************************************************************)
(* Resolution of a capability for a project.                               *)
(***************************************************************************)
\* is_safe_to_auto_configure: what a human has to do first, in this order.
Blocking(t) ==
    IF ~t.local \/ t.mutates THEN "production_mutation"
    ELSE IF t.login = "oauth" THEN "oauth"
    ELSE IF t.sensitive THEN "sensitive_account"
    ELSE IF t.paid THEN "paid_service" ELSE None

\* Mutant: a template that needs no browser is safe.
SafeWithoutLogin(t) == t.login # "oauth" /\ t.bounded

\* Approved source, project scope, bounded files, tools and output.
Safe(t) == Blocking(t) = None /\ t.bounded

\* Mutant: one setup action for each pass.
PromptAgain(as, names, k) == as \cup {<<s, k, Cardinality(as) + 1>> : s \in names}

\* create_setup_action: one for a name and kind, as long as it is pending.
Prompt(as, names, k) ==
    as \cup {<<s, k, 1>> : s \in {x \in names : ~\E a \in as : a[1] = x /\ a[2] = k}}

Ends(p, names, failed) ==
    /\ job' = [job EXCEPT ![p] = Idle]
    /\ found' = [found EXCEPT ![p] = names]
    /\ raised' = IF failed THEN raised \cup {p} ELSE raised \ {p}

Goes(p, j) == job' = [job EXCEPT ![p] = j] /\ UNCHANGED <<found, raised>>

\* What is configured already; a login that is missing is asked for.
Search(p, c) == LET known == Listed(p) \cap Names(Suggested[c])
                    ready == {s \in known : Usable(servers[s])}
                    ask   == {s \in known : ~Authenticated(servers[s])} IN
    /\ job[p] = Idle /\ ops < MaxOps /\ ops' = ops + 1
    /\ prompts' = [prompts EXCEPT ![p] = Prompt(@, ask, "oauth")]
    /\ IF ready # {} THEN Ends(p, {<<s, servers[s].owner>> : s \in ready}, FALSE)
       ELSE /\ job' = [job EXCEPT ![p] = [step |-> "template", todo |-> Suggested[c]]]
            /\ found' = [found EXCEPT ![p] = {}]
            /\ UNCHANGED raised
    /\ UNCHANGED <<servers, vetted>>

Rest(p) == IF Len(job[p].todo) = 1 THEN Ends(p, found[p], FALSE)
           ELSE Goes(p, [step |-> "template", todo |-> Tail(job[p].todo)])

\* A name without a template, or with one that is not safe.
PassOver(p) ==
    /\ job[p].step = "template"
    /\ LET s == Head(job[p].todo)  t == Template[s] IN
       /\ IF t = None THEN TRUE ELSE ~Safe(t)
       /\ prompts' = IF t = None THEN prompts
                     ELSE IF Blocking(t) = None THEN prompts
                     ELSE [prompts EXCEPT ![p] = Prompt(@, {s}, Blocking(t))]
       /\ Rest(p)
    /\ UNCHANGED <<servers, ops, vetted>>

\* _configure adds the server, with the login that the template asks for; a name that is taken
\* is an exception, and the pass ends.
ConfigureAdd(p) ==
    /\ job[p].step = "template"
    /\ LET s == Head(job[p].todo)  t == Template[s] IN
       /\ IF t = None THEN FALSE ELSE Safe(t)
       /\ IF servers[s] # None THEN Ends(p, {}, TRUE) /\ UNCHANGED servers
          ELSE /\ servers' = [servers EXCEPT ![s] = Added(p, t.login # "none")]
               /\ Goes(p, [job[p] EXCEPT !.step = "review"])
    /\ UNCHANGED <<prompts, ops, vetted>>

ConfigureReview(p) == LET s == Head(job[p].todo) IN
    /\ job[p].step = "review"
    /\ IF servers[s] = None THEN Ends(p, {}, TRUE) /\ UNCHANGED servers
       ELSE /\ servers' = [servers EXCEPT ![s].reviewed = TRUE]
            /\ Goes(p, [job[p] EXCEPT !.step = "enable"])
    /\ UNCHANGED <<prompts, ops, vetted>>

ConfigureEnable(p) ==
    /\ job[p].step = "enable"
    /\ LET s == Head(job[p].todo) IN
       IF IF servers[s] = None THEN TRUE ELSE ~servers[s].reviewed
       THEN Ends(p, {}, TRUE) /\ UNCHANGED servers
       ELSE /\ servers' = [servers EXCEPT ![s].enabled = TRUE]
            /\ found' = [found EXCEPT ![p] = @ \cup {<<s, servers[s].owner>>}]
            /\ job' = [job EXCEPT ![p] = IF Len(job[p].todo) = 1 THEN Idle
                             ELSE [step |-> "template", todo |-> Tail(job[p].todo)]]
            /\ raised' = raised \ {p}
    /\ UNCHANGED <<prompts, ops, vetted>>

\* The process of a resolution dies.
Crash(p) ==
    /\ "crash" \in Env /\ job[p] # Idle
    /\ Ends(p, {}, FALSE)
    /\ UNCHANGED <<servers, prompts, ops, vetted>>

Next ==
    \/ \E s \in Server :
          \/ \E owner \in Project \cup {Machine}, login \in BOOLEAN : Add(s, owner, login)
          \/ MarkReviewed(s) \/ Enable(s) \/ Disable(s) \/ Remove(s) \/ Authenticate(s)
          \/ \E ok \in BOOLEAN : Test(s, ok)
    \/ \E p \in Project :
          \/ \E a \in prompts[p] : ResolveSetupAction(p, a)
          \/ \E c \in Capability : Search(p, c)
          \/ PassOver(p) \/ ConfigureAdd(p) \/ ConfigureReview(p) \/ ConfigureEnable(p)
          \/ Crash(p)

Spec == Init /\ [][Next]_pvars

-----------------------------------------------------------------------------
TypeOK ==
    /\ \A s \in Server : servers[s] # None => servers[s].owner \in Project \cup {Machine}
    /\ \A p \in Project : /\ prompts[p] \subseteq Server \X Kind \X Nat
                          /\ found[p] \subseteq Server \X (Project \cup {Machine})
                          /\ job[p] # Idle => job[p].todo # <<>>
    /\ raised \subseteq Project /\ vetted \subseteq Server

\* mcp.py 6: servers "are untrusted until reviewed and enabled".  What is enabled was
\* reviewed, by an administrator or as what a safe template says, and wherever a
\* configuration was interrupted.
EnabledIsTrusted == \A s \in Server :
    /\ servers[s] # None => (servers[s].enabled => servers[s].reviewed)
    /\ servers[s] # None => (servers[s].reviewed /\ s \notin vetted =>
          /\ servers[s].owner # Machine
          /\ IF Template[s] = None THEN FALSE
             ELSE LET t == Template[s] IN
                  /\ t.bounded /\ t.local /\ t.login # "oauth"
                  /\ ~(t.mutates \/ t.sensitive \/ t.paid))

\* mcp.py 17: "project-scoped servers only serve their project".
FoundIsOwn == \A p \in Project : \A s \in found[p] : s[2] \in {p, Machine}

\* mcpresolve.py 133: "exactly one setup action per (server_name, kind)".
PromptedOnce == \A p \in Project : \A a, b \in prompts[p] :
    a[1] = b[1] /\ a[2] = b[2] => a = b

(***************************************************************************)
(* What the documentation says and the code does not do.                   *)
(***************************************************************************)
\* resolver.py 306: a resolution "never raises for an ordinary resolution failure".
NeverRaises == raised = {}

\* mcpresolve.py 12: "exactly ONE setup action is persisted per (project, server) pair".
OneActionPerServer == \A p \in Project : \A a, b \in prompts[p] : a[1] = b[1] => a = b
=============================================================================
