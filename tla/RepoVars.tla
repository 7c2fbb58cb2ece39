------------------------------ MODULE RepoVars ------------------------------
(***************************************************************************)
(* The repository variables the workflows run on, and the tools that write *)
(* them: `just pulumi' (stack up, then export of its outputs), repo-vars   *)
(* check and apply (desired state against the repository's), the bootstrap *)
(* script (an env file) and the ruleset script (which status context the   *)
(* branch requires).  One step per remote call; nothing locks the          *)
(* repository, and every tool writes from what it read before.             *)
(*                                                                         *)
(* Of the nine required variables two are kept: the project and the        *)
(* identity provider, which has to belong to the project.  A value of      *)
(* either is the deployment it belongs to.                                 *)
(***************************************************************************)
EXTENDS Naturals, Sequences, FiniteSets

CONSTANTS
  Operators,
  Deployments,   \* what the infra variables may describe
  Contexts,      \* status contexts a branch rule may require
  Bmt,           \* those whose name contains "bmt"
  None, Empty,
  Retries,       \* BOOTSTRAP_RETRIES
  Overrides,     \* what the file of BMT_CONFIG may hold (Unset: no file)
  MaxRuns, MaxEvents   \* bounds: tools run; calls failed, edits by people, tools begun beside another

Project == "GCP_PROJECT"
Provider == "GCP_WIF_PROVIDER"
Status == "BMT_STATUS_CONTEXT"
Transfer == "BMT_DATASET_TRANSFER_JOB"

Required == {Project, Provider}
Canonical == Required \cup {Status}
Names == Canonical \cup {Transfer}     \* Transfer is in no contract, the bootstrap script wants it
Values == Deployments \cup Contexts
Unset == [n \in Names |-> None]

ASSUME ContextsAssumption == IsFiniteSet(Contexts) /\ Bmt \subseteq Contexts /\ Deployments \cap Contexts = {}
ASSUME NullsAssumption == None \notin Values \cup {Empty} /\ Empty \notin Values
ASSUME OverridesAssumption == Overrides \subseteq [Names -> Values \cup {None, Empty}]
ASSUME BoundsAssumption == Retries \in Nat \ {0} /\ {MaxRuns, MaxEvents} \subseteq Nat

VARIABLES
  contract,  \* "default": no branch check; "rule": one; "selector": one with context_substring "bmt"
  github,    \* the repository variables
  tfvars,    \* bmt.tfvars.json: the deployment and github_vars
  stack,     \* the deployment the stack outputs describe
  rule,      \* contexts the branch's active rules require
  tool,      \* what each operator runs
  disturbed, \* history: operators whose run overlapped with a change somebody else made
  runs, events   \* the bounded counts

vars == <<contract, github, tfvars, stack, rule, tool, disturbed, runs, events>>

NoTool == [cmd |-> "none", pc |-> "idle", config |-> Unset, prune |-> FALSE, force |-> FALSE,
           declared |-> Unset, current |-> Unset, set |-> Unset, drop |-> {}, attempt |-> 1]

Running(o) == tool[o].pc \notin {"idle", "done"}

TypeOK ==
  /\ contract \in {"default", "rule", "selector"} /\ disturbed \subseteq Operators
  /\ github \in [Names -> Values \cup {None}]
  /\ tfvars \in [infra : Deployments, status : Contexts \cup {None}]
  /\ stack \in Deployments \cup {None} /\ rule \subseteq Contexts
  /\ \A o \in Operators :
       /\ tool[o].cmd \in {"none", "check", "apply", "pulumi", "bootstrap"}
       /\ tool[o].pc \in {"idle", "preflight", "up", "outputs", "declare", "list", "compare", "write", "done"}
       /\ {tool[o].config, tool[o].declared} \subseteq [Names -> Values \cup {None, Empty}]
       /\ {tool[o].current, tool[o].set} \subseteq [Names -> Values \cup {None}]
       /\ tool[o].drop \subseteq Names /\ tool[o].attempt \in 1 .. Retries
  /\ runs \in Nat /\ events \in 0 .. MaxEvents

\* The variables are unset, or what an export of the stack has left.
Init ==
  /\ contract \in {"default", "rule", "selector"} /\ disturbed = {}
  /\ tfvars \in [infra : Deployments, status : {None}]
  /\ stack \in Deployments \cup {None}
  /\ rule \in {{}, Bmt, Contexts} /\ (contract = "default" => rule = {})
  /\ github \in {Unset} \cup {[n \in Names |-> IF n \in Required THEN d ELSE None] : d \in Deployments \cap {stack}}
  /\ tool = [o \in Operators |-> NoTool]
  /\ runs = 0 /\ events = 0

\* A failing call of the tool, or another counted event.
Mishap == events < MaxEvents /\ events' = events + 1
Works == UNCHANGED events

Become(o, t) == tool' = [tool EXCEPT ![o] = t]
Goto(o, pc) == Become(o, [tool[o] EXCEPT !.pc = pc])
GivesUp(o) == Become(o, NoTool)
Succeeds(o) == Become(o, [NoTool EXCEPT !.pc = "done"])
Starts(o) ==
  /\ ~Running(o)
  /\ runs < MaxRuns /\ runs' = runs + 1
  /\ IF \A x \in Operators : ~Running(x) THEN Works ELSE Mishap
  /\ disturbed' = disturbed \ {o}

\* Whoever else is running works from what it read before.
Disturbs(actors) == disturbed' = disturbed \cup {o \in Operators \ actors : Running(o)}


-----------------------------------------------------------------------------
(* The desired state                                                       *)

\* What the stack and github_vars declare; nothing when an output cannot be read.
Declared(available) ==
  [n \in Names |-> CASE n \in Required /\ available -> stack
                     [] n = Status /\ available -> tfvars.status
                     [] OTHER -> None]

\* An override file may declare any name; an empty value declares it absent.
Overridden(declared, config) == [n \in Names |-> IF config[n] # None THEN config[n] ELSE declared[n]]

\* The contexts a value may come from when the branch rule decides it, in
\* order: what is declared, what is set (no default exists).
Preferred(declared, current, S) ==
  IF declared[Status] \in S THEN {declared[Status]} ELSE {current[Status]} \cap S

\* The context of the branch rule, or {} when none can be told (an error).
RuleContext(declared, current) ==
  LET candidates == IF contract = "selector" THEN rule \cap Bmt ELSE rule
      preferred == Preferred(declared, current, candidates)
  IN  CASE rule = {} -> Preferred(declared, current, Contexts)
        [] rule # {} /\ Cardinality(candidates) <= 1 -> candidates
        [] rule # {} /\ Cardinality(candidates) > 1 /\ preferred # {} -> preferred
        [] OTHER -> IF Cardinality(candidates \cap Bmt) = 1 THEN candidates \cap Bmt ELSE {}

\* The contexts of the branch's active rules, if the contract has a check.
ResolveContexts(declared, current) == IF contract = "default" THEN {} ELSE RuleContext(declared, current)

\* Mutant: a variable that is not declared is not inherited from what is set.
OriginDeclaredOnly(n, declared, current, ruled) ==
  CASE n = Status /\ ruled -> "branch_rule"
    [] ~(n = Status /\ ruled) /\ declared[n] # None -> "config"
    [] OTHER -> IF n \in Required /\ current[n] = None THEN "missing_required" ELSE "optional_absent"

\* Where the desired value of a variable comes from (the contract has no defaults).
Origin(n, declared, current, ruled) ==
  CASE n = Status /\ ruled -> "branch_rule"
    [] ~(n = Status /\ ruled) /\ declared[n] # None -> "config"
    [] ~(n = Status /\ ruled) /\ declared[n] = None /\ current[n] # None -> "current"
    [] OTHER -> IF n \in Required THEN "missing_required" ELSE "optional_absent"

\* The comparison. context is {} or the context of the branch rule.
Compare(declared, current, context) ==
  LET origin == [n \in Canonical |-> Origin(n, declared, current, context # {})]
      desired == [n \in Canonical |-> CASE origin[n] = "branch_rule" -> CHOOSE c \in context : TRUE
                                       [] origin[n] = "config" -> declared[n]
                                       [] origin[n] = "current" -> current[n]
                                       [] OTHER -> Empty]
  IN  [desired |-> desired,
       lacking |-> {n \in Canonical : origin[n] = "missing_required"},
       missing |-> {n \in Canonical : current[n] = None /\ desired[n] # Empty /\ origin[n] = "config"},
       changed |-> {n \in Canonical : current[n] # None /\ desired[n] \notin {Empty, current[n]}},
       absent |-> {n \in Canonical : desired[n] = Empty /\ current[n] # None},
       extra |-> {n \in Names \ Canonical : current[n] # None}]

Matches(diff) == diff.lacking \cup diff.missing \cup diff.changed \cup diff.absent \cup diff.extra = {}

\* The provider has to belong to the project, as far as gcloud can tell.
ProviderFits(project, provider, gcloud) == Empty \in {project, provider} \/ project = provider \/ ~gcloud

-----------------------------------------------------------------------------
(* check and apply                                                         *)

BeginRepoVars(o) ==
  /\ Starts(o)
  /\ \E cmd \in {"check", "apply"}, config \in Overrides, prune, force \in BOOLEAN :
       /\ cmd = "check" => ~prune /\ ~force
       /\ Become(o, [NoTool EXCEPT !.cmd = cmd, !.pc = "declare", !.config = config, !.prune = prune, !.force = force])
  /\ UNCHANGED <<contract, github, tfvars, stack, rule>>

\* An unreadable stack is a warning: the desired state falls back.
ReadDeclared(o) ==
  /\ tool[o].pc = "declare"
  /\ \E available \in BOOLEAN :
       /\ available => stack # None
       /\ IF available \/ stack = None THEN Works ELSE Mishap
       /\ Become(o, [tool[o] EXCEPT !.pc = "list", !.declared = Overridden(Declared(available), tool[o].config)])
  /\ UNCHANGED <<contract, github, tfvars, stack, rule, disturbed, runs>>

ListGithub(o) ==
  /\ tool[o].pc = "list"
  /\ \/ Works /\ Become(o, [tool[o] EXCEPT !.pc = "compare", !.current = github])
     \/ Mishap /\ GivesUp(o)
  /\ UNCHANGED <<contract, github, tfvars, stack, rule, disturbed, runs>>

\* Mutant: what is only changed is set, what is missing is not.
ToSetChanged(diff, force) ==
  [n \in Names |-> IF n \in diff.changed \/ (force /\ n \in Canonical /\ diff.desired[n] # Empty)
                   THEN diff.desired[n] ELSE None]

\* What apply sets.
ToSet(diff, force) ==
  [n \in Names |-> IF n \in diff.missing \cup diff.changed \/ (force /\ n \in Canonical /\ diff.desired[n] # Empty)
                   THEN diff.desired[n] ELSE None]

ToDrop(diff, prune) == diff.absent \cup (IF prune THEN diff.extra ELSE {})

\* The branch rules are read (an error when they cannot be, or leave no single
\* context), and the outcome follows. apply returns early when nothing is to be
\* set, also when something is to be deleted.
CompareAll(o) ==
  /\ tool[o].pc = "compare"
  /\ LET t == tool[o]
         context == ResolveContexts(t.declared, t.current)
         diff == Compare(t.declared, t.current, context)
         nothing == diff.missing \cup diff.changed = {} /\ ~t.force
     IN  \/ Mishap /\ GivesUp(o)
         \/ /\ Works
            /\ \E gcloud \in BOOLEAN :
                 LET refused == \/ contract # "default" /\ context = {}
                                \/ t.declared[Transfer] # None
                                \/ diff.lacking # {}
                                \/ ~ProviderFits(diff.desired[Project], diff.desired[Provider], gcloud)
                 IN  \/ refused /\ GivesUp(o)
                     \/ /\ ~refused /\ t.cmd = "check"
                        /\ IF Matches(diff) THEN Succeeds(o) ELSE GivesUp(o)
                     \/ ~refused /\ t.cmd # "check" /\ nothing /\ Succeeds(o)
                     \/ /\ ~refused /\ t.cmd # "check" /\ ~nothing
                        /\ Become(o, [t EXCEPT !.pc = "write", !.set = ToSet(diff, t.force),
                                               !.drop = ToDrop(diff, t.prune)])
  /\ UNCHANGED <<contract, github, tfvars, stack, rule, disturbed, runs>>

-----------------------------------------------------------------------------
(* just pulumi                                                             *)

BeginPulumi(o) ==
  /\ Starts(o)
  /\ Become(o, [NoTool EXCEPT !.cmd = "pulumi", !.pc = "preflight"])
  /\ UNCHANGED <<contract, github, tfvars, stack, rule>>

\* The configuration, the command-line tools and their logins, the bucket and
\* the image are looked at; nothing is changed.
Preflight(o) ==
  /\ tool[o].pc = "preflight"
  /\ \/ Works /\ Goto(o, "up")
     \/ Mishap /\ GivesUp(o)
  /\ UNCHANGED <<contract, github, tfvars, stack, rule, disturbed, runs>>

\* An up that fails may have come as far as the outputs. One that reports no
\* changes is not followed by an export.
Up(o) ==
  /\ tool[o].pc = "up" /\ Disturbs({o})
  /\ \/ /\ Works /\ stack' = tfvars.infra
        /\ IF stack = tfvars.infra THEN Succeeds(o) ELSE Goto(o, "outputs")
     \/ Mishap /\ stack' \in {stack, tfvars.infra} /\ GivesUp(o)
  /\ UNCHANGED <<contract, github, tfvars, rule, runs>>

ReadOutputs(o) ==
  /\ tool[o].pc = "outputs"
  /\ \/ Works /\ Become(o, [tool[o] EXCEPT !.pc = "write", !.declared = Declared(TRUE), !.set = Declared(TRUE)])
     \/ Mishap /\ GivesUp(o)
  /\ UNCHANGED <<contract, github, tfvars, stack, rule, disturbed, runs>>

-----------------------------------------------------------------------------
(* The bootstrap script                                                    *)

EnvFile(project, provider, status) ==
  [Unset EXCEPT ![Project] = project, ![Provider] = provider, ![Transfer] = project, ![Status] = status]

\* The env file has every required key. Project and provider may disagree as
\* long as gcloud does not know it (a refused file changes nothing).
BeginBootstrap(o) ==
  /\ Starts(o)
  /\ \E project, provider \in Deployments, status \in Bmt \cup {None}, gcloud \in BOOLEAN :
       LET file == EnvFile(project, provider, status)
       IN  /\ ProviderFits(project, provider, gcloud)
           /\ Become(o, [NoTool EXCEPT !.cmd = "bootstrap", !.pc = "write", !.declared = file, !.set = file])
  /\ UNCHANGED <<contract, github, tfvars, stack, rule>>

-----------------------------------------------------------------------------
(* The calls that write                                                    *)

Pending(o) == {n \in Names : tool[o].set[n] # None}

\* The order each tool writes in.
Order(cmd) ==
  CASE cmd = "pulumi" -> <<Status, Project, Provider>>
    [] cmd = "bootstrap" -> <<Provider, Project, Transfer, Status>>
    [] OTHER -> <<Project, Provider, Status>>

NextName(o) ==
  LET order == Order(tool[o].cmd)
      first == CHOOSE k \in DOMAIN order : order[k] \in Pending(o) /\ \A j \in 1 .. k - 1 : order[j] \notin Pending(o)
  IN  order[first]

SetVariable(o) ==
  /\ tool[o].pc = "write" /\ Disturbs({o})
  /\ Pending(o) # {}
  /\ github' = [github EXCEPT ![NextName(o)] = tool[o].set[NextName(o)]]
  /\ Become(o, [tool[o] EXCEPT !.set[NextName(o)] = None, !.attempt = 1])
  /\ UNCHANGED <<contract, tfvars, stack, rule, runs, events>>

DeleteVariable(o) ==
  /\ tool[o].pc = "write" /\ Pending(o) = {} /\ Disturbs({o})
  /\ \E n \in tool[o].drop :
       /\ github' = [github EXCEPT ![n] = None]
       /\ Become(o, [tool[o] EXCEPT !.drop = @ \ {n}])
  /\ UNCHANGED <<contract, tfvars, stack, rule, runs, events>>

\* apply and the export stop at the first call that fails.
WriteFails(o) ==
  /\ tool[o].pc = "write" /\ tool[o].cmd # "bootstrap"
  /\ Pending(o) \cup tool[o].drop # {}
  /\ Mishap /\ GivesUp(o)
  /\ UNCHANGED <<contract, github, tfvars, stack, rule, disturbed, runs>>

\* The script repeats a call after a transient error. After the last attempt,
\* or another error, it returns rc, which it has read behind the `if' whose
\* condition failed: zero. The failure is counted as a success.
BootstrapCallFails(o) ==
  /\ tool[o].pc = "write" /\ tool[o].cmd = "bootstrap"
  /\ Mishap /\ Pending(o) # {}
  /\ \E transient \in BOOLEAN :
       Become(o, IF transient /\ tool[o].attempt < Retries THEN [tool[o] EXCEPT !.attempt = @ + 1]
                 ELSE [tool[o] EXCEPT !.set[NextName(o)] = None, !.attempt = 1])
  /\ UNCHANGED <<contract, github, tfvars, stack, rule, disturbed, runs>>

WritesEnd(o) ==
  /\ tool[o].pc = "write" /\ Pending(o) \cup tool[o].drop = {}
  /\ Succeeds(o)
  /\ UNCHANGED <<contract, github, tfvars, stack, rule, disturbed, runs, events>>

-----------------------------------------------------------------------------
(* What people change                                                      *)

\* configure_branch_protection.sh --apply: a new ruleset, or another shape of
\* one that exists (old). Only an active ruleset requires its context.
ConfigureBranch(old, context, active) ==
  /\ old \in rule \cup {None}
  /\ rule' = (rule \ {old}) \cup (IF active THEN {context} ELSE {})
  /\ UNCHANGED <<contract, github, tfvars, stack, tool, runs>>

EditTfvars(infra, status) ==
  /\ tfvars' = [infra |-> infra, status |-> status]
  /\ UNCHANGED <<contract, github, stack, rule, tool, runs>>

EditGithub(n, v) ==
  /\ github' = [github EXCEPT ![n] = v]
  /\ UNCHANGED <<contract, tfvars, stack, rule, tool, runs>>

Edit ==
  /\ Disturbs({})
  /\ Mishap
  /\ \/ \E old \in Contexts \cup {None}, context \in Contexts, active \in BOOLEAN : ConfigureBranch(old, context, active)
     \/ \E infra \in Deployments, status \in Contexts \cup {None} : EditTfvars(infra, status)
     \/ \E n \in Names, v \in Values \cup {None} :
          (v \in Contexts => n = Status) /\ (v \in Deployments => n # Status) /\ EditGithub(n, v)

ToolStep(o) ==
  \/ ReadDeclared(o) \/ ListGithub(o) \/ CompareAll(o) \/ Preflight(o) \/ Up(o) \/ ReadOutputs(o)
  \/ SetVariable(o) \/ DeleteVariable(o) \/ WriteFails(o) \/ BootstrapCallFails(o) \/ WritesEnd(o)

Next ==
  \/ \E o \in Operators : BeginRepoVars(o) \/ BeginPulumi(o) \/ BeginBootstrap(o) \/ ToolStep(o)
  \/ Edit

Spec == Init /\ [][Next]_vars

-----------------------------------------------------------------------------
(* Properties                                                              *)

Finishes(o, cmd) == tool[o].cmd = cmd /\ tool[o].pc \in {"compare", "write"} /\ tool'[o].pc = "done"

\* What a second comparison would find: with the same declarations, and the
\* contexts the branch then requires.
Again(o) == Compare(tool[o].declared, github', ResolveContexts(tool[o].declared, github'))

\* gh_repo_vars._apply: one that nobody disturbs and that reports success, the
\* early return included, leaves nothing to set for a second comparison.  One
\* that wrote has deleted as well: what is declared absent, and on request the
\* undeclared.  (The early return leaves deletions to be made: AppliedIsAccepted.)
\* pulumi_repo_vars.run: an export leaves what the stack declares.  (An up that
\* reports no changes is not followed by one, and is not spoken of.)
SuccessIsSynced ==
  [][\A o \in Operators :
       /\ o \notin disturbed /\ Finishes(o, "apply")
            => /\ Again(o).lacking \cup Again(o).missing \cup Again(o).changed = {}
               /\ tool[o].pc = "write" => Again(o).absent = {} /\ (tool[o].prune => Again(o).extra = {})
       /\ o \notin disturbed /\ Finishes(o, "pulumi")
            => \A n \in Names : Declared(TRUE)[n] # None => github'[n] = Declared(TRUE)[n]]_vars

\* A tool nobody disturbs gives a required variable the value of the stack or
\* of its own file, and drops one only if the file says so: an unreadable stack
\* or an ambiguous rule never makes it forget or invent one.
RequiredIsDeclared ==
  [][\A o \in Operators, n \in Required :
       o \notin disturbed /\ tool'[o] # tool[o] /\ github'[n] # github[n]
         => \/ tool[o].cmd = "bootstrap" /\ github'[n] = tool[o].declared[n]
            \/ github'[n] = stack /\ stack # None
            \/ /\ tool[o].config[n] # None
               /\ github'[n] = IF tool[o].config[n] = Empty THEN None ELSE tool[o].config[n]]_vars

\* Stronger than the code, the words of _apply ("set missing/changed vars,
\* delete absent vars"): after any success nothing declared absent is there.
AppliedIsAccepted ==
  [][\A o \in Operators :
       o \notin disturbed /\ Finishes(o, "apply") => Again(o).absent = {}]_vars

\* bootstrap_gh_vars.sh, "error: bootstrap finished with failures": a bootstrap
\* nobody disturbed that exits 0 has set every variable of its file.
BootstrapReportsFailures ==
  [][\A o \in Operators :
       o \notin disturbed /\ Finishes(o, "bootstrap")
         => \A n \in Names : tool[o].declared[n] # None => github'[n] = tool[o].declared[n]]_vars
=============================================================================
