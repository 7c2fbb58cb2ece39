-------------------------------- MODULE Ship --------------------------------
(***************************************************************************)
(* `just ship' on top of the deploys of RuntimeSeed: test, preflight,      *)
(* deploy, gate-verify, image, stopping at the first step that fails.      *)
(* Whether the image step is needed is decided before the first step, from *)
(* git and from the tags of the registry; the image itself is built from   *)
(* the working tree and tagged with the HEAD of the moment it is pushed.   *)
(***************************************************************************)
EXTENDS RuntimeSeed

CONSTANTS
  Runtime,    \* Runtime[c]: the content of runtime/ at commit c
  Branched,   \* commits whose runtime/ differs from the merge base
  Edited      \* runtime/ with uncommitted edits

Latest == "latest"
Builds == {Runtime[c] : c \in Commits} \cup {Edited}

ASSUME BranchAssumption == Branched \subseteq Commits
ASSUME BuildsAssumption == Latest \notin Commits /\ None \notin Builds

VARIABLES
  head,      \* the commit each operator has checked out
  edited,    \* operators with uncommitted edits under runtime/
  local,     \* bmt-orchestrator:latest on each operator's machine
  registry,  \* the image under each tag
  ship       \* of each operator: [at, image, gate, tag]

shipVars == <<head, edited, local, registry, ship>>
vars == <<seedVars, shipVars>>

NoShip == [at |-> "idle", image |-> TRUE, gate |-> TRUE, tag |-> None]
Shipping(o) == ship[o].at \notin {"idle", "done", "failed"}

TypeOK ==
  /\ SeedTypeOK
  /\ head \in [Operators -> Commits] /\ edited \subseteq Operators
  /\ local \in [Operators -> Builds \cup {None}]
  /\ registry \in [Commits \cup {Latest} -> Builds \cup {None}]
  /\ ship \in [Operators -> [at : {"idle", "test", "preflight", "deploy", "deploying", "gate", "build",
                                   "push", "tag", "done", "failed"},
                             image : BOOLEAN, gate : BOOLEAN, tag : Commits \cup {None}]]

Init ==
  /\ SeedInit
  /\ head = [o \in Operators |-> CHOOSE c \in Commits : TRUE] /\ edited = {}
  /\ local = [o \in Operators |-> None]
  /\ registry = [t \in Commits \cup {Latest} |-> None]
  /\ ship = [o \in Operators |-> NoShip]

Reach(o, at) == ship' = [ship EXCEPT ![o].at = at]

-----------------------------------------------------------------------------

ImageContextDirty(c, dirty) == dirty \/ c \in Branched

\* Mutant: git alone decides.
ImageNeededByGit(c, dirty, force, answers) == force \/ ImageContextDirty(c, dirty)

\* The image step is left out only for a clean tree whose tag is there; a
\* registry that does not answer counts as one that lacks the tag.
ImageNeeded(c, dirty, force, answers) ==
  force \/ ImageContextDirty(c, dirty) \/ ~answers \/ registry[c] = None

\* What the operator has checked out, --force-image and --skip-gate-verify (the
\* flags that skip another step are left out).
BeginShip(o, c, dirty, force, gate, answers) ==
  /\ ~Shipping(o) /\ ~Busy(o)
  /\ mode # "ci" /\ (mode # "free" => \A x \in Operators : ~Shipping(x) /\ ~Busy(x))
  /\ mode = "tame" => ~dirty
  /\ ship' = [ship EXCEPT ![o] = [NoShip EXCEPT !.at = "test", !.gate = gate,
                                   !.image = ImageNeeded(c, dirty, force, answers)]]
  /\ head' = [head EXCEPT ![o] = c]
  /\ edited' = IF dirty THEN edited \cup {o} ELSE edited \ {o}
  /\ UNCHANGED <<local, registry, mode, bucket, seed, marker, stage, job, ever, fails>>

\* The workflows against those of core-main: informational unless strict.
DriftCheck(strict, differs) == ~(strict /\ differs)

\* Tests and preflight only read.
TestPasses(o) ==
  /\ ship[o].at = "test" /\ Reach(o, "preflight")
  /\ UNCHANGED <<seedVars, head, edited, local, registry>>

PreflightPasses(o) ==
  /\ ship[o].at = "preflight"
  /\ \E strict, differs \in BOOLEAN : Reach(o, IF DriftCheck(strict, differs) THEN "deploy" ELSE "failed")
  /\ UNCHANGED <<seedVars, head, edited, local, registry>>

Deploy(o) ==
  /\ ship[o].at = "deploy"
  /\ Begin(o, "deploy", head[o])
  /\ Reach(o, "deploying")
  /\ UNCHANGED <<runs, head, edited, local, registry>>

Deployed(o) ==
  /\ ship[o].at = "deploying" /\ ~Busy(o)
  /\ Reach(o, IF job[o].pc = "done" THEN "gate" ELSE "failed")
  /\ UNCHANGED <<seedVars, head, edited, local, registry>>

\* The Justfile has no recipe gate-verify: the step fails unless it is skipped.
GateStep(o) ==
  /\ ship[o].at = "gate"
  /\ Reach(o, CASE ship[o].gate -> "failed"
                [] ~ship[o].gate /\ ship[o].image -> "build"
                [] OTHER -> "done")
  /\ UNCHANGED <<seedVars, head, edited, local, registry>>

BuildImage(o) ==
  /\ ship[o].at = "build"
  /\ local' = [local EXCEPT ![o] = IF o \in edited THEN Edited ELSE Runtime[head[o]]]
  /\ Reach(o, "push")
  /\ UNCHANGED <<seedVars, head, edited, registry>>

\* docker-push takes HEAD first, then pushes :latest and the tag.
PushLatest(o) ==
  /\ ship[o].at = "push"
  /\ registry' = [registry EXCEPT ![Latest] = local[o]]
  /\ ship' = [ship EXCEPT ![o].at = "tag", ![o].tag = head[o]]
  /\ UNCHANGED <<seedVars, head, edited, local>>

PushTag(o) ==
  /\ ship[o].at = "tag"
  /\ registry' = [registry EXCEPT ![ship[o].tag] = local[o]]
  /\ Reach(o, "done")
  /\ UNCHANGED <<seedVars, head, edited, local>>

StepFails(o) ==
  /\ Shipping(o) /\ ship[o].at \notin {"deploy", "deploying"}
  /\ mode \in {"serial", "free"} /\ fails < MaxFails
  /\ fails' = fails + 1
  /\ Reach(o, "failed")
  /\ UNCHANGED <<mode, bucket, seed, marker, stage, job, ever, runs, head, edited, local, registry>>

\* Nothing keeps the operator from another checkout while a step runs.
Checkout(o, c) ==
  /\ mode = "free" /\ Shipping(o) /\ c # head[o]
  /\ head' = [head EXCEPT ![o] = c]
  /\ UNCHANGED <<seedVars, edited, local, registry, ship>>

ShipStep(o) ==
  \/ TestPasses(o) \/ PreflightPasses(o) \/ Deploy(o) \/ Deployed(o) \/ GateStep(o)
  \/ BuildImage(o) \/ PushLatest(o) \/ PushTag(o)

NewShip(o) ==
  /\ Counted
  /\ \E c \in Commits, dirty, force, gate, answers \in BOOLEAN : BeginShip(o, c, dirty, force, gate, answers)

\* The commands of RuntimeSeed, by operators that do not ship at that time.
SeedStep(o) ==
  \/ CommandStep(o) /\ UNCHANGED shipVars
  \/ CallFails(o) /\ UNCHANGED shipVars
  \/ /\ ~Shipping(o) /\ (mode # "free" => \A x \in Operators : ~Shipping(x))
     /\ NewCommand(o) /\ UNCHANGED shipVars

Next ==
  \E o \in Operators :
    \/ SeedStep(o) \/ ShipStep(o) \/ NewShip(o) \/ StepFails(o)
    \/ \E c \in Commits : Checkout(o, c)

Spec == Init /\ [][Next]_vars

-----------------------------------------------------------------------------
(* Properties                                                              *)

\* A ship that completes has its sources in the bucket and an image under the
\* tag of its commit; with clean trees, working calls and nobody else
\* publishing, that image is the commit's, also when the step was skipped.
ShipDelivers ==
  [][\A o \in Operators :
       ship[o].at # "done" /\ ship'[o].at = "done" /\ mode # "free"
         => /\ registry'[head[o]] # None
            /\ mode = "tame" => Covered(o) /\ registry'[head[o]] = Runtime[head[o]]]_vars
=============================================================================
