--------------------------- MODULE RepoVarsProofs ---------------------------
(***************************************************************************)
(* Theorems about RepoVars, for any operators, deployments, contexts and   *)
(* override files.                                                         *)
(***************************************************************************)
EXTENDS RepoVars, FiniteSetTheorems, TLAPS

-----------------------------------------------------------------------------
(* Type correctness.                                                       *)

Settings == Values \cup {None}
Wishes == Values \cup {None, Empty}

Tools ==
  [cmd : {"none", "check", "apply", "pulumi", "bootstrap"},
   pc : {"idle", "preflight", "up", "outputs", "declare", "list", "compare", "write", "done"},
   config : [Names -> Wishes], prune : BOOLEAN, force : BOOLEAN,
   declared : [Names -> Wishes], current : [Names -> Settings], set : [Names -> Settings],
   drop : SUBSET Names, attempt : 1 .. Retries]

Types ==
  /\ contract \in {"default", "rule", "selector"} /\ disturbed \subseteq Operators
  /\ github \in [Names -> Settings]
  /\ tfvars \in [infra : Deployments, status : Contexts \cup {None}]
  /\ stack \in Deployments \cup {None} /\ rule \subseteq Contexts
  /\ tool \in [Operators -> Tools]
  /\ runs \in Nat /\ events \in 0 .. MaxEvents

LEMMA TypesAreTypeOK == Types => TypeOK
<1> SUFFICES ASSUME Types PROVE TypeOK
  OBVIOUS
<1>1. ASSUME NEW o \in Operators
      PROVE  /\ tool[o].cmd \in {"none", "check", "apply", "pulumi", "bootstrap"}
             /\ tool[o].pc \in {"idle", "preflight", "up", "outputs", "declare", "list", "compare", "write", "done"}
             /\ {tool[o].config, tool[o].declared} \subseteq [Names -> Values \cup {None, Empty}]
             /\ {tool[o].current, tool[o].set} \subseteq [Names -> Values \cup {None}]
             /\ tool[o].drop \subseteq Names /\ tool[o].attempt \in 1 .. Retries
  BY DEF Types, Tools, Settings, Wishes
<1> QED
  BY <1>1 DEF Types, TypeOK, Settings

LEMMA UnsetTypes == Unset \in [Names -> Settings] /\ Unset \in [Names -> Wishes]
  BY DEF Unset, Settings, Wishes

LEMMA NoToolType == NoTool \in Tools
  BY UnsetTypes, BoundsAssumption DEF NoTool, Tools

LEMMA NamesAre ==
  /\ Names = {"GCP_PROJECT", "GCP_WIF_PROVIDER", "BMT_STATUS_CONTEXT", "BMT_DATASET_TRANSFER_JOB"}
  /\ Canonical = {"GCP_PROJECT", "GCP_WIF_PROVIDER", "BMT_STATUS_CONTEXT"}
  /\ Required = {"GCP_PROJECT", "GCP_WIF_PROVIDER"}
  BY DEF Names, Canonical, Required, Project, Provider, Status, Transfer

LEMMA DeclaredType ==
  ASSUME Types, NEW available
  PROVE  Declared(available) \in [Names -> Settings] /\ Declared(available) \in [Names -> Wishes]
  BY DEF Types, Declared, Settings, Wishes, Values

LEMMA OverriddenType ==
  ASSUME NEW d \in [Names -> Wishes], NEW c \in [Names -> Wishes]
  PROVE  Overridden(d, c) \in [Names -> Wishes]
  BY DEF Overridden

LEMMA ContextTypes ==
  ASSUME Types, NEW d, NEW c
  PROVE  ResolveContexts(d, c) \subseteq Contexts
<1>1. rule \subseteq Contexts
  BY DEF Types
<1>2. ASSUME NEW S, S \subseteq Contexts PROVE Preferred(d, c, S) \subseteq Contexts
  BY <1>2 DEF Preferred
<1>3. RuleContext(d, c) \subseteq Contexts
  <2> DEFINE candidates == IF contract = "selector" THEN rule \cap Bmt ELSE rule
             preferred == Preferred(d, c, candidates)
  <2>1. candidates \subseteq Contexts
    BY <1>1
  <2>2. preferred \subseteq Contexts /\ Preferred(d, c, Contexts) \subseteq Contexts
    BY <1>2, <2>1
  <2>3. RuleContext(d, c) \in {Preferred(d, c, Contexts), candidates, preferred, candidates \cap Bmt, {}}
    BY DEF RuleContext
  <2> QED
    BY <2>1, <2>2, <2>3
<1> QED
  BY <1>3 DEF ResolveContexts
-----------------------------------------------------------------------------
(* The comparison.                                                         *)

\* A required variable is wanted as it is declared, else as it is set.
Wanted(n, declared, current) ==
  IF declared[n] # None THEN declared[n] ELSE IF current[n] # None THEN current[n] ELSE Empty

LEMMA DesiredValues ==
  ASSUME NEW d \in [Names -> Wishes], NEW c \in [Names -> Settings], NEW context \in SUBSET Contexts
  PROVE  /\ Compare(d, c, context).desired \in [Canonical -> Values \cup {Empty}]
         /\ \A n \in Required : Compare(d, c, context).desired[n] = Wanted(n, d, c)
<1> DEFINE origin == [n \in Canonical |-> Origin(n, d, c, context # {})]
           desired == [n \in Canonical |-> CASE origin[n] = "branch_rule" -> CHOOSE x \in context : TRUE
                                            [] origin[n] = "config" -> d[n]
                                            [] origin[n] = "current" -> c[n]
                                            [] OTHER -> Empty]
<1>1. Compare(d, c, context).desired = desired
  BY DEF Compare
<1>2. ASSUME NEW n \in Canonical
      PROVE  /\ desired[n] \in Values \cup {Empty}
             /\ n \in Required => desired[n] = Wanted(n, d, c)
  <2>1. n \in Names /\ d[n] \in Wishes /\ c[n] \in Settings /\ (n \in Required => n # Status)
    BY NamesAre DEF Status
  <2>2. origin[n] = Origin(n, d, c, context # {})
    OBVIOUS
  <2>3. CASE n = Status /\ context # {}
    <3>1. origin[n] = "branch_rule"
      BY <2>2, <2>3 DEF Origin
    <3>2. desired[n] = CHOOSE x \in context : TRUE
      BY <3>1
    <3>3. desired[n] \in context
      BY <2>3, <3>2
    <3> QED
      BY <2>1, <2>3, <3>3 DEF Values
  <2>4. CASE ~(n = Status /\ context # {}) /\ d[n] # None
    <3>1. origin[n] = "config"
      BY <2>2, <2>4 DEF Origin
    <3>2. desired[n] = d[n]
      BY <3>1
    <3> QED
      BY <2>1, <2>4, <3>2 DEF Wishes, Wanted
  <2>5. CASE ~(n = Status /\ context # {}) /\ d[n] = None /\ c[n] # None
    <3>1. origin[n] = "current"
      BY <2>2, <2>5 DEF Origin
    <3>2. desired[n] = c[n]
      BY <3>1
    <3> QED
      BY <2>1, <2>5, <3>2 DEF Settings, Wanted
  <2>6. CASE ~(n = Status /\ context # {}) /\ d[n] = None /\ c[n] = None
    <3>1. origin[n] \in {"missing_required", "optional_absent"}
      BY <2>2, <2>6 DEF Origin
    <3>2. desired[n] = Empty
      BY <3>1
    <3> QED
      BY <2>1, <2>6, <3>2 DEF Wanted
  <2> QED
    BY <2>3, <2>4, <2>5, <2>6
<1>3. desired \in [Canonical -> Values \cup {Empty}]
  BY <1>2
<1>4. Required \subseteq Canonical
  BY DEF Canonical
<1> HIDE DEF origin, desired
<1> QED
  BY <1>1, <1>2, <1>3, <1>4

\* What apply is about to do: it sets wishes that are not empty, and deletes
\* what is wished to be absent or is in no contract.
LEMMA WhatApplyDoes ==
  ASSUME NEW d \in [Names -> Wishes], NEW c \in [Names -> Settings], NEW context \in SUBSET Contexts,
         NEW force \in BOOLEAN, NEW prune \in BOOLEAN
  PROVE  LET diff == Compare(d, c, context)
         IN  /\ ToSet(diff, force) \in [Names -> Settings]
             /\ ToDrop(diff, prune) \subseteq Names
             /\ \A n \in Names : ToSet(diff, force)[n] # None => n \in Canonical
             /\ \A n \in Required :
                  /\ ToSet(diff, force)[n] # None => ToSet(diff, force)[n] = Wanted(n, d, c)
                  /\ n \in ToDrop(diff, prune) => Wanted(n, d, c) = Empty /\ c[n] # None
<1> DEFINE diff == Compare(d, c, context)
<1>1. /\ diff.desired \in [Canonical -> Values \cup {Empty}]
      /\ \A n \in Required : diff.desired[n] = Wanted(n, d, c)
  BY DesiredValues
<1>2. /\ \A n \in diff.missing \cup diff.changed : n \in Canonical /\ diff.desired[n] # Empty
      /\ \A n \in diff.absent : n \in Canonical /\ diff.desired[n] = Empty /\ c[n] # None
      /\ diff.extra \subseteq Names \ Canonical
  BY DEF Compare
<1>3. Canonical \subseteq Names /\ Required \subseteq Canonical
  BY NamesAre
<1> HIDE DEF diff
<1>4. \A n \in Names : /\ ToSet(diff, force)[n] \in Settings
                       /\ ToSet(diff, force)[n] # None => n \in Canonical /\ ToSet(diff, force)[n] = diff.desired[n]
  BY <1>1, <1>2, <1>3, NullsAssumption DEF ToSet, Settings
<1>5. ToSet(diff, force) \in [Names -> Settings]
  BY <1>4 DEF ToSet
<1>6. ToDrop(diff, prune) \subseteq Names
  BY <1>2, <1>3 DEF ToDrop
<1>7. \A n \in Required : n \in ToDrop(diff, prune) => n \in diff.absent
  BY <1>2, <1>3 DEF ToDrop
<1> QED
  BY <1>1, <1>2, <1>3, <1>4, <1>5, <1>6, <1>7 DEF diff

-----------------------------------------------------------------------------
LEMMA InitTypes == Init => Types
<1> SUFFICES ASSUME Init PROVE Types
  OBVIOUS
<1>1. github \in [Names -> Settings]
  BY UnsetTypes DEF Init, Settings, Values
<1>2. rule \subseteq Contexts
  BY ContextsAssumption DEF Init
<1>3. tool \in [Operators -> Tools]
  BY NoToolType DEF Init
<1>4. tfvars \in [infra : Deployments, status : Contexts \cup {None}]
  BY DEF Init
<1> QED
  BY <1>1, <1>2, <1>3, <1>4, BoundsAssumption DEF Init, Types

LEMMA BecomeTypes ==
  ASSUME Types, NEW o \in Operators, NEW t \in Tools, Become(o, t)
  PROVE  tool' \in [Operators -> Tools] /\ tool'[o] = t /\ \A x \in Operators \ {o} : tool'[x] = tool[x]
  BY DEF Types, Become

LEMMA GivesUpTypes ==
  ASSUME Types, NEW o \in Operators, GivesUp(o)
  PROVE  tool' \in [Operators -> Tools] /\ tool'[o] = NoTool /\ \A x \in Operators \ {o} : tool'[x] = tool[x]
  BY NoToolType, BecomeTypes DEF GivesUp

LEMMA SucceedsTypes ==
  ASSUME Types, NEW o \in Operators, Succeeds(o)
  PROVE  /\ tool' \in [Operators -> Tools] /\ tool'[o] = [NoTool EXCEPT !.pc = "done"]
         /\ \A x \in Operators \ {o} : tool'[x] = tool[x]
<1>1. [NoTool EXCEPT !.pc = "done"] \in Tools
  BY NoToolType DEF Tools
<1> QED
  BY <1>1, BecomeTypes DEF Succeeds

LEMMA EventTypes == ASSUME Types, Mishap \/ Works PROVE events' \in 0 .. MaxEvents
  BY BoundsAssumption DEF Types, Mishap, Works

LEMMA StartTypes ==
  ASSUME Types, NEW o \in Operators, Starts(o)
  PROVE  events' \in 0 .. MaxEvents /\ runs' \in Nat /\ disturbed' \subseteq Operators
  BY EventTypes DEF Types, Starts

LEMMA DisturbsTypes ==
  ASSUME Types, NEW actors, Disturbs(actors)
  PROVE  disturbed' \subseteq Operators
  BY DEF Types, Disturbs
-----------------------------------------------------------------------------
(* A tool writes what it has decided to write, in its order.               *)

\* Only the bootstrap script sets a variable of no contract.
Shape(o) ==
  /\ tool[o].pc # "write" => tool[o].drop = {}
  /\ tool[o].pc = "write" /\ tool[o].cmd # "bootstrap" => tool[o].set[Transfer] = None

\* One of a few is the first.
LEMMA FirstIsOne ==
  ASSUME NEW order, NEW P, NEW l \in Nat, DOMAIN order = 1 .. l, l <= 4, \E k \in 1 .. l : order[k] \in P
  PROVE  LET first == CHOOSE k \in DOMAIN order : order[k] \in P /\ \A j \in 1 .. k - 1 : order[j] \notin P
         IN  order[first] \in P
<1>1. \E k \in DOMAIN order : order[k] \in P /\ \A j \in 1 .. k - 1 : order[j] \notin P
  <2>1. CASE l >= 1 /\ order[1] \in P
    BY <2>1
  <2>2. CASE l >= 2 /\ order[1] \notin P /\ order[2] \in P
    BY <2>2
  <2>3. CASE l >= 3 /\ order[1] \notin P /\ order[2] \notin P /\ order[3] \in P
    BY <2>3
  <2>4. CASE l >= 4 /\ order[1] \notin P /\ order[2] \notin P /\ order[3] \notin P
    BY <2>4
  <2> QED
    BY <2>1, <2>2, <2>3, <2>4
<1> QED
  BY <1>1

LEMMA NextNameIsPending ==
  ASSUME Types, NEW o \in Operators, tool[o].pc = "write", Shape(o), Pending(o) # {}
  PROVE  NextName(o) \in Pending(o)
<1>1. Pending(o) \subseteq {Project, Provider, Transfer, Status}
  BY DEF Pending, Names, Canonical, Required
<1>2. CASE tool[o].cmd = "bootstrap"
  <2> DEFINE order == <<Provider, Project, Transfer, Status>>
  <2>1. Order(tool[o].cmd) = order
    BY <1>2 DEF Order
  <2>2. Pending(o) \subseteq {Provider, Project, Transfer, Status}
    BY <1>1, <1>2 DEF Pending, Shape
  <2>3. DOMAIN order = 1 .. 4 /\ order[1] = Provider /\ order[2] = Project /\ order[3] = Transfer /\ order[4] = Status
    OBVIOUS
  <2>4. \E k \in 1 .. 4 : order[k] \in Pending(o)
    BY <2>2, <2>3
  <2> HIDE DEF order
  <2> QED
    BY <2>1, <2>3, <2>4, FirstIsOne DEF NextName
<1>3. CASE tool[o].cmd = "pulumi"
  <2> DEFINE order == <<Status, Project, Provider>>
  <2>1. Order(tool[o].cmd) = order
    BY <1>3 DEF Order
  <2>2. Pending(o) \subseteq {Status, Project, Provider}
    BY <1>1, <1>3 DEF Pending, Shape
  <2>3. DOMAIN order = 1 .. 3 /\ order[1] = Status /\ order[2] = Project /\ order[3] = Provider
    OBVIOUS
  <2>4. \E k \in 1 .. 3 : order[k] \in Pending(o)
    BY <2>2, <2>3
  <2> HIDE DEF order
  <2> QED
    BY <2>1, <2>3, <2>4, FirstIsOne DEF NextName
<1>4. CASE tool[o].cmd \notin {"bootstrap", "pulumi"}
  <2> DEFINE order == <<Project, Provider, Status>>
  <2>1. Order(tool[o].cmd) = order
    BY <1>4 DEF Order
  <2>2. Pending(o) \subseteq {Project, Provider, Status}
    BY <1>1, <1>4 DEF Pending, Shape
  <2>3. DOMAIN order = 1 .. 3 /\ order[1] = Project /\ order[2] = Provider /\ order[3] = Status
    OBVIOUS
  <2>4. \E k \in 1 .. 3 : order[k] \in Pending(o)
    BY <2>2, <2>3
  <2> HIDE DEF order
  <2> QED
    BY <2>1, <2>3, <2>4, FirstIsOne DEF NextName
<1> QED
  BY <1>2, <1>3, <1>4
-----------------------------------------------------------------------------
(* Where the value of a required variable comes from.                      *)

\* A value a tool may write: the stack's, its file's, or what is set already.
Backs(o, n, v) ==
  \/ v = stack \/ v = tool[o].config[n] \/ v = github[n]
  \/ tool[o].cmd = "bootstrap" /\ v = tool[o].declared[n]

\* As long as nobody else changes what the tool has read.
Backed(o) ==
  o \notin disturbed =>
    \A n \in Required :
      /\ tool[o].pc \in {"list", "compare"} /\ tool[o].declared[n] # None =>
           tool[o].declared[n] \in {stack, tool[o].config[n]}
      /\ tool[o].pc = "compare" => tool[o].current = github
      /\ tool[o].pc = "write" /\ tool[o].set[n] # None => Backs(o, n, tool[o].set[n])
      /\ tool[o].pc = "write" /\ n \in tool[o].drop => tool[o].config[n] = Empty

ToolInv == \A o \in Operators : Shape(o) /\ Backed(o)

\* A tool that has ended, or has just begun, has nothing to write.
LEMMA NothingToWrite ==
  ASSUME NEW o \in Operators, tool'[o].pc \notin {"list", "compare", "write"}, tool'[o].drop = {}
  PROVE  Shape(o)' /\ Backed(o)'
  BY DEF Shape, Backed

\* A step of one tool does not move the others, and disturbs them when it
\* changes what they may have read.
Apart(o) ==
  \A x \in Operators \ {o} :
    /\ tool'[x] = tool[x] /\ (x \in disturbed => x \in disturbed')
    /\ UNCHANGED <<github, stack>> \/ (Running(x) => x \in disturbed')

LEMMA ApartKeeps ==
  ASSUME ToolInv, NEW o \in Operators, Apart(o), NEW x \in Operators \ {o}
  PROVE  Shape(x)' /\ Backed(x)'
<1>1. Shape(x) /\ Backed(x)
  BY DEF ToolInv
<1>2. tool'[x] = tool[x] /\ (x \notin disturbed' => x \notin disturbed)
  BY DEF Apart
<1>3. CASE UNCHANGED <<github, stack>>
  BY <1>1, <1>2, <1>3 DEF Shape, Backed, Backs
<1>4. CASE Running(x) => x \in disturbed'
  BY <1>1, <1>2, <1>4 DEF Shape, Backed, Running
<1> QED
  BY <1>3, <1>4 DEF Apart

LEMMA BeginSteps ==
  ASSUME Types, NEW o \in Operators, BeginRepoVars(o) \/ BeginPulumi(o) \/ BeginBootstrap(o)
  PROVE  Types' /\ Shape(o)' /\ Backed(o)' /\ Apart(o)
<1>0. /\ events' \in 0 .. MaxEvents /\ runs' \in Nat /\ disturbed' \subseteq Operators
      /\ \A x \in Operators \ {o} : x \in disturbed => x \in disturbed'
  BY StartTypes DEF BeginRepoVars, BeginPulumi, BeginBootstrap, Starts
<1>1. UNCHANGED <<contract, github, tfvars, stack, rule>>
  BY DEF BeginRepoVars, BeginPulumi, BeginBootstrap
<1>2. ASSUME NEW t \in Tools, Become(o, t), t.drop = {}, t.pc \notin {"list", "compare", "write"}
      PROVE  Types' /\ Shape(o)' /\ Backed(o)' /\ Apart(o)
  <2>1. /\ tool' \in [Operators -> Tools] /\ tool'[o] = t
        /\ \A x \in Operators \ {o} : tool'[x] = tool[x]
    BY <1>2, BecomeTypes
  <2>2. Shape(o)' /\ Backed(o)'
    BY <1>2, <2>1, NothingToWrite
  <2> QED
    BY <1>0, <1>1, <2>1, <2>2 DEF Types, Apart
<1>3. CASE BeginRepoVars(o)
  <2>1. PICK cmd \in {"check", "apply"}, config \in Overrides, prune \in BOOLEAN, force \in BOOLEAN :
          Become(o, [NoTool EXCEPT !.cmd = cmd, !.pc = "declare", !.config = config, !.prune = prune, !.force = force])
    BY <1>3 DEF BeginRepoVars
  <2> DEFINE t == [NoTool EXCEPT !.cmd = cmd, !.pc = "declare", !.config = config, !.prune = prune, !.force = force]
  <2>2. config \in [Names -> Wishes]
    BY OverridesAssumption DEF Wishes
  <2>3. t \in Tools /\ t.drop = {} /\ t.pc = "declare"
    BY <2>2, NoToolType DEF Tools, NoTool
  <2> QED
    BY <1>2, <2>1, <2>3
<1>4. CASE BeginPulumi(o)
  <2> DEFINE t == [NoTool EXCEPT !.cmd = "pulumi", !.pc = "preflight"]
  <2>1. t \in Tools /\ t.drop = {} /\ t.pc = "preflight"
    BY NoToolType DEF Tools, NoTool
  <2> QED
    BY <1>2, <1>4, <2>1 DEF BeginPulumi
<1>5. CASE BeginBootstrap(o)
  <2>1. PICK project \in Deployments, provider \in Deployments, status \in Bmt \cup {None} :
          LET file == EnvFile(project, provider, status)
          IN  Become(o, [NoTool EXCEPT !.cmd = "bootstrap", !.pc = "write", !.declared = file, !.set = file])
    BY <1>5 DEF BeginBootstrap
  <2> DEFINE file == EnvFile(project, provider, status)
             t == [NoTool EXCEPT !.cmd = "bootstrap", !.pc = "write", !.declared = file, !.set = file]
  <2>2. file \in [Names -> Settings] /\ file \in [Names -> Wishes]
    BY UnsetTypes, ContextsAssumption DEF EnvFile, Settings, Wishes, Values
  <2> HIDE DEF file
  <2>3. t \in Tools /\ t.drop = {} /\ t.pc = "write" /\ t.cmd = "bootstrap" /\ t.set = t.declared
    BY <2>2, NoToolType DEF Tools, NoTool
  <2>4. /\ tool' \in [Operators -> Tools] /\ tool'[o] = t
        /\ \A x \in Operators \ {o} : tool'[x] = tool[x]
    BY <2>1, <2>3, BecomeTypes DEF file
  <2>5. Shape(o)' /\ Backed(o)'
    BY <2>3, <2>4 DEF Shape, Backed, Backs
  <2> QED
    BY <1>0, <1>1, <2>4, <2>5 DEF Types, Apart
<1> QED
  BY <1>3, <1>4, <1>5

\* Reading and deciding: nothing outside the tool changes.
LEMMA ReadSteps ==
  ASSUME Types, NEW o \in Operators, Shape(o), Backed(o),
         ReadDeclared(o) \/ ListGithub(o) \/ CompareAll(o) \/ Preflight(o) \/ ReadOutputs(o)
  PROVE  Types' /\ Shape(o)' /\ Backed(o)' /\ Apart(o)
<1>0. UNCHANGED <<contract, github, tfvars, stack, rule, disturbed, runs>> /\ events' \in 0 .. MaxEvents
  BY EventTypes DEF ReadDeclared, ListGithub, CompareAll, Preflight, ReadOutputs
<1>1. ASSUME NEW t \in Tools, Become(o, t), (t.drop = {} /\ t.pc \notin {"list", "compare", "write"}) \/ (Shape(o)' /\ Backed(o)')
      PROVE  Types' /\ Shape(o)' /\ Backed(o)' /\ Apart(o)
  <2>1. /\ tool' \in [Operators -> Tools] /\ tool'[o] = t
        /\ \A x \in Operators \ {o} : tool'[x] = tool[x]
    BY <1>1, BecomeTypes
  <2>2. Shape(o)' /\ Backed(o)'
    BY <1>1, <2>1, NothingToWrite
  <2> QED
    BY <1>0, <2>1, <2>2 DEF Types, Apart
<1>g. ASSUME GivesUp(o) PROVE Types' /\ Shape(o)' /\ Backed(o)' /\ Apart(o)
  BY <1>1, <1>g, NoToolType DEF GivesUp, NoTool
<1>s. ASSUME Succeeds(o) PROVE Types' /\ Shape(o)' /\ Backed(o)' /\ Apart(o)
  <2> DEFINE t == [NoTool EXCEPT !.pc = "done"]
  <2>1. t \in Tools /\ t.drop = {} /\ t.pc = "done"
    BY NoToolType DEF Tools, NoTool
  <2> QED
    BY <1>1, <1>s, <2>1 DEF Succeeds
<1>t. /\ tool[o] \in Tools /\ tool[o].config \in [Names -> Wishes] /\ tool[o].declared \in [Names -> Wishes]
      /\ tool[o].current \in [Names -> Settings] /\ tool[o].force \in BOOLEAN /\ tool[o].prune \in BOOLEAN
  BY DEF Types, Tools
<1>r. Required \subseteq Names /\ Transfer \notin Canonical /\ Status \notin Required
  BY NamesAre DEF Transfer, Status
<1>2. CASE ReadDeclared(o)
  <2>1. PICK available \in BOOLEAN :
          Become(o, [tool[o] EXCEPT !.pc = "list", !.declared = Overridden(Declared(available), tool[o].config)])
    BY <1>2 DEF ReadDeclared
  <2> DEFINE d == Overridden(Declared(available), tool[o].config)
             t == [tool[o] EXCEPT !.pc = "list", !.declared = d]
  <2>2. d \in [Names -> Wishes]
    BY <1>t, DeclaredType, OverriddenType
  <2>3. \A n \in Required : d[n] # None => d[n] \in {stack, tool[o].config[n]}
    BY <1>r DEF Overridden, Declared
  <2> HIDE DEF d
  <2>4. t \in Tools /\ t.pc = "list" /\ t.drop = tool[o].drop /\ t.declared = d /\ t.config = tool[o].config
    BY <1>t, <2>2 DEF Tools
  <2>5. tool'[o] = t
    BY <2>1, <2>4, BecomeTypes DEF d
  <2>6. Shape(o)' /\ Backed(o)'
    BY <1>0, <1>2, <2>3, <2>4, <2>5 DEF ReadDeclared, Shape, Backed
  <2> QED
    BY <1>1, <2>1, <2>4, <2>6 DEF d
<1>3. CASE ListGithub(o)
  <2>1. CASE Become(o, [tool[o] EXCEPT !.pc = "compare", !.current = github])
    <3> DEFINE t == [tool[o] EXCEPT !.pc = "compare", !.current = github]
    <3>1. /\ t \in Tools /\ t.pc = "compare" /\ t.drop = tool[o].drop /\ t.declared = tool[o].declared
          /\ t.config = tool[o].config /\ t.current = github
      BY <1>t DEF Tools, Types
    <3>2. tool'[o] = t
      BY <2>1, <3>1, BecomeTypes
    <3>3. Shape(o)' /\ Backed(o)'
      BY <1>0, <1>3, <3>1, <3>2 DEF ListGithub, Shape, Backed
    <3> QED
      BY <1>1, <2>1, <3>1, <3>3
  <2> QED
    BY <1>3, <1>g, <2>1 DEF ListGithub
<1>4. CASE CompareAll(o)
  <2> DEFINE d == tool[o].declared
             c == tool[o].current
             context == ResolveContexts(d, c)
             diff == Compare(d, c, context)
             t == [tool[o] EXCEPT !.pc = "write", !.set = ToSet(diff, tool[o].force), !.drop = ToDrop(diff, tool[o].prune)]
  <2>1. CASE Become(o, t)
    <3>1. context \in SUBSET Contexts
      BY ContextTypes
    <3>2. /\ ToSet(diff, tool[o].force) \in [Names -> Settings]
          /\ ToDrop(diff, tool[o].prune) \subseteq Names
          /\ \A n \in Names : ToSet(diff, tool[o].force)[n] # None => n \in Canonical
          /\ \A n \in Required :
               /\ ToSet(diff, tool[o].force)[n] # None => ToSet(diff, tool[o].force)[n] = Wanted(n, d, c)
               /\ n \in ToDrop(diff, tool[o].prune) => Wanted(n, d, c) = Empty /\ c[n] # None
      BY <1>t, <3>1, WhatApplyDoes
    <3> DEFINE set == ToSet(diff, tool[o].force)
               drop == ToDrop(diff, tool[o].prune)
    <3>3. /\ set \in [Names -> Settings] /\ drop \subseteq Names /\ set[Transfer] = None
          /\ \A n \in Required : /\ set[n] # None => set[n] = Wanted(n, d, c)
                                 /\ n \in drop => Wanted(n, d, c) = Empty /\ c[n] # None
      BY <1>r, <3>2 DEF Names
    <3> HIDE DEF diff, context, set, drop
    <3>4. /\ t \in Tools /\ t.pc = "write" /\ t.set = set /\ t.drop = drop /\ t.config = tool[o].config
      BY <1>t, <3>3 DEF Tools, set, drop
    <3>5. tool'[o] = t
      BY <2>1, <3>4, BecomeTypes
    <3>6. Shape(o)'
      BY <3>3, <3>4, <3>5 DEF Shape
    <3>7. ASSUME o \notin disturbed, NEW n \in Required
          PROVE  /\ d[n] # None => d[n] \in {stack, tool[o].config[n]}
                 /\ c = github
      BY <1>4, <3>7 DEF CompareAll, Backed
    <3>8. ASSUME o \notin disturbed, NEW n \in Required
          PROVE  /\ set[n] # None => set[n] \in {stack, tool[o].config[n], github[n]}
                 /\ n \in drop => tool[o].config[n] = Empty
      <4>1. set[n] \in Settings /\ c[n] \in Settings /\ stack # Empty /\ Empty \notin Settings
        BY <1>r, <1>t, <3>3, NullsAssumption DEF Types, Settings, Values
      <4> QED
        BY <3>3, <3>7, <3>8, <4>1 DEF Wanted
    <3>9. Backed(o)'
      BY <1>0, <3>4, <3>5, <3>8 DEF Backed, Backs
    <3> QED
      BY <1>1, <2>1, <3>4, <3>6, <3>9
  <2>2. GivesUp(o) \/ Succeeds(o) \/ Become(o, t)
    BY <1>4 DEF CompareAll
  <2> QED
    BY <1>g, <1>s, <2>1, <2>2
<1>5. CASE Preflight(o)
  <2>1. CASE Goto(o, "up")
    <3> DEFINE t == [tool[o] EXCEPT !.pc = "up"]
    <3>1. t \in Tools /\ t.pc = "up" /\ t.drop = {}
      BY <1>t, <1>5 DEF Tools, Preflight, Shape
    <3> QED
      BY <1>1, <2>1, <3>1 DEF Goto
  <2> QED
    BY <1>5, <1>g, <2>1 DEF Preflight
<1>6. CASE ReadOutputs(o)
  <2>1. CASE Become(o, [tool[o] EXCEPT !.pc = "write", !.declared = Declared(TRUE), !.set = Declared(TRUE)])
    <3> DEFINE d == Declared(TRUE)
               t == [tool[o] EXCEPT !.pc = "write", !.declared = d, !.set = d]
    <3>1. /\ d \in [Names -> Settings] /\ d \in [Names -> Wishes] /\ d[Transfer] = None
          /\ \A n \in Required : d[n] = stack
      BY <1>r, DeclaredType, NamesAre DEF Declared, Transfer, Status
    <3> HIDE DEF d
    <3>2. t \in Tools /\ t.pc = "write" /\ t.drop = {} /\ t.set = d
      BY <1>t, <1>6, <3>1 DEF Tools, ReadOutputs, Shape
    <3>3. tool'[o] = t
      BY <2>1, <3>2, BecomeTypes DEF d
    <3>4. Shape(o)' /\ Backed(o)'
      BY <1>0, <3>1, <3>2, <3>3 DEF Shape, Backed, Backs
    <3> QED
      BY <1>1, <2>1, <3>2, <3>4 DEF d
  <2> QED
    BY <1>6, <1>g, <2>1 DEF ReadOutputs
<1> QED
  BY <1>2, <1>3, <1>4, <1>5, <1>6

LEMMA UpSteps ==
  ASSUME Types, NEW o \in Operators, Shape(o), Up(o)
  PROVE  Types' /\ Shape(o)' /\ Backed(o)' /\ Apart(o)
<1>0. /\ UNCHANGED <<contract, github, tfvars, rule, runs>> /\ events' \in 0 .. MaxEvents
      /\ disturbed' \subseteq Operators /\ stack' \in Deployments \cup {None}
  BY EventTypes, DisturbsTypes DEF Up, Types
<1>1. /\ tool' \in [Operators -> Tools] /\ tool'[o].drop = {} /\ tool'[o].pc \in {"outputs", "idle", "done"}
      /\ \A x \in Operators \ {o} : tool'[x] = tool[x]
  <2>1. CASE Goto(o, "outputs")
    <3> DEFINE t == [tool[o] EXCEPT !.pc = "outputs"]
    <3>1. t \in Tools /\ t.pc = "outputs" /\ t.drop = {}
      BY DEF Types, Tools, Up, Shape
    <3> QED
      BY <2>1, <3>1, BecomeTypes DEF Goto
  <2>2. CASE GivesUp(o)
    BY <2>2, GivesUpTypes DEF NoTool
  <2>3. CASE Succeeds(o)
    BY <2>3, SucceedsTypes DEF NoTool
  <2> QED
    BY <2>1, <2>2, <2>3 DEF Up
<1>2. Shape(o)' /\ Backed(o)'
  BY <1>1, NothingToWrite
<1>3. Apart(o)
  BY <1>1 DEF Up, Disturbs, Apart
<1> QED
  BY <1>0, <1>1, <1>2, <1>3 DEF Types

\* One variable is written, and left out of what remains.
LEMMA SetSteps ==
  ASSUME Types, NEW o \in Operators, Shape(o), Backed(o), SetVariable(o)
  PROVE  Types' /\ Shape(o)' /\ Backed(o)' /\ Apart(o)
<1> DEFINE name == NextName(o)
           t == [tool[o] EXCEPT !.set[name] = None, !.attempt = 1]
<1>1. name \in Names /\ tool[o].set[name] # None
  BY NextNameIsPending DEF SetVariable, Pending
<1>2. /\ UNCHANGED <<contract, tfvars, stack, rule, runs, events>> /\ disturbed' \subseteq Operators
      /\ github' = [github EXCEPT ![name] = tool[o].set[name]] /\ Become(o, t) /\ tool[o].pc = "write"
  BY DisturbsTypes DEF SetVariable
<1> HIDE DEF name
<1>3. /\ tool[o] \in Tools /\ tool[o].set \in [Names -> Settings] /\ github \in [Names -> Settings]
      /\ tool \in [Operators -> Tools]
  BY DEF Types, Tools
<1>4. github' \in [Names -> Settings] /\ \A n \in Names \ {name} : github'[n] = github[n]
  BY <1>1, <1>2, <1>3
<1>5. /\ t \in Tools /\ t.pc = "write" /\ t.cmd = tool[o].cmd /\ t.drop = tool[o].drop
      /\ t.config = tool[o].config /\ t.declared = tool[o].declared /\ t.set = [tool[o].set EXCEPT ![name] = None]
  <2> DEFINE set == [tool[o].set EXCEPT ![name] = None]
  <2>0. 1 \in 1 .. Retries /\ None \in Settings
    BY BoundsAssumption DEF Settings
  <2>1. set \in [Names -> Settings]
    BY <1>3, <2>0
  <2>2. t = [tool[o] EXCEPT !.set = set, !.attempt = 1]
    BY <1>3 DEF Tools
  <2> HIDE DEF t, set
  <2>3. t \in Tools /\ t.pc = tool[o].pc /\ t.cmd = tool[o].cmd /\ t.drop = tool[o].drop
        /\ t.config = tool[o].config /\ t.declared = tool[o].declared /\ t.set = set
    BY <1>3, <2>0, <2>1, <2>2 DEF Tools
  <2> QED
    BY <1>2, <2>3 DEF set
<1>6. /\ tool' \in [Operators -> Tools] /\ tool'[o] = t
      /\ \A x \in Operators \ {o} : tool'[x] = tool[x]
  BY <1>2, <1>5, BecomeTypes
<1>7. \A n \in Names : t.set[n] # None => n # name /\ t.set[n] = tool[o].set[n]
  BY <1>3, <1>5
<1>8. Shape(o)'
  <2>1. Transfer \in Names
    BY DEF Names
  <2> QED
    BY <1>2, <1>5, <1>6, <1>7, <2>1 DEF Shape
<1>9. Backed(o)'
  <2>1. o \in disturbed' <=> o \in disturbed
    BY DEF SetVariable, Disturbs
  <2>2. Required \subseteq Names
    BY NamesAre
  <2> HIDE DEF t
  <2> QED
    BY <1>2, <1>4, <1>5, <1>6, <1>7, <2>1, <2>2 DEF Backed, Backs
<1>10. Apart(o)
  BY <1>6 DEF SetVariable, Disturbs, Apart
<1> QED
  BY <1>2, <1>4, <1>6, <1>8, <1>9, <1>10 DEF Types

LEMMA DeleteSteps ==
  ASSUME Types, NEW o \in Operators, Shape(o), Backed(o), DeleteVariable(o)
  PROVE  Types' /\ Shape(o)' /\ Backed(o)' /\ Apart(o)
<1>1. PICK name \in tool[o].drop :
        /\ github' = [github EXCEPT ![name] = None]
        /\ Become(o, [tool[o] EXCEPT !.drop = @ \ {name}])
  BY DEF DeleteVariable
<1> DEFINE t == [tool[o] EXCEPT !.drop = @ \ {name}]
<1>2. /\ UNCHANGED <<contract, tfvars, stack, rule, runs, events>> /\ disturbed' \subseteq Operators
      /\ tool[o].pc = "write" /\ \A n \in Names : tool[o].set[n] = None
  BY DisturbsTypes DEF DeleteVariable, Pending
<1>3. /\ tool[o] \in Tools /\ github' \in [Names -> Settings]
  BY <1>1 DEF Types, Tools, Settings
<1>5. /\ t \in Tools /\ t.pc = "write" /\ t.cmd = tool[o].cmd /\ t.drop \subseteq tool[o].drop
      /\ t.config = tool[o].config /\ t.set = tool[o].set
  BY <1>2, <1>3 DEF Tools
<1>6. /\ tool' \in [Operators -> Tools] /\ tool'[o] = t
      /\ \A x \in Operators \ {o} : tool'[x] = tool[x]
  BY <1>1, <1>5, BecomeTypes
<1> HIDE DEF t
<1>7. Shape(o)'
  BY <1>2, <1>5, <1>6 DEF Shape
<1>8. Backed(o)'
  <2>1. o \in disturbed' <=> o \in disturbed
    BY DEF DeleteVariable, Disturbs
  <2>2. Required \subseteq Names
    BY NamesAre
  <2> QED
    BY <1>2, <1>5, <1>6, <2>1, <2>2 DEF Backed
<1>9. Apart(o)
  BY <1>6 DEF DeleteVariable, Disturbs, Apart
<1> QED
  BY <1>2, <1>3, <1>6, <1>7, <1>8, <1>9 DEF Types

LEMMA EndSteps ==
  ASSUME Types, NEW o \in Operators, Shape(o), Backed(o), WriteFails(o) \/ BootstrapCallFails(o) \/ WritesEnd(o)
  PROVE  Types' /\ Shape(o)' /\ Backed(o)' /\ Apart(o)
<1>0. UNCHANGED <<contract, github, tfvars, stack, rule, disturbed, runs>> /\ events' \in 0 .. MaxEvents
  BY EventTypes DEF WriteFails, BootstrapCallFails, WritesEnd, Types
<1>1. CASE GivesUp(o)
  <2>1. /\ tool' \in [Operators -> Tools] /\ tool'[o].drop = {} /\ tool'[o].pc = "idle"
        /\ \A x \in Operators \ {o} : tool'[x] = tool[x]
    BY <1>1, GivesUpTypes DEF NoTool
  <2> QED
    BY <1>0, <2>1, NothingToWrite DEF Types, Apart
<1>2. CASE Succeeds(o)
  <2>1. /\ tool' \in [Operators -> Tools] /\ tool'[o].drop = {} /\ tool'[o].pc = "done"
        /\ \A x \in Operators \ {o} : tool'[x] = tool[x]
    BY <1>2, SucceedsTypes DEF NoTool
  <2> QED
    BY <1>0, <2>1, NothingToWrite DEF Types, Apart
<1>3. CASE BootstrapCallFails(o)
  <2> DEFINE name == NextName(o)
             again == [tool[o] EXCEPT !.attempt = @ + 1]
             next == [tool[o] EXCEPT !.set[name] = None, !.attempt = 1]
  <2>1. tool[o] \in Tools /\ tool[o].set \in [Names -> Settings] /\ tool[o].attempt \in 1 .. Retries /\ tool[o].pc = "write"
    BY <1>3 DEF Types, Tools, BootstrapCallFails
  <2>2. PICK t \in {again, next} : Become(o, t) /\ (t = again => tool[o].attempt < Retries \/ again = next)
    BY <1>3 DEF BootstrapCallFails
  <2> HIDE DEF name
  <2>3. /\ next \in Tools /\ next.pc = "write" /\ next.cmd = tool[o].cmd /\ next.drop = tool[o].drop
        /\ next.config = tool[o].config /\ next.declared = tool[o].declared
        /\ next.set = [tool[o].set EXCEPT ![name] = None]
    <3> DEFINE set == [tool[o].set EXCEPT ![name] = None]
    <3>0. 1 \in 1 .. Retries /\ None \in Settings
      BY BoundsAssumption DEF Settings
    <3>1. set \in [Names -> Settings]
      BY <2>1, <3>0
    <3>2. next = [tool[o] EXCEPT !.set = set, !.attempt = 1]
      BY <2>1 DEF Tools
    <3> HIDE DEF next, set
    <3>3. next \in Tools /\ next.pc = tool[o].pc /\ next.cmd = tool[o].cmd /\ next.drop = tool[o].drop
          /\ next.config = tool[o].config /\ next.declared = tool[o].declared /\ next.set = set
      BY <2>1, <3>0, <3>1, <3>2 DEF Tools
    <3> QED
      BY <2>1, <3>3 DEF set
  <2>4. tool[o].attempt < Retries =>
          /\ again \in Tools /\ again.pc = "write" /\ again.cmd = tool[o].cmd /\ again.drop = tool[o].drop
          /\ again.config = tool[o].config /\ again.declared = tool[o].declared /\ again.set = tool[o].set
    BY <2>1, BoundsAssumption DEF Tools
  <2> HIDE DEF again, next
  <2>5. /\ t \in Tools /\ t.pc = "write" /\ t.cmd = tool[o].cmd /\ t.drop = tool[o].drop
        /\ t.config = tool[o].config /\ t.declared = tool[o].declared
        /\ \A n \in Names : t.set[n] # None => t.set[n] = tool[o].set[n]
    BY <2>1, <2>2, <2>3, <2>4
  <2>6. /\ tool' \in [Operators -> Tools] /\ tool'[o] = t
        /\ \A x \in Operators \ {o} : tool'[x] = tool[x]
    BY <2>2, <2>5, BecomeTypes
  <2>7. Required \subseteq Names /\ Transfer \in Names
    BY NamesAre DEF Names
  <2>8. Shape(o)'
    BY <2>1, <2>5, <2>6, <2>7 DEF Shape
  <2>9. Backed(o)'
    BY <1>0, <2>1, <2>5, <2>6, <2>7 DEF Backed, Backs
  <2> QED
    BY <1>0, <2>6, <2>8, <2>9 DEF Types, Apart
<1> QED
  BY <1>1, <1>2, <1>3 DEF WriteFails, WritesEnd

\* Everyone who is running is disturbed by an edit.
LEMMA EditSteps ==
  ASSUME Types, ToolInv, Edit
  PROVE  Types' /\ ToolInv'
<1>1. /\ UNCHANGED <<contract, tool, runs>> /\ events' \in 0 .. MaxEvents /\ disturbed' \subseteq Operators
      /\ \A x \in Operators : Running(x) => x \in disturbed'
  BY EventTypes, DisturbsTypes DEF Edit, ConfigureBranch, EditTfvars, EditGithub, Disturbs
<1>2. /\ github' \in [Names -> Settings] /\ stack' \in Deployments \cup {None} /\ rule' \subseteq Contexts
      /\ tfvars' \in [infra : Deployments, status : Contexts \cup {None}]
  <2>1. CASE \E old \in Contexts \cup {None}, context \in Contexts, active \in BOOLEAN : ConfigureBranch(old, context, active)
    BY <2>1 DEF ConfigureBranch, Types
  <2>2. CASE \E infra \in Deployments, status \in Contexts \cup {None} : EditTfvars(infra, status)
    BY <2>2 DEF EditTfvars, Types
  <2>3. CASE \E n \in Names, v \in Values \cup {None} : EditGithub(n, v)
    BY <2>3 DEF EditGithub, Types, Settings
  <2> QED
    BY <2>1, <2>2, <2>3 DEF Edit
<1>3. ToolInv'
  BY <1>1 DEF ToolInv, Shape, Backed, Running
<1> QED
  BY <1>1, <1>2, <1>3 DEF Types

LEMMA InitTools == Init => ToolInv
  BY DEF Init, ToolInv, Shape, Backed, NoTool

LEMMA NextInv == Types /\ ToolInv /\ [Next]_vars => Types' /\ ToolInv'
<1> SUFFICES ASSUME Types, ToolInv, [Next]_vars PROVE Types' /\ ToolInv'
  OBVIOUS
<1>1. CASE UNCHANGED vars
  BY <1>1 DEF vars, Types, ToolInv, Shape, Backed, Backs
<1>2. CASE Edit
  BY <1>2, EditSteps
<1>3. ASSUME NEW o \in Operators, BeginRepoVars(o) \/ BeginPulumi(o) \/ BeginBootstrap(o) \/ ToolStep(o)
      PROVE  Types' /\ ToolInv'
  <2>1. Shape(o) /\ Backed(o)
    BY DEF ToolInv
  <2>2. Types' /\ Shape(o)' /\ Backed(o)' /\ Apart(o)
    BY <1>3, <2>1, BeginSteps, ReadSteps, UpSteps, SetSteps, DeleteSteps, EndSteps DEF ToolStep
  <2>3. \A x \in Operators \ {o} : Shape(x)' /\ Backed(x)'
    BY <2>2, ApartKeeps
  <2> QED
    BY <2>2, <2>3 DEF ToolInv
<1> QED
  BY <1>1, <1>2, <1>3 DEF Next

LEMMA ToolInvariant == Spec => [](Types /\ ToolInv)
  BY InitTypes, InitTools, NextInv, PTL DEF Spec

(* The variables, the stack and what every tool holds keep to their types. *)
THEOREM RepoVarsTypeCorrect == Spec => []TypeOK
  BY ToolInvariant, TypesAreTypeOK, PTL

(* A tool nobody disturbs writes a required variable from the stack or its *)
(* own file, and drops one only where its file is empty.                   *)
THEOREM RequiredComesFromDeclaration == Spec => RequiredIsDeclared
<1>1. ASSUME Types, ToolInv, [Next]_vars, NEW o \in Operators, NEW n \in Required,
             o \notin disturbed, tool'[o] # tool[o], github'[n] # github[n]
      PROVE  \/ tool[o].cmd = "bootstrap" /\ github'[n] = tool[o].declared[n]
             \/ github'[n] = stack /\ stack # None
             \/ /\ tool[o].config[n] # None
                /\ github'[n] = IF tool[o].config[n] = Empty THEN None ELSE tool[o].config[n]
  <2>1. SetVariable(o) \/ DeleteVariable(o)
    <3>1. ~Edit
      BY <1>1 DEF Edit, ConfigureBranch, EditTfvars, EditGithub
    <3>2. ASSUME NEW x \in Operators, x # o, BeginRepoVars(x) \/ BeginPulumi(x) \/ BeginBootstrap(x) \/ ToolStep(x)
          PROVE  FALSE
      <4>1. Shape(x) /\ Backed(x)
        BY <1>1 DEF ToolInv
      <4>2. Apart(x)
        BY <1>1, <3>2, <4>1, BeginSteps, ReadSteps, UpSteps, SetSteps, DeleteSteps, EndSteps DEF ToolStep
      <4> QED
        BY <1>1, <3>2, <4>2 DEF Apart
    <3>3. ASSUME BeginRepoVars(o) \/ BeginPulumi(o) \/ BeginBootstrap(o) PROVE FALSE
      BY <1>1, <3>3 DEF BeginRepoVars, BeginPulumi, BeginBootstrap
    <3>4. ToolStep(o)
      BY <1>1, <3>1, <3>2, <3>3 DEF Next, vars
    <3> QED
      BY <1>1, <3>4 DEF ToolStep, ReadDeclared, ListGithub, CompareAll, Preflight, Up, ReadOutputs, WriteFails,
                        BootstrapCallFails, WritesEnd
  <2>2. n \in Names /\ github \in [Names -> Settings] /\ Shape(o) /\ Backed(o)
        /\ tool[o].set \in [Names -> Settings] /\ Empty \notin Settings
    BY <1>1, NamesAre, NullsAssumption DEF Types, Tools, ToolInv, Settings
  <2>3. CASE SetVariable(o)
    <3> DEFINE name == NextName(o)
    <3>1. name \in Names /\ tool[o].set[name] # None
      BY <1>1, <2>2, <2>3, NextNameIsPending DEF SetVariable, Pending
    <3>2. github' = [github EXCEPT ![name] = tool[o].set[name]]
      BY <2>3 DEF SetVariable
    <3> HIDE DEF name
    <3>3. n = name /\ github'[n] = tool[o].set[n]
      BY <1>1, <2>2, <3>1, <3>2
    <3>4. Backs(o, n, tool[o].set[n])
      BY <1>1, <2>2, <2>3, <3>1, <3>3 DEF SetVariable, Backed
    <3> QED
      BY <1>1, <2>2, <3>1, <3>3, <3>4 DEF Backs
  <2>4. CASE DeleteVariable(o)
    <3>1. PICK name \in tool[o].drop : github' = [github EXCEPT ![name] = None]
      BY <2>4 DEF DeleteVariable
    <3>2. n = name /\ github'[n] = None
      BY <1>1, <2>2, <3>1
    <3>3. tool[o].config[n] = Empty
      BY <1>1, <2>2, <2>4, <3>1, <3>2 DEF DeleteVariable, Backed
    <3> QED
      BY <3>2, <3>3, NullsAssumption
  <2> QED
    BY <2>1, <2>3, <2>4
<1>2. Types /\ ToolInv /\ [Next]_vars =>
        [\A o \in Operators, n \in Required :
           o \notin disturbed /\ tool'[o] # tool[o] /\ github'[n] # github[n]
             => \/ tool[o].cmd = "bootstrap" /\ github'[n] = tool[o].declared[n]
                \/ github'[n] = stack /\ stack # None
                \/ /\ tool[o].config[n] # None
                   /\ github'[n] = IF tool[o].config[n] = Empty THEN None ELSE tool[o].config[n]]_vars
  BY <1>1
<1> QED
  BY <1>2, ToolInvariant, PTL DEF Spec, RequiredIsDeclared

-----------------------------------------------------------------------------
(* Writing brings the repository to what the next comparison accepts.      *)

\* What apply leaves of every variable.
Target(diff, current, force, prune) ==
  [n \in Names |-> IF ToSet(diff, force)[n] # None THEN ToSet(diff, force)[n]
                   ELSE IF n \in ToDrop(diff, prune) THEN None ELSE current[n]]

\* The context a branch rule requires is found again in what was set from it.
LEMMA ContextIsStable ==
  ASSUME Types, NEW d \in [Names -> Wishes], NEW c \in [Names -> Settings], NEW g \in [Names -> Settings],
         contract # "default", ResolveContexts(d, c) # {},
         \/ g[Status] = CHOOSE x \in ResolveContexts(d, c) : TRUE
         \/ c[Status] = None /\ g[Status] = None
  PROVE  /\ ResolveContexts(d, g) # {}
         /\ (CHOOSE y \in ResolveContexts(d, g) : TRUE) = (CHOOSE x \in ResolveContexts(d, c) : TRUE)
<1> DEFINE candidates == IF contract = "selector" THEN rule \cap Bmt ELSE rule
           x == CHOOSE x \in ResolveContexts(d, c) : TRUE
<1>1. /\ None \notin Contexts /\ rule \subseteq Contexts /\ candidates \subseteq Contexts
      /\ x \in ResolveContexts(d, c) /\ (g[Status] = x \/ (c[Status] = None /\ g[Status] = None))
  BY NullsAssumption DEF Types, Values
<1> HIDE DEF x
<1>2. ASSUME NEW e
      PROVE  ResolveContexts(d, e) =
               IF rule = {} THEN Preferred(d, e, Contexts)
               ELSE IF Cardinality(candidates) <= 1 THEN candidates
               ELSE IF Preferred(d, e, candidates) # {} THEN Preferred(d, e, candidates)
               ELSE IF Cardinality(candidates \cap Bmt) = 1 THEN candidates \cap Bmt ELSE {}
  <2> DEFINE pref == Preferred(d, e, candidates)
             all == Preferred(d, e, Contexts)
             bmt == IF Cardinality(candidates \cap Bmt) = 1 THEN candidates \cap Bmt ELSE {}
             size == Cardinality(candidates)
  <2>1. size \in Nat
    BY <1>1, ContextsAssumption, FS_Subset, FS_CardinalityType
  <2>2. ResolveContexts(d, e) = RuleContext(d, e)
    BY DEF ResolveContexts
  <2>3. RuleContext(d, e) =
          CASE rule = {} -> all
            [] rule # {} /\ size <= 1 -> candidates
            [] rule # {} /\ size > 1 /\ pref # {} -> pref
            [] OTHER -> bmt
    BY DEF RuleContext
  <2> HIDE DEF pref, all, bmt, size, candidates
  <2>4. RuleContext(d, e) = IF rule = {} THEN all ELSE IF size <= 1 THEN candidates ELSE IF pref # {} THEN pref ELSE bmt
    BY <2>1, <2>3
  <2> QED
    BY <2>2, <2>4 DEF pref, all, bmt, size
<1>3. ASSUME NEW S \in SUBSET Contexts, x \in Preferred(d, c, S)
      PROVE  Preferred(d, g, S) = Preferred(d, c, S)
  <2>1. CASE d[Status] \in S
    BY <2>1 DEF Preferred
  <2>2. CASE d[Status] \notin S
    <3>1. x = c[Status] /\ x \in S
      BY <1>3, <2>2 DEF Preferred
    <3>2. g[Status] = c[Status]
      BY <1>1, <3>1
    <3> QED
      BY <2>2, <3>2 DEF Preferred
  <2> QED
    BY <2>1, <2>2
<1>4. ASSUME NEW S \in SUBSET Contexts, Preferred(d, c, S) = {}, x \in S
      PROVE  Preferred(d, g, S) \in {{}, {x}}
  BY <1>1, <1>4 DEF Preferred
<1>5. ResolveContexts(d, g) \in {ResolveContexts(d, c), {x}}
  <2> DEFINE C == Preferred(d, c, candidates)
             G == Preferred(d, g, candidates)
             bmt == IF Cardinality(candidates \cap Bmt) = 1 THEN candidates \cap Bmt ELSE {}
             size == Cardinality(candidates)
  <2>1. CASE rule = {}
    BY <1>1, <1>2, <1>3, <2>1
  <2>2. CASE rule # {} /\ size <= 1
    BY <1>2, <2>2
  <2>3. CASE rule # {} /\ ~(size <= 1) /\ C # {}
    <3>1. ResolveContexts(d, c) = C
      BY <1>2, <2>3
    <3>2. G = C
      BY <1>1, <1>3, <3>1
    <3> QED
      BY <1>2, <2>3, <3>1, <3>2
  <2>4. CASE rule # {} /\ ~(size <= 1) /\ C = {}
    <3>1. ResolveContexts(d, c) = bmt
      BY <1>2, <2>4
    <3>2. x \in candidates
      BY <1>1, <3>1
    <3>3. G \in {{}, {x}}
      BY <1>1, <1>4, <2>4, <3>2
    <3>4. ResolveContexts(d, g) = IF G # {} THEN G ELSE bmt
      BY <1>2, <2>4
    <3> QED
      BY <3>1, <3>3, <3>4
  <2> QED
    BY <2>1, <2>2, <2>3, <2>4
<1>6. CASE ResolveContexts(d, g) = ResolveContexts(d, c)
  BY <1>1, <1>6
<1>7. CASE ResolveContexts(d, g) = {x}
  <2>1. (CHOOSE y \in {x} : TRUE) = x
    OBVIOUS
  <2> QED
    BY <1>7, <2>1 DEF x
<1> QED
  BY <1>5, <1>6, <1>7

\* The comparison, one variable at a time.
LEMMA CompareIs ==
  ASSUME NEW d \in [Names -> Wishes], NEW c \in [Names -> Settings], NEW context \in SUBSET Contexts,
         NEW n \in Canonical
  PROVE  LET diff == Compare(d, c, context)
             ruled == n = Status /\ context # {}
         IN  /\ diff.desired[n] = IF ruled THEN CHOOSE x \in context : TRUE ELSE Wanted(n, d, c)
             /\ n \in diff.lacking <=> ~ruled /\ d[n] = None /\ c[n] = None /\ n \in Required
             /\ n \in diff.missing <=> ~ruled /\ d[n] # None /\ c[n] = None /\ diff.desired[n] # Empty
             /\ n \in diff.changed <=> c[n] # None /\ diff.desired[n] \notin {Empty, c[n]}
             /\ n \in diff.absent <=> c[n] # None /\ diff.desired[n] = Empty
<1> DEFINE ruled == n = Status /\ context # {}
           origin == [m \in Canonical |-> Origin(m, d, c, context # {})]
           desired == [m \in Canonical |-> CASE origin[m] = "branch_rule" -> CHOOSE x \in context : TRUE
                                            [] origin[m] = "config" -> d[m]
                                            [] origin[m] = "current" -> c[m]
                                            [] OTHER -> Empty]
           diff == Compare(d, c, context)
<1>1. /\ diff.desired = desired
      /\ diff.lacking = {m \in Canonical : origin[m] = "missing_required"}
      /\ diff.missing = {m \in Canonical : c[m] = None /\ desired[m] # Empty /\ origin[m] = "config"}
      /\ diff.changed = {m \in Canonical : c[m] # None /\ desired[m] \notin {Empty, c[m]}}
      /\ diff.absent = {m \in Canonical : desired[m] = Empty /\ c[m] # None}
  BY DEF Compare
<1>2. origin[n] = Origin(n, d, c, context # {})
  OBVIOUS
<1>3. /\ origin[n] = "branch_rule" <=> ruled
      /\ origin[n] = "config" <=> ~ruled /\ d[n] # None
      /\ origin[n] = "current" <=> ~ruled /\ d[n] = None /\ c[n] # None
      /\ origin[n] = "missing_required" <=> ~ruled /\ d[n] = None /\ c[n] = None /\ n \in Required
  <2>1. CASE ruled
    BY <1>2, <2>1 DEF Origin
  <2>2. CASE ~ruled /\ d[n] # None
    BY <1>2, <2>2 DEF Origin
  <2>3. CASE ~ruled /\ d[n] = None /\ c[n] # None
    BY <1>2, <2>3 DEF Origin
  <2>4. CASE ~ruled /\ d[n] = None /\ c[n] = None
    BY <1>2, <2>4 DEF Origin
  <2> QED
    BY <2>1, <2>2, <2>3, <2>4
<1>4. desired[n] = CASE origin[n] = "branch_rule" -> CHOOSE x \in context : TRUE
                     [] origin[n] = "config" -> d[n]
                     [] origin[n] = "current" -> c[n]
                     [] OTHER -> Empty
  OBVIOUS
<1> HIDE DEF origin, desired, diff
<1>5. desired[n] = IF ruled THEN CHOOSE x \in context : TRUE ELSE Wanted(n, d, c)
  <2>1. CASE ruled
    BY <1>3, <1>4, <2>1
  <2>2. CASE ~ruled /\ d[n] # None
    BY <1>3, <1>4, <2>2 DEF Wanted
  <2>3. CASE ~ruled /\ d[n] = None /\ c[n] # None
    BY <1>3, <1>4, <2>3 DEF Wanted
  <2>4. CASE ~ruled /\ d[n] = None /\ c[n] = None
    BY <1>3, <1>4, <2>4 DEF Wanted
  <2> QED
    BY <2>1, <2>2, <2>3, <2>4
<1> QED
  BY <1>1, <1>3, <1>5 DEF diff

\* What apply leaves, where it is done: the wish itself, or nothing.
LEMMA TargetIs ==
  ASSUME NEW d \in [Names -> Wishes], NEW c \in [Names -> Settings], NEW context \in SUBSET Contexts,
         NEW force \in BOOLEAN, NEW prune \in BOOLEAN
  PROVE  LET diff == Compare(d, c, context)
             g == Target(diff, c, force, prune)
         IN  /\ g \in [Names -> Settings]
             /\ \A n \in Canonical :
                  /\ diff.desired[n] = Empty => g[n] = None
                  /\ diff.desired[n] # Empty =>
                       \/ g[n] = diff.desired[n]
                       \/ n = Status /\ context # {} /\ c[n] = None /\ g[n] = None
             /\ prune => \A n \in Names \ Canonical : g[n] = None
<1> DEFINE diff == Compare(d, c, context)
           set == ToSet(diff, force)
           drop == ToDrop(diff, prune)
           g == Target(diff, c, force, prune)
<1>1. Canonical \subseteq Names
  BY NamesAre
<1>2. /\ set \in [Names -> Settings] /\ \A n \in Names : set[n] # None => n \in Canonical
  BY WhatApplyDoes
<1>3. \A n \in Names : g[n] = IF set[n] # None THEN set[n] ELSE IF n \in drop THEN None ELSE c[n]
  BY DEF Target
<1>4. g \in [Names -> Settings]
  <2>1. \A n \in Names : g[n] \in Settings
    BY <1>2, <1>3 DEF Settings
  <2> QED
    BY <2>1 DEF Target
<1>5. diff.desired \in [Canonical -> Values \cup {Empty}]
  BY DesiredValues
<1>6. ASSUME NEW n \in Canonical
      PROVE  /\ diff.desired[n] = Empty => g[n] = None
             /\ diff.desired[n] # Empty =>
                  \/ g[n] = diff.desired[n]
                  \/ n = Status /\ context # {} /\ c[n] = None /\ g[n] = None
  <2>0. /\ n \in diff.missing <=> ~(n = Status /\ context # {}) /\ d[n] # None /\ c[n] = None /\ diff.desired[n] # Empty
        /\ n \in diff.changed <=> c[n] # None /\ diff.desired[n] \notin {Empty, c[n]}
        /\ n \in diff.absent <=> c[n] # None /\ diff.desired[n] = Empty
        /\ diff.desired[n] = IF n = Status /\ context # {} THEN CHOOSE x \in context : TRUE ELSE Wanted(n, d, c)
    BY CompareIs
  <2>1. n \notin diff.extra
    BY DEF Compare
  <2> HIDE DEF diff
  <2>2. set[n] = IF n \in diff.missing \cup diff.changed \/ (force /\ diff.desired[n] # Empty) THEN diff.desired[n] ELSE None
    BY <1>1 DEF ToSet
  <2>3. n \in drop <=> n \in diff.absent
    BY <2>1 DEF ToDrop
  <2>4. g[n] = IF set[n] # None THEN set[n] ELSE IF n \in drop THEN None ELSE c[n]
    BY <1>1, <1>3
  <2>5. diff.desired[n] \in Values \cup {Empty} /\ None \notin Values \cup {Empty}
    BY <1>5, NullsAssumption
  <2> HIDE DEF set, drop, g
  <2>6. CASE diff.desired[n] = Empty
    BY <2>0, <2>2, <2>3, <2>4, <2>6
  <2>7. CASE diff.desired[n] # Empty /\ c[n] # None
    BY <2>0, <2>2, <2>3, <2>4, <2>5, <2>7
  <2>8. CASE diff.desired[n] # Empty /\ c[n] = None
    <3>1. CASE n = Status /\ context # {}
      BY <2>0, <2>2, <2>3, <2>4, <2>5, <2>8, <3>1
    <3>2. CASE ~(n = Status /\ context # {})
      <4>1. d[n] # None
        BY <2>0, <2>8, <3>2 DEF Wanted
      <4> QED
        BY <2>0, <2>2, <2>4, <2>5, <2>8, <3>2, <4>1
    <3> QED
      BY <3>1, <3>2
  <2> QED
    BY <2>6, <2>7, <2>8
<1>7. ASSUME prune, NEW n \in Names \ Canonical
      PROVE  g[n] = None
  <2>1. c[n] # None => n \in diff.extra
    BY <1>7 DEF Compare
  <2>2. c[n] # None => n \in drop
    BY <1>7, <2>1 DEF ToDrop
  <2>3. set[n] = None
    BY <1>2
  <2> QED
    BY <1>3, <2>2, <2>3
<1> QED
  BY <1>4, <1>6, <1>7

\* A second comparison finds nothing.
LEMMA DesiredIsStable ==
  ASSUME Types, NEW d \in [Names -> Wishes], NEW c \in [Names -> Settings],
         NEW force \in BOOLEAN, NEW prune \in BOOLEAN,
         contract # "default" => ResolveContexts(d, c) # {},
         Compare(d, c, ResolveContexts(d, c)).lacking = {}
  PROVE  LET g == Target(Compare(d, c, ResolveContexts(d, c)), c, force, prune)
             again == Compare(d, g, ResolveContexts(d, g))
         IN  /\ again.lacking \cup again.missing \cup again.changed \cup again.absent = {}
             /\ prune => again.extra = {}
<1> DEFINE C == ResolveContexts(d, c)
           diff == Compare(d, c, C)
           g == Target(diff, c, force, prune)
           G == ResolveContexts(d, g)
           again == Compare(d, g, G)
<1>1. C \in SUBSET Contexts /\ G \in SUBSET Contexts
  BY ContextTypes
<1>2. /\ g \in [Names -> Settings]
      /\ \A n \in Canonical :
           /\ diff.desired[n] = Empty => g[n] = None
           /\ diff.desired[n] # Empty =>
                \/ g[n] = diff.desired[n]
                \/ n = Status /\ C # {} /\ c[n] = None /\ g[n] = None
      /\ prune => \A n \in Names \ Canonical : g[n] = None
  BY <1>1, TargetIs
<1>3. contract = "default" => C = {} /\ G = {}
  BY DEF ResolveContexts
<1>4. /\ Status \in Canonical /\ Canonical \subseteq Names /\ None \notin Values \cup {Empty}
      /\ Empty \notin Values /\ Contexts \subseteq Values
  BY NullsAssumption DEF Canonical, Names, Values
<1>5. ASSUME C # {}
      PROVE  /\ G # {} /\ (CHOOSE y \in G : TRUE) = (CHOOSE x \in C : TRUE)
             /\ g[Status] \in {CHOOSE x \in C : TRUE, None}
  <2> DEFINE x == CHOOSE x \in C : TRUE
  <2>1. diff.desired[Status] = x
    BY <1>1, <1>4, <1>5, CompareIs
  <2>2. x \in Contexts
    BY <1>1, <1>5
  <2>3. g[Status] = x \/ (c[Status] = None /\ g[Status] = None)
    BY <1>2, <1>4, <2>1, <2>2
  <2>4. contract # "default"
    BY <1>3, <1>5
  <2> QED
    BY <1>2, <1>5, <2>3, <2>4, ContextIsStable
<1>6. ASSUME C = {} PROVE G = {}
  BY <1>3, <1>6
<1>7. ASSUME NEW n \in Canonical
      PROVE  n \notin again.lacking \cup again.missing \cup again.changed \cup again.absent
  <2> DEFINE ruled == n = Status /\ G # {}
  <2>1. /\ again.desired[n] = IF ruled THEN CHOOSE x \in G : TRUE ELSE Wanted(n, d, g)
        /\ n \in again.lacking <=> ~ruled /\ d[n] = None /\ g[n] = None /\ n \in Required
        /\ n \in again.missing <=> ~ruled /\ d[n] # None /\ g[n] = None /\ again.desired[n] # Empty
        /\ n \in again.changed <=> g[n] # None /\ again.desired[n] \notin {Empty, g[n]}
        /\ n \in again.absent <=> g[n] # None /\ again.desired[n] = Empty
    BY <1>1, <1>2, CompareIs
  <2>2. /\ diff.desired[n] = IF n = Status /\ C # {} THEN CHOOSE x \in C : TRUE ELSE Wanted(n, d, c)
        /\ n \in diff.lacking <=> ~(n = Status /\ C # {}) /\ d[n] = None /\ c[n] = None /\ n \in Required
    BY <1>1, CompareIs
  <2>3. /\ diff.desired[n] = Empty => g[n] = None
        /\ diff.desired[n] # Empty => g[n] = diff.desired[n] \/ (n = Status /\ C # {} /\ c[n] = None /\ g[n] = None)
    BY <1>2
  <2>4. d[n] \in Wishes /\ c[n] \in Settings /\ diff.lacking = {} /\ (C # {} <=> G # {})
    BY <1>4, <1>5, <1>6
  <2>5. C # {} => (CHOOSE y \in G : TRUE) = (CHOOSE x \in C : TRUE) /\ g[Status] \in {CHOOSE x \in C : TRUE, None}
                  /\ (CHOOSE x \in C : TRUE) \in Values
    BY <1>1, <1>4, <1>5
  <2> HIDE DEF C, diff, g, G, again
  <2>6. CASE n = Status /\ C # {}
    BY <1>4, <2>1, <2>4, <2>5, <2>6
  <2>7. CASE ~(n = Status /\ C # {}) /\ d[n] # None
    <3>1. diff.desired[n] = d[n] /\ again.desired[n] = d[n] /\ ~ruled
      BY <2>1, <2>2, <2>4, <2>7 DEF Wanted
    <3> QED
      BY <2>1, <2>3, <2>7, <3>1
  <2>8. CASE ~(n = Status /\ C # {}) /\ d[n] = None /\ c[n] # None
    <3>1. diff.desired[n] = c[n] /\ c[n] # Empty
      BY <1>4, <2>2, <2>4, <2>8 DEF Wanted, Settings
    <3>2. g[n] = c[n]
      BY <2>3, <2>8, <3>1
    <3> QED
      BY <2>1, <2>4, <2>8, <3>1, <3>2 DEF Wanted
  <2>9. CASE ~(n = Status /\ C # {}) /\ d[n] = None /\ c[n] = None
    <3>1. diff.desired[n] = Empty /\ g[n] = None /\ n \notin Required
      BY <2>2, <2>3, <2>4, <2>9 DEF Wanted
    <3> QED
      BY <2>1, <2>4, <2>9, <3>1 DEF Wanted
  <2> QED
    BY <2>6, <2>7, <2>8, <2>9
<1>8. again.lacking \cup again.missing \cup again.changed \cup again.absent \subseteq Canonical
  BY DEF Compare
<1>9. again.extra = {n \in Names \ Canonical : g[n] # None}
  BY DEF Compare
<1> HIDE DEF again, g
<1> QED
  BY <1>2, <1>7, <1>8, <1>9 DEF again, g
-----------------------------------------------------------------------------
(* What a tool that writes has left to do.                                 *)

\* The comparison a running apply has made, and where it is going.
Context(o) == ResolveContexts(tool[o].declared, tool[o].current)
Plan(o) == Compare(tool[o].declared, tool[o].current, Context(o))
Goal(o) == Target(Plan(o), tool[o].current, tool[o].force, tool[o].prune)

Roles(o) ==
  /\ tool[o].pc \in {"preflight", "up", "outputs"} => tool[o].cmd = "pulumi"
  /\ tool[o].pc \in {"declare", "list", "compare"} => tool[o].cmd \in {"check", "apply"}

Planned(o) ==
  o \notin disturbed /\ tool[o].pc = "write" /\ tool[o].cmd = "apply" =>
    /\ contract # "default" => Context(o) # {}
    /\ Plan(o).lacking = {}
    /\ \A n \in Names :
         /\ tool[o].set[n] # None => tool[o].set[n] = Goal(o)[n]
         /\ n \in tool[o].drop => Goal(o)[n] = None
         /\ tool[o].set[n] = None /\ n \notin tool[o].drop => github[n] = Goal(o)[n]

Exported(o) ==
  o \notin disturbed /\ tool[o].pc = "write" /\ tool[o].cmd = "pulumi" =>
    /\ tool[o].drop = {} /\ tool[o].declared = Declared(TRUE)
    /\ \A n \in Names : tool[o].set[n] \in {None, tool[o].declared[n]}
    /\ \A n \in Names : tool[o].declared[n] # None /\ tool[o].set[n] = None => github[n] = tool[o].declared[n]

Ahead(o) == Roles(o) /\ Planned(o) /\ Exported(o)

LEMMA GoalIsKept ==
  ASSUME NEW o, UNCHANGED <<contract, rule>>,
         tool'[o].declared = tool[o].declared, tool'[o].current = tool[o].current,
         tool'[o].force = tool[o].force, tool'[o].prune = tool[o].prune
  PROVE  Context(o)' = Context(o) /\ Plan(o)' = Plan(o) /\ Goal(o)' = Goal(o)
<1>1. Context(o)' = Context(o)
  BY DEF Context, ResolveContexts, RuleContext
<1>2. Plan(o)' = Plan(o)
  BY <1>1 DEF Plan
<1> QED
  BY <1>1, <1>2 DEF Goal

LEMMA ExportIsKept == ASSUME UNCHANGED <<stack, tfvars>> PROVE Declared(TRUE)' = Declared(TRUE)
  BY DEF Declared

\* Every step of a tool leaves the contract, the rules and the file of the stack.
LEMMA ToolLeaves ==
  ASSUME NEW o, BeginRepoVars(o) \/ BeginPulumi(o) \/ BeginBootstrap(o) \/ ToolStep(o)
  PROVE  UNCHANGED <<contract, rule, tfvars>>
  BY DEF BeginRepoVars, BeginPulumi, BeginBootstrap, ToolStep, ReadDeclared, ListGithub, CompareAll, Preflight, Up,
         ReadOutputs, SetVariable, DeleteVariable, WriteFails, BootstrapCallFails, WritesEnd

\* A tool that stands still keeps its way as long as nobody disturbs it.
LEMMA StillAhead ==
  ASSUME NEW x, Ahead(x), tool'[x] = tool[x], x \in disturbed => x \in disturbed',
         UNCHANGED <<contract, github, tfvars, stack, rule>> \/ (Running(x) => x \in disturbed')
  PROVE  Ahead(x)'
<1>1. Roles(x)'
  BY DEF Ahead, Roles
<1>2. CASE Running(x) => x \in disturbed'
  BY <1>1, <1>2 DEF Ahead, Planned, Exported, Running
<1>3. CASE UNCHANGED <<contract, github, tfvars, stack, rule>>
  <2>1. Context(x)' = Context(x) /\ Plan(x)' = Plan(x) /\ Goal(x)' = Goal(x)
    BY <1>3, GoalIsKept
  <2>2. Declared(TRUE)' = Declared(TRUE)
    BY <1>3, ExportIsKept
  <2>3. Planned(x)'
    BY <1>3, <2>1 DEF Ahead, Planned
  <2>4. Exported(x)'
    BY <1>3, <2>2 DEF Ahead, Exported
  <2> QED
    BY <1>1, <2>3, <2>4 DEF Ahead
<1> QED
  BY <1>2, <1>3

\* A tool that does not write has nothing to keep.
LEMMA NotWriting ==
  ASSUME NEW o, Roles(o)', tool'[o].pc = "write" => tool'[o].cmd = "bootstrap"
  PROVE  Ahead(o)'
  BY DEF Ahead, Planned, Exported

LEMMA EndedAhead ==
  ASSUME Types, NEW o \in Operators, GivesUp(o) \/ Succeeds(o)
  PROVE  Ahead(o)'
<1>1. tool'[o].pc \in {"idle", "done"}
  BY GivesUpTypes, SucceedsTypes DEF NoTool
<1> QED
  BY <1>1, NotWriting DEF Roles

LEMMA BeginAhead ==
  ASSUME Types, NEW o \in Operators, BeginRepoVars(o) \/ BeginPulumi(o) \/ BeginBootstrap(o)
  PROVE  Ahead(o)'
<1>0. DOMAIN tool = Operators
  BY DEF Types
<1>1. CASE BeginRepoVars(o)
  <2>1. tool'[o].pc = "declare" /\ tool'[o].cmd \in {"check", "apply"}
    BY <1>0, <1>1 DEF BeginRepoVars, Become, NoTool
  <2> QED
    BY <2>1, NotWriting DEF Roles
<1>2. CASE BeginPulumi(o)
  <2>1. tool'[o].pc = "preflight" /\ tool'[o].cmd = "pulumi"
    BY <1>0, <1>2 DEF BeginPulumi, Become, NoTool
  <2> QED
    BY <2>1, NotWriting DEF Roles
<1>3. CASE BeginBootstrap(o)
  <2>1. tool'[o].pc = "write" /\ tool'[o].cmd = "bootstrap"
    BY <1>0, <1>3 DEF BeginBootstrap, Become, NoTool
  <2> QED
    BY <2>1, NotWriting DEF Roles
<1> QED
  BY <1>1, <1>2, <1>3

\* The comparison: what is set and dropped is what separates the repository
\* from the goal.
LEMMA CompareAhead ==
  ASSUME Types, NEW o \in Operators, Roles(o), Backed(o), CompareAll(o)
  PROVE  Ahead(o)'
<1> DEFINE d == tool[o].declared
           c == tool[o].current
           context == ResolveContexts(d, c)
           diff == Compare(d, c, context)
           force == tool[o].force
           prune == tool[o].prune
           t == [tool[o] EXCEPT !.pc = "write", !.set = ToSet(diff, force), !.drop = ToDrop(diff, prune)]
<1>0. /\ tool[o] \in Tools /\ d \in [Names -> Wishes] /\ c \in [Names -> Settings]
      /\ force \in BOOLEAN /\ prune \in BOOLEAN /\ DOMAIN tool = Operators
      /\ UNCHANGED <<contract, github, stack, rule, disturbed>> /\ tool[o].pc = "compare"
  BY DEF Types, Tools, CompareAll
<1>1. CASE /\ Become(o, t) /\ diff.lacking = {} /\ (contract # "default" => context # {})
  <2>1. /\ context = Context(o) /\ diff = Plan(o)
    BY DEF Context, Plan
  <2>2. context \in SUBSET Contexts
    BY ContextTypes
  <2> DEFINE set == ToSet(diff, force)
             drop == ToDrop(diff, prune)
  <2>3. /\ set \in [Names -> Settings] /\ drop \subseteq Names
        /\ \A n \in Names : set[n] # None => n \in Canonical
    BY <1>0, <2>2, WhatApplyDoes
  <2>4. /\ diff.absent = {n \in Canonical : diff.desired[n] = Empty /\ c[n] # None}
        /\ diff.extra \subseteq Names \ Canonical
    BY DEF Compare
  <2>5. \A n \in Canonical : diff.desired[n] = Empty => Target(diff, c, force, prune)[n] = None
    BY <1>0, <2>2, TargetIs
  <2> HIDE DEF diff, context
  <2>6. \A n \in Names : Target(diff, c, force, prune)[n] =
                           IF set[n] # None THEN set[n] ELSE IF n \in drop THEN None ELSE c[n]
    BY DEF Target
  <2>7. ASSUME NEW n \in drop PROVE Target(diff, c, force, prune)[n] = None
    <3>1. CASE n \in diff.absent
      BY <2>4, <2>5, <3>1
    <3>2. CASE n \in diff.extra
      BY <2>3, <2>4, <2>6, <3>2
    <3> QED
      BY <3>1, <3>2 DEF ToDrop
  <2> HIDE DEF set, drop
  <2>8. /\ tool'[o].pc = "write" /\ tool'[o].cmd = tool[o].cmd /\ tool'[o].set = set /\ tool'[o].drop = drop
        /\ tool'[o].declared = d /\ tool'[o].current = c /\ tool'[o].force = force /\ tool'[o].prune = prune
    BY <1>0, <1>1 DEF Become, Tools, set, drop
  <2>9. Context(o)' = Context(o) /\ Plan(o)' = Plan(o) /\ Goal(o)' = Goal(o)
    BY <1>0, <2>8, GoalIsKept
  <2>10. Goal(o) = Target(diff, c, force, prune)
    BY <2>1 DEF Goal
  <2>11. o \notin disturbed => c = github
    <3>1. Project \in Required
      BY DEF Required
    <3> QED
      BY <1>0, <3>1 DEF Backed
  <2>12. Planned(o)'
    BY <1>0, <1>1, <2>1, <2>6, <2>7, <2>8, <2>9, <2>10, <2>11 DEF Planned
  <2>13. Roles(o)' /\ Exported(o)'
    BY <1>0, <2>8 DEF Roles, Exported
  <2> QED
    BY <2>12, <2>13 DEF Ahead
<1>2. \/ GivesUp(o) \/ Succeeds(o)
      \/ Become(o, t) /\ diff.lacking = {} /\ (contract # "default" => context # {})
  BY DEF CompareAll
<1> QED
  BY <1>1, <1>2, EndedAhead

LEMMA ReadAhead ==
  ASSUME Types, NEW o \in Operators, Shape(o), Roles(o),
         ReadDeclared(o) \/ ListGithub(o) \/ Preflight(o) \/ Up(o) \/ ReadOutputs(o)
  PROVE  Ahead(o)'
<1>0. tool[o] \in Tools /\ DOMAIN tool = Operators
  BY DEF Types
<1>1. CASE ReadDeclared(o)
  <2>1. tool'[o].pc = "list" /\ tool'[o].cmd = tool[o].cmd /\ tool[o].pc = "declare"
    BY <1>0, <1>1 DEF ReadDeclared, Become, Tools
  <2> QED
    BY <2>1, NotWriting DEF Roles
<1>2. CASE ListGithub(o) /\ ~GivesUp(o)
  <2>1. tool'[o].pc = "compare" /\ tool'[o].cmd = tool[o].cmd /\ tool[o].pc = "list"
    BY <1>0, <1>2 DEF ListGithub, Become, Tools
  <2> QED
    BY <2>1, NotWriting DEF Roles
<1>3. CASE Preflight(o) /\ ~GivesUp(o)
  <2>1. tool'[o].pc = "up" /\ tool'[o].cmd = tool[o].cmd /\ tool[o].pc = "preflight"
    BY <1>0, <1>3 DEF Preflight, Goto, Become, Tools
  <2> QED
    BY <2>1, NotWriting DEF Roles
<1>4. CASE Up(o) /\ ~GivesUp(o) /\ ~Succeeds(o)
  <2>1. tool'[o].pc = "outputs" /\ tool'[o].cmd = tool[o].cmd /\ tool[o].pc = "up"
    BY <1>0, <1>4 DEF Up, Goto, Become, Tools
  <2> QED
    BY <2>1, NotWriting DEF Roles
<1>5. CASE ReadOutputs(o) /\ ~GivesUp(o)
  <2>1. /\ tool'[o].pc = "write" /\ tool'[o].cmd = tool[o].cmd /\ tool[o].pc = "outputs"
        /\ tool'[o].drop = tool[o].drop /\ tool'[o].declared = Declared(TRUE) /\ tool'[o].set = Declared(TRUE)
    BY <1>0, <1>5 DEF ReadOutputs, Become, Tools
  <2>2. Declared(TRUE)' = Declared(TRUE)
    BY <1>5, ExportIsKept DEF ReadOutputs
  <2>3. tool[o].drop = {} /\ tool'[o].cmd = "pulumi"
    BY <2>1 DEF Shape, Roles
  <2>4. Exported(o)'
    BY <2>1, <2>2, <2>3 DEF Exported
  <2> QED
    BY <2>1, <2>3, <2>4 DEF Ahead, Roles, Planned
<1>6. CASE GivesUp(o) \/ Succeeds(o)
  BY <1>6, EndedAhead
<1> QED
  BY <1>1, <1>2, <1>3, <1>4, <1>5, <1>6
\* A write brings one variable to the goal.
LEMMA SetAhead ==
  ASSUME Types, NEW o \in Operators, Shape(o), Ahead(o), SetVariable(o)
  PROVE  Ahead(o)'
<1> DEFINE name == NextName(o)
<1>1. name \in Names /\ tool[o].set[name] # None
  BY NextNameIsPending DEF SetVariable, Pending
<1>2. /\ UNCHANGED <<contract, tfvars, stack, rule>> /\ tool[o].pc = "write"
      /\ github' = [github EXCEPT ![name] = tool[o].set[name]]
      /\ Become(o, [tool[o] EXCEPT !.set[name] = None, !.attempt = 1])
      /\ (o \in disturbed => o \in disturbed')
  BY DEF SetVariable, Disturbs
<1> HIDE DEF name
<1>3. /\ tool[o] \in Tools /\ tool[o].set \in [Names -> Settings] /\ github \in [Names -> Settings]
      /\ DOMAIN tool = Operators
  BY DEF Types, Tools
<1>4. /\ github'[name] = tool[o].set[name]
      /\ \A n \in Names \ {name} : github'[n] = github[n]
  BY <1>1, <1>2, <1>3
<1>5. /\ tool'[o].pc = "write" /\ tool'[o].cmd = tool[o].cmd /\ tool'[o].drop = tool[o].drop
      /\ tool'[o].declared = tool[o].declared /\ tool'[o].current = tool[o].current
      /\ tool'[o].force = tool[o].force /\ tool'[o].prune = tool[o].prune
      /\ tool'[o].set = [tool[o].set EXCEPT ![name] = None]
  BY <1>2, <1>3 DEF Become, Tools
<1>6. /\ tool'[o].set[name] = None
      /\ \A n \in Names \ {name} : tool'[o].set[n] = tool[o].set[n]
  BY <1>1, <1>3, <1>5
<1>7. /\ Context(o)' = Context(o) /\ Plan(o)' = Plan(o) /\ Goal(o)' = Goal(o)
      /\ Declared(TRUE)' = Declared(TRUE)
  BY <1>2, <1>5, GoalIsKept, ExportIsKept
<1>8. Planned(o)'
  <2> SUFFICES ASSUME o \notin disturbed', tool[o].cmd = "apply" PROVE Planned(o)'
    BY <1>5 DEF Planned
  <2>1. /\ contract # "default" => Context(o) # {}
        /\ Plan(o).lacking = {}
        /\ \A n \in Names :
             /\ tool[o].set[n] # None => tool[o].set[n] = Goal(o)[n]
             /\ n \in tool[o].drop => Goal(o)[n] = None
             /\ tool[o].set[n] = None /\ n \notin tool[o].drop => github[n] = Goal(o)[n]
    BY <1>2 DEF Ahead, Planned
  <2>2. ASSUME NEW n \in Names
        PROVE  /\ tool'[o].set[n] # None => tool'[o].set[n] = Goal(o)[n]
               /\ n \in tool'[o].drop => Goal(o)[n] = None
               /\ tool'[o].set[n] = None /\ n \notin tool'[o].drop => github'[n] = Goal(o)[n]
    <3>1. CASE n = name
      BY <1>1, <1>4, <1>5, <1>6, <2>1, <3>1
    <3>2. CASE n # name
      BY <1>4, <1>5, <1>6, <2>1, <3>2
    <3> QED
      BY <3>1, <3>2
  <2> QED
    BY <1>2, <1>7, <2>1, <2>2 DEF Planned
<1>9. Exported(o)'
  <2> SUFFICES ASSUME o \notin disturbed', tool[o].cmd = "pulumi" PROVE Exported(o)'
    BY <1>5 DEF Exported
  <2>1. /\ tool[o].drop = {} /\ tool[o].declared = Declared(TRUE)
        /\ \A n \in Names : tool[o].set[n] \in {None, tool[o].declared[n]}
        /\ \A n \in Names : tool[o].declared[n] # None /\ tool[o].set[n] = None => github[n] = tool[o].declared[n]
    BY <1>2 DEF Ahead, Exported
  <2>2. ASSUME NEW n \in Names
        PROVE  /\ tool'[o].set[n] \in {None, tool'[o].declared[n]}
               /\ tool'[o].declared[n] # None /\ tool'[o].set[n] = None => github'[n] = tool'[o].declared[n]
    <3>1. CASE n = name
      BY <1>1, <1>4, <1>5, <1>6, <2>1, <3>1
    <3>2. CASE n # name
      BY <1>4, <1>5, <1>6, <2>1, <3>2
    <3> QED
      BY <3>1, <3>2
  <2> QED
    BY <1>5, <1>7, <2>1, <2>2 DEF Exported
<1>10. Roles(o)'
  BY <1>5 DEF Roles
<1> QED
  BY <1>8, <1>9, <1>10 DEF Ahead

LEMMA DeleteAhead ==
  ASSUME Types, NEW o \in Operators, Ahead(o), DeleteVariable(o)
  PROVE  Ahead(o)'
<1>1. PICK name \in tool[o].drop :
        /\ github' = [github EXCEPT ![name] = None]
        /\ Become(o, [tool[o] EXCEPT !.drop = @ \ {name}])
  BY DEF DeleteVariable
<1>2. /\ UNCHANGED <<contract, tfvars, stack, rule>> /\ tool[o].pc = "write"
      /\ (o \in disturbed => o \in disturbed') /\ \A n \in Names : tool[o].set[n] = None
  BY DEF DeleteVariable, Disturbs, Pending
<1>3. /\ tool[o] \in Tools /\ github \in [Names -> Settings] /\ DOMAIN tool = Operators /\ name \in Names
  BY DEF Types, Tools
<1>4. github'[name] = None /\ \A n \in Names \ {name} : github'[n] = github[n]
  BY <1>1, <1>3
<1>5. /\ tool'[o].pc = "write" /\ tool'[o].cmd = tool[o].cmd /\ tool'[o].drop = tool[o].drop \ {name}
      /\ tool'[o].declared = tool[o].declared /\ tool'[o].current = tool[o].current
      /\ tool'[o].force = tool[o].force /\ tool'[o].prune = tool[o].prune
      /\ tool'[o].set = tool[o].set
  BY <1>1, <1>2, <1>3 DEF Become, Tools
<1>6. Context(o)' = Context(o) /\ Plan(o)' = Plan(o) /\ Goal(o)' = Goal(o)
  BY <1>2, <1>5, GoalIsKept
<1>7. Planned(o)'
  <2> SUFFICES ASSUME o \notin disturbed', tool[o].cmd = "apply" PROVE Planned(o)'
    BY <1>5 DEF Planned
  <2>1. /\ contract # "default" => Context(o) # {}
        /\ Plan(o).lacking = {}
        /\ \A n \in Names :
             /\ n \in tool[o].drop => Goal(o)[n] = None
             /\ tool[o].set[n] = None /\ n \notin tool[o].drop => github[n] = Goal(o)[n]
    BY <1>2 DEF Ahead, Planned
  <2>2. ASSUME NEW n \in Names
        PROVE  /\ n \in tool'[o].drop => Goal(o)[n] = None
               /\ n \notin tool'[o].drop => github'[n] = Goal(o)[n]
    <3>1. CASE n = name
      BY <1>1, <1>4, <1>5, <2>1, <3>1
    <3>2. CASE n # name
      BY <1>2, <1>4, <1>5, <2>1, <3>2
    <3> QED
      BY <3>1, <3>2
  <2> QED
    BY <1>2, <1>5, <1>6, <2>1, <2>2 DEF Planned
<1>8. Roles(o)' /\ Exported(o)'
  BY <1>1, <1>2, <1>5 DEF Ahead, Exported, Roles
<1> QED
  BY <1>7, <1>8 DEF Ahead

LEMMA FailAhead ==
  ASSUME Types, NEW o \in Operators, WriteFails(o) \/ BootstrapCallFails(o) \/ WritesEnd(o)
  PROVE  Ahead(o)'
<1>1. CASE BootstrapCallFails(o)
  <2>0. tool[o] \in Tools /\ DOMAIN tool = Operators
    BY DEF Types
  <2>1. tool'[o].pc = "write" /\ tool'[o].cmd = "bootstrap"
    BY <1>1, <2>0 DEF BootstrapCallFails, Become, Tools
  <2> QED
    BY <2>1, NotWriting DEF Roles
<1> QED
  BY <1>1, EndedAhead DEF WriteFails, WritesEnd

AheadInv == \A o \in Operators : Ahead(o)

LEMMA NextAhead == Types /\ ToolInv /\ AheadInv /\ [Next]_vars => AheadInv'
<1> SUFFICES ASSUME Types, ToolInv, AheadInv, [Next]_vars, NEW x \in Operators PROVE Ahead(x)'
  BY DEF AheadInv
<1>0. Ahead(x) /\ Shape(x) /\ Backed(x)
  BY DEF AheadInv, ToolInv
<1>1. CASE UNCHANGED vars
  BY <1>0, <1>1, StillAhead DEF vars
<1>2. CASE Edit
  <2>1. tool' = tool /\ (Running(x) => x \in disturbed') /\ (x \in disturbed => x \in disturbed')
    BY <1>2 DEF Edit, ConfigureBranch, EditTfvars, EditGithub, Disturbs
  <2> QED
    BY <1>0, <2>1, StillAhead
<1>3. ASSUME NEW o \in Operators, BeginRepoVars(o) \/ BeginPulumi(o) \/ BeginBootstrap(o) \/ ToolStep(o)
      PROVE  Ahead(x)'
  <2>1. CASE x = o
    BY <1>0, <1>3, <2>1, BeginAhead, CompareAhead, ReadAhead, SetAhead, DeleteAhead, FailAhead DEF ToolStep, Ahead
  <2>2. CASE x # o
    <3>1. Shape(o) /\ Backed(o)
      BY DEF ToolInv
    <3>2. Apart(o)
      BY <1>3, <3>1, BeginSteps, ReadSteps, UpSteps, SetSteps, DeleteSteps, EndSteps DEF ToolStep
    <3>3. UNCHANGED <<contract, rule, tfvars>>
      BY <1>3, ToolLeaves
    <3> QED
      BY <1>0, <2>2, <3>2, <3>3, StillAhead DEF Apart
  <2> QED
    BY <2>1, <2>2
<1> QED
  BY <1>1, <1>2, <1>3 DEF Next

LEMMA AheadInvariant == Spec => [](Types /\ ToolInv /\ AheadInv)
<1>1. ASSUME Init, NEW o \in Operators PROVE Ahead(o)
  <2>1. tool[o].pc = "idle"
    BY <1>1 DEF Init, NoTool
  <2> QED
    BY <2>1 DEF Ahead, Roles, Planned, Exported
<1>2. Init => AheadInv
  BY <1>1 DEF AheadInv
<1> QED
  BY <1>2, NextAhead, ToolInvariant, PTL DEF Spec

(* An apply that nobody disturbs and that succeeds, by its early return     *)
(* too, leaves nothing to set; one that wrote leaves nothing to delete      *)
(* either.  An export leaves what the stack declares.                       *)
THEOREM ApplyConverges == Spec => SuccessIsSynced
<1> DEFINE Synced(o) ==
      /\ o \notin disturbed /\ Finishes(o, "apply")
           => /\ Again(o).lacking \cup Again(o).missing \cup Again(o).changed = {}
              /\ tool[o].pc = "write" => Again(o).absent = {} /\ (tool[o].prune => Again(o).extra = {})
      /\ o \notin disturbed /\ Finishes(o, "pulumi")
           => \A n \in Names : Declared(TRUE)[n] # None => github'[n] = Declared(TRUE)[n]
<1>1. ASSUME Types, ToolInv, AheadInv, [Next]_vars, NEW o \in Operators
      PROVE  Synced(o)
  <2>0. /\ tool[o] \in Tools /\ DOMAIN tool = Operators /\ github \in [Names -> Settings] /\ Ahead(o) /\ Shape(o)
    BY <1>1 DEF Types, AheadInv, ToolInv
  <2>1. ASSUME tool[o].pc \in {"compare", "write"}, tool'[o].pc = "done"
        PROVE  CompareAll(o) \/ WritesEnd(o)
    <3>1. ~Edit /\ ~UNCHANGED vars
      BY <2>1 DEF Edit, ConfigureBranch, EditTfvars, EditGithub, vars
    <3>2. ASSUME NEW x \in Operators, x # o, BeginRepoVars(x) \/ BeginPulumi(x) \/ BeginBootstrap(x) \/ ToolStep(x)
          PROVE  FALSE
      <4>1. Shape(x) /\ Backed(x)
        BY <1>1 DEF ToolInv
      <4>2. Apart(x)
        BY <1>1, <3>2, <4>1, BeginSteps, ReadSteps, UpSteps, SetSteps, DeleteSteps, EndSteps DEF ToolStep
      <4> QED
        BY <2>1, <3>2, <4>2 DEF Apart
    <3>3. ASSUME BeginRepoVars(o) \/ BeginPulumi(o) \/ BeginBootstrap(o) PROVE FALSE
      BY <2>1, <3>3 DEF BeginRepoVars, BeginPulumi, BeginBootstrap, Starts, Running
    <3>4. ToolStep(o)
      BY <1>1, <3>1, <3>2, <3>3 DEF Next
    <3>5. ASSUME GivesUp(o) PROVE FALSE
      BY <1>1, <2>1, <3>5, GivesUpTypes DEF NoTool
    <3>6. ASSUME SetVariable(o) \/ DeleteVariable(o) \/ BootstrapCallFails(o) PROVE FALSE
      BY <2>0, <2>1, <3>6 DEF SetVariable, DeleteVariable, BootstrapCallFails, Become, Tools
    <3> QED
      BY <2>1, <3>4, <3>5, <3>6 DEF ToolStep, ReadDeclared, ListGithub, Preflight, Up, ReadOutputs, WriteFails
  <2>2. WritesEnd(o) => github' = github /\ tool[o].drop = {} /\ \A n \in Names : tool[o].set[n] = None
    BY DEF WritesEnd, Pending
  <2>5. ASSUME o \notin disturbed, Finishes(o, "apply"), tool[o].pc = "compare"
        PROVE  Again(o).lacking \cup Again(o).missing \cup Again(o).changed = {}
    <3>1. CompareAll(o)
      BY <2>1, <2>5 DEF Finishes, WritesEnd
    <3>2. tool[o].current = github /\ UNCHANGED <<github, rule, contract>>
      <4>1. Project \in Required /\ Backed(o)
        BY <1>1 DEF Required, ToolInv
      <4> QED
        BY <2>5, <3>1, <4>1 DEF CompareAll, Backed
    <3>3. Again(o) = Plan(o)
      BY <3>2 DEF Again, Plan, Context
    <3>4. Plan(o).lacking = {} /\ Plan(o).missing \cup Plan(o).changed = {}
      <4>1. ASSUME GivesUp(o) PROVE FALSE
        BY <1>1, <2>5, <4>1, GivesUpTypes DEF NoTool, Finishes
      <4>2. ASSUME NEW t, Become(o, t), t.pc = "write" PROVE FALSE
        BY <2>0, <2>5, <4>2 DEF Become, Finishes
      <4>3. tool[o].cmd # "check"
        BY <2>5 DEF Finishes
      <4>4. [tool[o] EXCEPT !.pc = "write", !.set = ToSet(Plan(o), tool[o].force),
                            !.drop = ToDrop(Plan(o), tool[o].prune)].pc = "write"
        BY <2>0 DEF Tools
      <4> QED
        BY <3>1, <4>1, <4>2, <4>3, <4>4 DEF CompareAll, Plan, Context
    <3> QED
      BY <3>3, <3>4
  <2>3. ASSUME o \notin disturbed, Finishes(o, "apply"), tool[o].pc = "write"
        PROVE  /\ Again(o).lacking \cup Again(o).missing \cup Again(o).changed \cup Again(o).absent = {}
               /\ tool[o].prune => Again(o).extra = {}
    <3> DEFINE d == tool[o].declared
               c == tool[o].current
    <3>1. d \in [Names -> Wishes] /\ c \in [Names -> Settings] /\ tool[o].force \in BOOLEAN /\ tool[o].prune \in BOOLEAN
      BY <2>0 DEF Tools
    <3>2. /\ contract # "default" => Context(o) # {}
          /\ Plan(o).lacking = {} /\ github' = github
          /\ \A n \in Names : github[n] = Goal(o)[n]
      BY <2>0, <2>1, <2>2, <2>3 DEF Finishes, CompareAll, Ahead, Planned
    <3>3. Goal(o) = Target(Compare(d, c, ResolveContexts(d, c)), c, tool[o].force, tool[o].prune)
      BY DEF Goal, Plan, Context
    <3>4. Goal(o) \in [Names -> Settings]
      <4>1. ResolveContexts(d, c) \in SUBSET Contexts
        BY <1>1, ContextTypes
      <4> QED
        BY <3>1, <3>3, <4>1, TargetIs
    <3>5. github' = Goal(o)
      BY <2>0, <3>2, <3>4
    <3>6. /\ contract # "default" => ResolveContexts(d, c) # {}
          /\ Compare(d, c, ResolveContexts(d, c)).lacking = {}
      BY <3>2 DEF Plan, Context
    <3> HIDE DEF d, c
    <3>7. LET g == Target(Compare(d, c, ResolveContexts(d, c)), c, tool[o].force, tool[o].prune)
              again == Compare(d, g, ResolveContexts(d, g))
          IN  /\ again.lacking \cup again.missing \cup again.changed \cup again.absent = {}
              /\ tool[o].prune => again.extra = {}
      BY <1>1, <3>1, <3>6, DesiredIsStable
    <3> QED
      BY <3>3, <3>5, <3>7 DEF d, Again
  <2>4. ASSUME o \notin disturbed, Finishes(o, "pulumi")
        PROVE  \A n \in Names : Declared(TRUE)[n] # None => github'[n] = Declared(TRUE)[n]
    BY <2>0, <2>1, <2>2, <2>4 DEF Finishes, CompareAll, Roles, Ahead, Exported
  <2>6. Finishes(o, "apply") => tool[o].pc \in {"compare", "write"}
    BY DEF Finishes
  <2> QED
    BY <2>3, <2>4, <2>5, <2>6
<1>2. Types /\ ToolInv /\ AheadInv /\ [Next]_vars => [\A o \in Operators : Synced(o)]_vars
  BY <1>1
<1> QED
  BY <1>2, AheadInvariant, PTL DEF Spec, SuccessIsSynced
=============================================================================
