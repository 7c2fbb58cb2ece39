------------------------------ MODULE ActiveRun ------------------------------
(***************************************************************************)
(* What the PR registry promises, with every remote call hidden: one       *)
(* record per pull request, replaced in one indivisible step by each       *)
(* claim, whose generation is one more than the generation it replaces.    *)
(* An operator may delete the record at any time.                          *)
(***************************************************************************)
EXTENDS Naturals

CONSTANT Claimants     \* the handoff invocations that may claim the PR
CONSTANT NoOwner       \* nobody owns the PR

VARIABLES
  generation,          \* the active generation, 0 when there is no record
  owner                \* the claimant of that generation, or NoOwner

Init == generation = 0 /\ owner = NoOwner

Claim(c) == generation' = generation + 1 /\ owner' = c

Delete == generation' = 0 /\ owner' = NoOwner

Next == Delete \/ \E c \in Claimants : Claim(c)

Spec == Init /\ [][Next]_<<generation, owner>>
=============================================================================
