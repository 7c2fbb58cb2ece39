---------------------------- MODULE MCRunnerGate ----------------------------
(* Small instances of RunnerGate for TLC. *)
EXTENDS RunnerGate

CONSTANTS c1, c2, t, p

\* The builds of c1 and c2 share the binary; that of c1 may have no library.
\* The binary of t is another.
MCBuilds == [r \in Runs |-> CASE r = c1 -> {<<"x", "x">>, <<"x", Nothing>>}
                              [] r = c2 -> {<<"x", "x">>, <<"x", "y">>}
                              [] OTHER -> {<<"y", "x">>}]
MCWants == [r \in Runs |-> Projects]
MCKinds == [r \in Runs |-> CASE r = c1 -> {"ci"}
                             [] r = c2 -> {"pr", "bare"}
                             [] OTHER -> {"release", "bootstrap", "verify"}]
=============================================================================
