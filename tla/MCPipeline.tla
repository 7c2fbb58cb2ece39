----------------------------- MODULE MCPipeline -----------------------------
(* Small instances of Pipeline for TLC. *)
EXTENDS Pipeline, TLC

CONSTANTS l1, l2

\* A standard leg and a heavy leg.
OneOfEach == l1 :> "standard" @@ l2 :> "heavy"

OneLeg == l1 :> "standard"
=============================================================================
