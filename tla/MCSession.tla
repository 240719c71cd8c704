------------------------------ MODULE MCSession ------------------------------
(***************************************************************************)
(* Instances of Session for TLC: the routes that are asked for.            *)
(***************************************************************************)
EXTENDS Session

CallRoutes == {{"MIC", "RECEIVER"}, {"WIRED_IN", "WIRED_OUT"}}

\* The states whose successors are explored: after two handlers have changed the active devices at
\* a time the invariants claim nothing, and nothing makes it undone.
NotTorn == ~torn
=============================================================================
