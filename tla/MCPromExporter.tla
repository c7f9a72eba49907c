--------------------------- MODULE MCPromExporter ---------------------------
(* Two nodes and two config sets: both nodes serve one of the sets, the    *)
(* other comes and goes on one of the nodes.  One number is negative, as a *)
(* request count is when a counter could not be read.                      *)
EXTENDS PromExporter, TLC

CONSTANTS n1, n2, s1, s2

MCReports == n1 :> {s1 :> -1, s1 :> 1 @@ s2 :> 2} @@ n2 :> {s1 :> 3}
=============================================================================
