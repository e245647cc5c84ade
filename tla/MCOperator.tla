----------------------------- MODULE MCOperator -----------------------------
(***************************************************************************)
(* Instances of Operator for TLC.                                          *)
(***************************************************************************)
EXTENDS Operator

\* A plan with its own Prometheus, and one that changes the retention.
ResizingSpecs == {[retention |-> r, client |-> "prom"] : r \in Retentions}
=============================================================================
