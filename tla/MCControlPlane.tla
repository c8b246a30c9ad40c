--------------------------- MODULE MCControlPlane ---------------------------
(* Instances of ControlPlane for TLC. *)
EXTENDS ControlPlane

WellFormed == [p \in Policies |-> {}]

\* Policy 2 has allowlists that are no lists of objects, policy 3 a section its
\* handler rejects, policy 4 rules the engine rejects.
RejectedParts ==
  [p \in Policies |->
     CASE p = 2 -> {"index"} [] p = 3 -> {"routing"} [] p = 4 -> {"rules", "index"} [] OTHER -> {}]
=============================================================================
