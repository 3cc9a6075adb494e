--------------------------- MODULE MCChaosTesting ---------------------------
(* An instance of ChaosTesting for TLC: one group of each application in the *)
(* primary region and one in the secondary, and of every section of the page *)
(* the rows about these groups and about the endpoints.                      *)
EXTENDS ChaosTesting

MCDeployed ==
  {<<East, "trade-matching", "ingress">>, <<East, "settlement", "ingress">>,
   <<West, "trade-matching", "generator">>}

MCDesired == [g \in MCDeployed |-> IF g[2] = "settlement" THEN 2 ELSE 1]

Targets == {"ingress"} \cup Service

MCOffered == {row \in PageRows : row.target \in Targets}
=============================================================================
