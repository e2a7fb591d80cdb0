----------------------------- MODULE MCPickHistory -----------------------------
(* The small worlds of MCPick for SourcePick with its history. *)
EXTENDS MCPick, SourcePickHistory

MCPrefixOf == [a \in MCAddr |-> a[1]]
=============================================================================
