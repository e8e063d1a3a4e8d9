-------------------------- MODULE MCPolicyFactory --------------------------
(* A policies directory that may hold a policy file, a non-policy file and *)
(* a directory whose name ends in .rego.                                   *)
EXTENDS PolicyFactory

MCEntries == <<[name |-> "a.rego", rego |-> TRUE, isDir |-> FALSE],
               [name |-> "b.txt", rego |-> FALSE, isDir |-> FALSE],
               [name |-> "c.rego", rego |-> TRUE, isDir |-> TRUE]>>
=============================================================================
