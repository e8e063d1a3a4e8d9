------------------------------ MODULE MCProxy ------------------------------
(* Proxy startup with the policies directory of MCPolicyFactory: a policy *)
(* file, a non-policy file and a directory whose name ends in .rego.       *)
EXTENDS Proxy

MCEntries == <<[name |-> "a.rego", rego |-> TRUE, isDir |-> FALSE],
               [name |-> "b.txt", rego |-> FALSE, isDir |-> FALSE],
               [name |-> "c.rego", rego |-> TRUE, isDir |-> TRUE]>>
=============================================================================
