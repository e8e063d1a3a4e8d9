---------------------------- MODULE MCProxyMain ----------------------------
(* Model-checking instance of ProxyMain.  The model has no constants: each
   step's failure, SIGINT and the outcome of tp.Shutdown are chosen by the
   next-state relation. *)
EXTENDS ProxyMain

=============================================================================
