------------------------------- MODULE Proxy -------------------------------
(***************************************************************************)
(* The proxy's startup as one system: main (ProxyMain) calls               *)
(* opa.NewHttpFilterFactory (PolicyFactory) at its factory step, runs the  *)
(* call to its return, and panics with the returned error or goes on to    *)
(* Serve.  The two modules share nothing else: the factory's own pc and    *)
(* err are renamed fpc and ferr.                                           *)
(***************************************************************************)
EXTENDS ProxyMain

CONSTANTS Entries, InlineName

VARIABLES fpc, ferr, cfg, useHttp, insecure, idx, policySet, bundle, request,
          dlSpan, queries, teeType, faulted, result

PF == INSTANCE PolicyFactory WITH pc <- fpc, err <- ferr

factoryVars == <<fpc, ferr, cfg, useHttp, insecure, idx, policySet, bundle,
                 request, dlSpan, queries, teeType, faulted, result>>
mainVars == vars
allVars == <<mainVars, factoryVars>>

ProxyInit == Init /\ PF!Init

\* One step of NewHttpFilterFactory while main waits in the call.
FactoryStep ==
    /\ pc = "factory"
    /\ PF!Next
    /\ UNCHANGED mainVars

\* NewHttpFilterFactory returns: `ff, err = ...; if err != nil { log.Panicf }`.
FactoryReturns ==
    /\ pc = "factory" /\ fpc = "done"
    /\ \/ result.ret # "nil" /\ Panic(result.ret)
       \/ result.ret = "nil" /\ pc' = "serve" /\ err' = "nil" /\ UNCHANGED panicErr
    /\ UNCHANGED <<defers, interrupted, mainSpan, recordedErr, exported,
                  factoryVars>>

\* Main's steps other than the factory call.
MainStep ==
    /\ ReadConfig \/ TracingUp \/ Listen \/ ServeFails \/ Serving
       \/ Interrupt \/ RunDefer \/ Exit \/ Exited
    /\ UNCHANGED factoryVars

ProxyNext == FactoryStep \/ FactoryReturns \/ MainStep

ProxySpec == ProxyInit /\ [][ProxyNext]_allVars

ProxyTypeOK == TypeOK /\ PF!TypeOK

\* NewHttpFilterFactory's contract (PolicyFactory's FactoryOutcome) holds
\* for the call main makes.
FactoryOutcomeInMain == PF!FactoryOutcome

=============================================================================
