--------------------------- MODULE PolicyFactory ---------------------------
(***************************************************************************)
(* NewHttpFilterFactory (internal/filter/opa/opafilterfactory.go): builds  *)
(* the opaFilterFactory from one policy source, chosen by precedence       *)
(* (policies directory, OCI bundle, inline modules, allow-all), then       *)
(* prepares one query per rule inside a store transaction and commits it.  *)
(*                                                                         *)
(* Every behaviour starts from one configuration and environment (chosen   *)
(* in Init) and runs the function to its return; each I/O step may fail.  *)
(* Two defers matter: RecordSpanError(ctx, &err) at the top, and, in the   *)
(* bundle branch, bundleDownloadSpan.End() and RecordSpanError(ctx2,       *)
(* &err).  Go runs all of them when the function returns, with the final   *)
(* value of err.  Policy text, URLs and Rego compilation are abstracted    *)
(* to names and outcomes.                                                  *)
(***************************************************************************)
EXTENDS Integers, Sequences, SequencesExt, FiniteSets

CONSTANTS
    Entries,     \* the policies directory listing, in os.ReadDir (name) order
    InlineName   \* name of the module given inline in config.Modules

ASSUME Entries \in Seq([name : STRING, rego : BOOLEAN, isDir : BOOLEAN])

Rules == <<"on_request_headers", "on_request_body",
           "on_response_headers", "on_response_body">>

AllowAllName == "allow-all.rego"
ModuleNames == {Entries[i].name : i \in DOMAIN Entries} \cup {InlineName, AllowAllName}

\* A field that is unset ("" or nil), or set to one of the values in S.
Optional(S) == {[set |-> FALSE, val |-> {}]} \cup [set : {TRUE}, val : S]

\* The configuration.PolicyEngine fields and environment variables read.
Configs ==
    [dir : Optional(SUBSET DOMAIN Entries),   \* PoliciesDirectory, its entries
     bundle : BOOLEAN,                        \* BundleResource != ""
     serviceUrl : BOOLEAN, token : BOOLEAN, scheme : BOOLEAN,
     modules : Optional(SUBSET {InlineName}), \* Modules != nil, its names
     allowAll : BOOLEAN]                      \* AllowAll == "true"
UseHttpVals == {"absent", "true", "1", "false", "yes"}

DownloadErrs == {"Validate", "Rest", "Trigger", "Download", "NoModules"}
Errs == {"nil", "ReadDir", "ReadFile", "NoSource", "Txn", "Prepare", "Commit"}
        \cup DownloadErrs

VARIABLES
    cfg,        \* the configuration (fixed for the call)
    useHttp,    \* os.LookupEnv("USE_HTTP")
    insecure,   \* INSECURE_VIRTUAL_ENVIRONMENT == "true"
    pc,         \* where the call is
    idx,        \* position in the directory listing, or in rules
    policySet,  \* names of the modules in policySet
    bundle,     \* a downloaded bundle (with modules) is set
    request,    \* the bundle request: URL scheme and authorization
    dlSpan,     \* the downloadOpaPolicyBundle span was started
    err,        \* the function's err variable, as the defers see it
    queries,    \* rules with a prepared query in factory.policyQueries
    teeType,    \* factory.teeType
    faulted,    \* ghost: an I/O step failed
    result      \* what the call returned and what its spans recorded

vars == <<cfg, useHttp, insecure, pc, idx, policySet, bundle, request,
          dlSpan, err, queries, teeType, faulted, result>>

MaxOf(a, b) == IF a >= b THEN a ELSE b

NoRequest == [scheme |-> "none", auth |-> "none"]

Init ==
    /\ cfg \in Configs /\ useHttp \in UseHttpVals /\ insecure \in BOOLEAN
    /\ pc = "start" /\ idx = 0 /\ policySet = {} /\ bundle = FALSE
    /\ request = NoRequest /\ dlSpan = FALSE /\ err = "nil"
    /\ queries = {} /\ teeType = "unset" /\ faulted = FALSE
    /\ result = [ret |-> "none", factorySpan |-> "none", downloadSpan |-> "none"]

\* The function returns error e (or a factory when e = "nil") with err
\* holding ev: the deferred RecordSpanError calls record ev on the
\* caller's span and, if started, on the download span.
ReturnWith(e, ev) ==
    /\ pc' = "done" /\ err' = ev
    /\ result' = [ret |-> e, factorySpan |-> ev,
                  downloadSpan |-> IF dlSpan THEN ev ELSE "none"]

\* `err = <call>; if err != nil { return nil, err }`
Fail(e) == ReturnWith(e, e) /\ faulted' = TRUE

Keep == <<cfg, useHttp, insecure>>

-----------------------------------------------------------------------------
(* Source selection.                                                       *)

\* The if / else-if chain on the configuration; the last branch returns a
\* fresh error without assigning err.
SelectSource ==
    /\ pc = "start"
    /\ \/ cfg.dir.set
          /\ \/ Fail("ReadDir") /\ UNCHANGED <<idx, policySet, dlSpan>>
             \/ pc' = "files" /\ idx' = 1 /\ UNCHANGED <<err, result, faulted, policySet, dlSpan>>
       \/ ~cfg.dir.set /\ cfg.bundle
          /\ pc' = "bundle" /\ dlSpan' = TRUE
          /\ UNCHANGED <<idx, policySet, err, result, faulted>>
       \/ ~cfg.dir.set /\ ~cfg.bundle /\ cfg.modules.set
          /\ pc' = "factory" /\ policySet' = cfg.modules.val
          /\ UNCHANGED <<idx, dlSpan, err, result, faulted>>
       \/ ~cfg.dir.set /\ ~cfg.bundle /\ ~cfg.modules.set /\ cfg.allowAll
          /\ pc' = "factory" /\ policySet' = {AllowAllName}
          /\ UNCHANGED <<idx, dlSpan, err, result, faulted>>
       \/ ~cfg.dir.set /\ ~cfg.bundle /\ ~cfg.modules.set /\ ~cfg.allowAll
          /\ ReturnWith("NoSource", err) /\ UNCHANGED <<idx, policySet, dlSpan, faulted>>
    /\ UNCHANGED <<Keep, bundle, request, queries, teeType>>

\* Mutant of ReadPolicyFile: the IsDir check is dropped.
ReadPolicyFileNoDirCheck ==
    LET e == Entries[idx] IN
    /\ pc = "files"
    /\ \/ idx > Len(Entries) /\ pc' = "factory" /\ UNCHANGED <<idx, policySet, err, result, faulted>>
       \/ idx =< Len(Entries) /\ (idx \notin cfg.dir.val \/ ~e.rego)
          /\ idx' = idx + 1 /\ UNCHANGED <<pc, policySet, err, result, faulted>>
       \/ idx =< Len(Entries) /\ idx \in cfg.dir.val /\ e.rego
          /\ \/ e.isDir /\ ReturnWith("ReadFile", "ReadFile")
                /\ UNCHANGED <<idx, policySet, faulted>>
             \/ ~e.isDir /\ Fail("ReadFile") /\ UNCHANGED <<idx, policySet>>
             \/ ~e.isDir /\ idx' = idx + 1 /\ policySet' = policySet \cup {e.name}
                /\ UNCHANGED <<pc, err, result, faulted>>
    /\ UNCHANGED <<Keep, bundle, request, dlSpan, queries, teeType>>

\* One entry of the directory listing: a non-directory *.rego file is read
\* (os.ReadFile may fail) and added to policySet; others are skipped.
ReadPolicyFile ==
    LET e == Entries[idx] IN
    /\ pc = "files"
    /\ \/ idx > Len(Entries) /\ pc' = "factory" /\ UNCHANGED <<idx, policySet, err, result, faulted>>
       \/ idx =< Len(Entries) /\ (idx \notin cfg.dir.val \/ e.isDir \/ ~e.rego)
          /\ idx' = idx + 1 /\ UNCHANGED <<pc, policySet, err, result, faulted>>
       \/ idx =< Len(Entries) /\ idx \in cfg.dir.val /\ ~e.isDir /\ e.rego
          /\ \/ Fail("ReadFile") /\ UNCHANGED <<idx, policySet>>
             \/ idx' = idx + 1 /\ policySet' = policySet \cup {e.name}
                /\ UNCHANGED <<pc, err, result, faulted>>
    /\ UNCHANGED <<Keep, bundle, request, dlSpan, queries, teeType>>

-----------------------------------------------------------------------------
(* The OCI bundle branch.                                                  *)

\* strconv.ParseBool(USE_HTTP) is true: "1", "t", "T", "TRUE", "true", "True".
UseHttpParsesTrue == useHttp \in {"true", "1"}

BundleScheme == IF UseHttpParsesTrue THEN "http" ELSE "https"

\* Mutant of BundleClient: the credentials scheme is not defaulted.
BundleClientNoDefaultScheme ==
    /\ pc = "bundle"
    /\ \/ Fail("Validate") /\ UNCHANGED request
       \/ Fail("Rest") /\ UNCHANGED request
       \/ pc' = "download" /\ err' = "nil"
          /\ request' = [scheme |-> IF cfg.serviceUrl THEN "configured" ELSE BundleScheme,
                         auth |-> IF ~cfg.token THEN "none"
                                  ELSE IF cfg.scheme THEN "custom" ELSE ""]
          /\ UNCHANGED <<result, faulted>>
    /\ UNCHANGED <<Keep, idx, policySet, bundle, dlSpan, queries, teeType>>

\* The download config (ValidateAndInjectDefaults may fail), the service
\* URL (config.BundleServiceUrl, else scheme://<registry host>), the REST
\* config with bearer credentials when a token is set (scheme defaulting
\* to "Bearer"), and rest.New, which may fail.  A ParseBool error in err
\* is overwritten by rest.New.
BundleClient ==
    /\ pc = "bundle"
    /\ \/ Fail("Validate") /\ UNCHANGED request
       \/ Fail("Rest") /\ UNCHANGED request
       \/ pc' = "download" /\ err' = "nil"
          /\ request' = [scheme |-> IF cfg.serviceUrl THEN "configured" ELSE BundleScheme,
                         auth |-> IF ~cfg.token THEN "none"
                                  ELSE IF cfg.scheme THEN "custom" ELSE "Bearer"]
          /\ UNCHANGED <<result, faulted>>
    /\ UNCHANGED <<Keep, idx, policySet, bundle, dlSpan, queries, teeType>>

\* d.Trigger(ctx) runs the one-shot download and its callback; then the
\* update's error, then the bundle must exist and hold a module.
DownloadBundle ==
    /\ pc = "download"
    /\ \/ Fail("Trigger") /\ UNCHANGED bundle
       \/ Fail("Download") /\ UNCHANGED bundle
       \/ Fail("NoModules") /\ UNCHANGED bundle
       \/ pc' = "factory" /\ bundle' = TRUE /\ UNCHANGED <<err, result, faulted>>
    /\ UNCHANGED <<Keep, idx, policySet, request, dlSpan, queries, teeType>>

-----------------------------------------------------------------------------
(* Building the factory.                                                   *)

\* isSevSnp(): not an insecure virtual environment.
TeeType == IF insecure THEN "none" ELSE "sevsnpvm"

\* teeType from isSevSnp(); the data store; store.NewTransaction, which may
\* fail (the `txn, err :=` reuses the function's err).
NewFactory ==
    /\ pc = "factory"
    /\ teeType' = TeeType
    /\ \/ Fail("Txn") /\ UNCHANGED idx
       \/ pc' = "prepare" /\ idx' = 1 /\ err' = "nil" /\ UNCHANGED <<result, faulted>>
    /\ UNCHANGED <<Keep, policySet, bundle, request, dlSpan, queries>>

\* One iteration of the rules loop: preparePolicyEval compiles the query
\* against policySet and the bundle; PrepareForEval may fail.
PrepareRule ==
    /\ pc = "prepare"
    /\ \/ idx > Len(Rules) /\ pc' = "commit" /\ UNCHANGED <<idx, queries, err, result, faulted>>
       \/ idx =< Len(Rules) /\ Fail("Prepare") /\ UNCHANGED <<idx, queries>>
       \/ idx =< Len(Rules) /\ idx' = idx + 1 /\ queries' = queries \cup {Rules[idx]}
          /\ err' = "nil" /\ UNCHANGED <<pc, result, faulted>>
    /\ UNCHANGED <<Keep, policySet, bundle, request, dlSpan, teeType>>

\* store.Commit, which may fail; otherwise the factory is returned.
CommitStore ==
    /\ pc = "commit"
    /\ \/ Fail("Commit")
       \/ ReturnWith("nil", "nil") /\ UNCHANGED faulted
    /\ UNCHANGED <<Keep, idx, policySet, bundle, request, dlSpan, queries, teeType>>

Done == pc = "done" /\ UNCHANGED vars

Next ==
    \/ SelectSource \/ ReadPolicyFile \/ BundleClient \/ DownloadBundle
    \/ NewFactory \/ PrepareRule \/ CommitStore \/ Done

Spec == Init /\ [][Next]_vars

-----------------------------------------------------------------------------
(* Properties.                                                             *)

TypeOK ==
    /\ cfg \in Configs /\ useHttp \in UseHttpVals /\ insecure \in BOOLEAN
    /\ pc \in {"start", "files", "bundle", "download", "factory", "prepare",
               "commit", "done"}
    /\ idx \in 0..(MaxOf(Len(Entries), Len(Rules)) + 1)
    /\ policySet \subseteq ModuleNames /\ bundle \in BOOLEAN
    /\ request \in {NoRequest} \cup [scheme : {"http", "https", "configured"},
                                     auth : {"none", "Bearer", "custom"}]
    /\ dlSpan \in BOOLEAN /\ err \in Errs /\ queries \subseteq Range(Rules)
    /\ teeType \in {"unset", "none", "sevsnpvm"} /\ faulted \in BOOLEAN
    /\ result \in [ret : {"none"} \cup Errs, factorySpan : {"none"} \cup Errs,
                   downloadSpan : {"none"} \cup Errs]

\* The source spec 4.5 selects: the first option configured, top to bottom.
SpecSource ==
    CASE cfg.dir.set -> "dir"
      [] cfg.bundle -> "bundle"
      [] cfg.modules.set -> "modules"
      [] cfg.allowAll -> "allowAll"
      [] OTHER -> "none"

\* The modules spec 4.5 says that source contributes (a bundle's own
\* modules are carried by the bundle, not by policySet).
SpecModules ==
    CASE SpecSource = "dir" ->
           {Entries[i].name : i \in {j \in cfg.dir.val : Entries[j].rego /\ ~Entries[j].isDir}}
      [] SpecSource = "modules" -> cfg.modules.val
      [] SpecSource = "allowAll" -> {AllowAllName}
      [] OTHER -> {}

\* NewHttpFilterFactory against spec 4.5: it returns a factory exactly when
\* a source is configured and no I/O step failed, and that factory holds
\* the selected source's modules (every non-directory *.rego entry of a
\* directory), the bundle only when the bundle was selected, a prepared
\* query for all four rules, and the TEE type the environment implies.
FactoryOutcome ==
    pc = "done" =>
        /\ (result.ret = "nil") = (~faulted /\ SpecSource # "none")
        /\ result.ret = "nil" =>
              /\ policySet = SpecModules /\ bundle = (SpecSource = "bundle")
              /\ queries = Range(Rules)
              /\ teeType = IF insecure THEN "none" ELSE "sevsnpvm"

\* The downloadOpaPolicyBundle span records only errors of the download
\* (Test_OpaPolicyBundleDownload_Failure checks it records those).  Its
\* deferred RecordSpanError runs at function return, with the final err.
DownloadSpanErrorIsItsOwn ==
    pc = "done" => result.downloadSpan \in {"none", "nil"} \cup DownloadErrs

=============================================================================
