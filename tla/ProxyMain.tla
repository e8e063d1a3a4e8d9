----------------------------- MODULE ProxyMain -----------------------------
(***************************************************************************)
(* The ext_proc proxy's process lifetime (proxy-ext-processor/main.go,     *)
(* tracing.go): startup steps that each may fail with log.Panicf, the      *)
(* defers main registers along the way, the unwinding a panic runs (last   *)
(* registered first), and SIGINT, which signal.NotifyContext turns into a  *)
(* cancellation of ctx instead of the default termination.                 *)
(*                                                                         *)
(* Spans: the "main" span is started once tracing is up; an error is       *)
(* recorded on it by the deferred RecordSpanError(ctx, &err); it is        *)
(* exported only if it has ended when tp.Shutdown flushes the batcher.     *)
(* tp.Shutdown waits for the flush or for ctx.Done(), whichever is first.  *)
(***************************************************************************)
EXTENDS Naturals, Sequences

\* Main's steps; "serve" is grpcServer.Serve(lis).
Steps == {"open", "read", "unmarshal", "tracing", "listen", "factory", "serve"}

\* The step after each config-file step.
After == [open |-> "read", read |-> "unmarshal", unmarshal |-> "tracing"]

\* initTraceProvider's error returns: otlptracegrpc.New, and
\* resource.Merge in initResource (the resource.New error is discarded).
TraceProviderErrs == {"exporter", "resource"}

VARIABLES
    pc,          \* the step main is at, "unwind" while panicking, "exited"
    defers,      \* main's pending deferred calls, in registration order
    err,         \* main's err variable
    interrupted, \* SIGINT has arrived: ctx is cancelled
    mainSpan,    \* "none" | "open" | "ended"
    recordedErr, \* the error RecordSpanError recorded on the main span
    exported,    \* the main span reached the collector
    panicErr     \* the error log.Panicf was called with, "nil" before

vars == <<pc, defers, err, interrupted, mainSpan, recordedErr, exported, panicErr>>

Init ==
    /\ pc = "open" /\ defers = <<"cancel">> /\ err = "nil"
    /\ interrupted = FALSE /\ mainSpan = "none" /\ recordedErr = "nil"
    /\ exported = FALSE /\ panicErr = "nil"

\* log.Panicf after a failed step: err holds the step's error (every
\* `x, err :=` in main reuses the err declared at the top).
Panic(e) == pc' = "unwind" /\ err' = e /\ panicErr' = e

\* os.Open, io.ReadAll, json.Unmarshal of the config file.  A successful
\* open registers the deferred jsonFile.Close.
ReadConfig ==
    /\ pc \in {"open", "read", "unmarshal"}
    /\ \/ Panic(pc) /\ UNCHANGED defers
       \/ /\ pc' = After[pc]
          /\ defers' = IF pc = "open" THEN Append(defers, "closeConfig") ELSE defers
          /\ UNCHANGED <<err, panicErr>>
    /\ UNCHANGED <<interrupted, mainSpan, recordedErr, exported>>

\* otlptracegrpc.New(ctx, ...) dials the collector with main's ctx, and the
\* dial returns ctx.Err() once SIGINT has cancelled it: after SIGINT,
\* initTraceProvider fails at the exporter, before the resource merge.
TracingErrs == IF interrupted THEN {"exporter"} ELSE TraceProviderErrs

\* Mutant of TracingUp: `defer mainSpan.End()` registered before the
\* deferred tp.Shutdown.
TracingUpSpanFirst ==
    /\ pc = "tracing"
    /\ \/ \E e \in TracingErrs : Panic(e) /\ UNCHANGED <<defers, mainSpan>>
       \/ /\ ~interrupted /\ pc' = "listen" /\ mainSpan' = "open"
          /\ defers' = defers \o <<"endMainSpan", "shutdownTp", "recordErr">>
          /\ UNCHANGED <<err, panicErr>>
    /\ UNCHANGED <<interrupted, recordedErr, exported>>

\* initTraceProvider (the OTLP exporter, then the resource merge, either
\* may fail); defer tp.Shutdown(ctx); tracer.Start(ctx, "main") and defer
\* mainSpan.End(); defer RecordSpanError(ctx, &err).
TracingUp ==
    /\ pc = "tracing"
    /\ \/ \E e \in TracingErrs : Panic(e) /\ UNCHANGED <<defers, mainSpan>>
       \/ /\ ~interrupted /\ pc' = "listen" /\ mainSpan' = "open"
          /\ defers' = defers \o <<"shutdownTp", "endMainSpan", "recordErr">>
          /\ UNCHANGED <<err, panicErr>>
    /\ UNCHANGED <<interrupted, recordedErr, exported>>

\* net.Listen("tcp", address), which may fail.
Listen ==
    /\ pc = "listen"
    /\ \/ Panic("listen")
       \/ pc' = "factory" /\ UNCHANGED <<err, panicErr>>
    /\ UNCHANGED <<defers, interrupted, mainSpan, recordedErr, exported>>

\* opa.NewHttpFilterFactory(ctx, tracer, config.Local.PolicyEngine), which
\* may fail (a bundle download also fails once ctx is cancelled); the
\* Proxy module replaces this step by the PolicyFactory model.
BuildFactory ==
    /\ pc = "factory"
    /\ \/ Panic("factory")
       \/ pc' = "serve" /\ UNCHANGED <<err, panicErr>>
    /\ UNCHANGED <<defers, interrupted, mainSpan, recordedErr, exported>>

\* grpcServer.Serve(lis) returns only with an error (the listener fails).
ServeFails ==
    /\ pc = "serve"
    /\ Panic("serve")
    /\ UNCHANGED <<defers, interrupted, mainSpan, recordedErr, exported>>

\* Serve keeps serving: nothing in main stops the server.
Serving == pc = "serve" /\ UNCHANGED vars

\* SIGINT: NotifyContext cancels ctx (once); the process keeps running.
Interrupt ==
    /\ ~interrupted /\ pc # "exited"
    /\ interrupted' = TRUE
    /\ UNCHANGED <<pc, defers, err, mainSpan, recordedErr, exported, panicErr>>

\* The panic runs the most recently registered deferred call.
RunDefer ==
    LET d == defers[Len(defers)] IN
    /\ pc = "unwind" /\ defers # <<>>
    /\ defers' = SubSeq(defers, 1, Len(defers) - 1)
    /\ \/ d = "recordErr" /\ recordedErr' = err
          /\ UNCHANGED <<err, mainSpan, exported>>
       \/ d = "endMainSpan" /\ mainSpan' = "ended"
          /\ UNCHANGED <<err, recordedErr, exported>>
       \/ d = "shutdownTp"
          /\ \/ exported' = (mainSpan = "ended")
             \/ interrupted /\ UNCHANGED exported
          /\ \E e \in {"nil", "shutdown"} : err' = e
          /\ UNCHANGED <<mainSpan, recordedErr>>
       \/ d = "closeConfig" /\ \E e \in {"nil", "close"} : err' = e
          /\ UNCHANGED <<mainSpan, recordedErr, exported>>
       \/ d = "cancel" /\ UNCHANGED <<err, mainSpan, recordedErr, exported>>
    /\ UNCHANGED <<pc, interrupted, panicErr>>

\* Every deferred call has run: the panic ends the process.
Exit ==
    /\ pc = "unwind" /\ defers = <<>>
    /\ pc' = "exited"
    /\ UNCHANGED <<defers, err, interrupted, mainSpan, recordedErr, exported, panicErr>>

Exited == pc = "exited" /\ UNCHANGED vars

Next ==
    \/ ReadConfig \/ TracingUp \/ Listen \/ BuildFactory \/ ServeFails
    \/ Serving \/ Interrupt \/ RunDefer \/ Exit \/ Exited

\* main's goroutine runs whenever it is not blocked in Serve.
Spec == Init /\ [][Next]_vars
        /\ WF_vars(ReadConfig) /\ WF_vars(TracingUp) /\ WF_vars(Listen)
        /\ WF_vars(BuildFactory) /\ WF_vars(RunDefer) /\ WF_vars(Exit)

-----------------------------------------------------------------------------
(* Properties.                                                             *)

TypeOK ==
    /\ pc \in Steps \cup {"unwind", "exited"}
    /\ defers \in Seq({"cancel", "closeConfig", "shutdownTp", "endMainSpan", "recordErr"})
    /\ err \in STRING /\ panicErr \in STRING
    /\ interrupted \in BOOLEAN /\ mainSpan \in {"none", "open", "ended"}
    /\ recordedErr \in STRING /\ exported \in BOOLEAN

\* A startup failure once tracing is up (listen, factory, or Serve) is
\* reported: when the process exits without having been interrupted, the
\* main span carries the error main panicked with, and was exported.  This depends on the
\* order of main's defers: RecordSpanError, then mainSpan.End, then
\* tp.Shutdown must run in that order when log.Panicf unwinds.
StartupFailureReported ==
    pc = "exited" /\ ~interrupted /\ mainSpan # "none" =>
        recordedErr = panicErr /\ exported

\* Interrupting the proxy stops it (spec 9: the tracing provider is shut
\* down on exit; main installs signal.NotifyContext for SIGINT): once
\* SIGINT has arrived, the process eventually exits.
InterruptStopsProxy == interrupted ~> pc = "exited"

=============================================================================
