------------------------------ MODULE ExtProc ------------------------------
(***************************************************************************)
(* The Envoy ext_proc server (internal/filter/externalprocessor.go): one   *)
(* Process goroutine per bidirectional gRPC stream, each with the          *)
(* httpFilter the factory created for it, serving an Envoy client.         *)
(*                                                                         *)
(* Per stream, Process loops: defer a RecordSpanError closure over the     *)
(* iteration's err, check ctx.Done(), Recv, start a request span and defer *)
(* its End, handleProxyRequest, Send.  The deferred calls of every         *)
(* iteration run only when Process returns.                                *)
(*                                                                         *)
(* gRPC streams are FIFO in each direction.  Envoy may pipeline the next   *)
(* phase before the previous response arrives (Pipelined), half-close,     *)
(* or reset the stream (ctx cancelled), after which Recv and Send fail.    *)
(* The opaFilter methods are not in the repository; OnPhase is modelled    *)
(* from the spec (4.6, 3): an evaluated phase is allowed (its context      *)
(* merges into the session) or denied; a denied session is not evaluated   *)
(* again.                                                                  *)
(***************************************************************************)
EXTENDS Integers, Sequences, SequencesExt, FiniteSets

CONSTANTS
    Streams,    \* concurrent ext_proc streams Envoy opens
    MaxMsgs,    \* bound: MaxMsgs[s] ProcessingRequests Envoy sends on stream s
    Pipelined   \* Envoy may send a phase before the previous is answered

ASSUME MaxMsgs \in [Streams -> Nat \ {0}] /\ Pipelined \in BOOLEAN

\* The ProcessingRequest oneof variants in the order Envoy sends them; the
\* trailers variant has no case in handleProxyRequest.
Order == <<"RequestHeaders", "RequestBody", "RequestTrailers",
           "ResponseHeaders", "ResponseBody">>
ReqKinds == Range(Order)
Handled == ReqKinds \ {"RequestTrailers"}
RespKinds == Handled \cup {"ImmediateResponse"}

\* Values of a loop iteration's err when its deferred closure runs.
ErrVals == {"nil", "EOF", "Canceled"}

VARIABLES
    c2s,        \* c2s[s]: requests in flight from Envoy to Process
    s2c,        \* s2c[s]: responses in flight from Process to Envoy
    envoy,      \* envoy[s]: still sending; stream context cancelled
    proc,       \* proc[s]: the Process goroutine of stream s
    closures,   \* closures[s]: err of each iteration's deferred closure
    openSpans,  \* openSpans[s]: request spans started and not yet ended
    recorded,   \* recorded[s]: errors recorded on the stream's span
    filters,    \* the opaFilter sessions created, in order
    sentLog,    \* sentLog[s]: requests Envoy has sent (history)
    gotLog      \* gotLog[s]: responses Envoy has received (history)

vars == <<c2s, s2c, envoy, proc, closures, openSpans, recorded, filters,
          sentLog, gotLog>>

Init ==
    /\ c2s = [s \in Streams |-> <<>>]
    /\ s2c = [s \in Streams |-> <<>>]
    /\ envoy = [s \in Streams |-> [sending |-> TRUE, cancelled |-> FALSE]]
    /\ proc = [s \in Streams |-> [pc |-> "init", f |-> 0, resp |-> "none",
                                  result |-> "none"]]
    /\ closures = [s \in Streams |-> <<>>]
    /\ openSpans = [s \in Streams |-> 0]
    /\ recorded = [s \in Streams |-> {}]
    /\ filters = <<>>
    /\ sentLog = [s \in Streams |-> <<>>]
    /\ gotLog = [s \in Streams |-> <<>>]

-----------------------------------------------------------------------------
(* Envoy: the client side of each stream.                                 *)

\* Phases go forward: RequestHeaders first, optional phases may be skipped.
MayFollow(log, k) ==
    IF log = <<>> THEN k = "RequestHeaders"
    ELSE \E i, j \in DOMAIN Order : Order[i] = Last(log) /\ Order[j] = k /\ i < j

EnvoySend(s, k) ==
    /\ envoy[s].sending /\ ~envoy[s].cancelled
    /\ Len(sentLog[s]) < MaxMsgs[s] /\ MayFollow(sentLog[s], k)
    /\ Pipelined \/ Len(gotLog[s]) = Len(sentLog[s])
    /\ c2s' = [c2s EXCEPT ![s] = Append(@, k)]
    /\ sentLog' = [sentLog EXCEPT ![s] = Append(@, k)]
    /\ UNCHANGED <<s2c, envoy, proc, closures, openSpans, recorded, filters, gotLog>>

\* Envoy reads a response; an ImmediateResponse ends the HTTP exchange and
\* Envoy stops sending on the stream.
EnvoyReceive(s) ==
    /\ s2c[s] # <<>> /\ ~envoy[s].cancelled
    /\ gotLog' = [gotLog EXCEPT ![s] = Append(@, Head(s2c[s]))]
    /\ s2c' = [s2c EXCEPT ![s] = Tail(@)]
    /\ envoy' = [envoy EXCEPT ![s].sending =
                   @ /\ Head(s2c[s]) # "ImmediateResponse"]
    /\ UNCHANGED <<c2s, proc, closures, openSpans, recorded, filters, sentLog>>

\* The HTTP stream is done: Envoy half-closes (Process's Recv sees io.EOF
\* once the queued requests are read).
EnvoyCloseSend(s) ==
    /\ envoy[s].sending
    /\ envoy' = [envoy EXCEPT ![s].sending = FALSE]
    /\ UNCHANGED <<c2s, s2c, proc, closures, openSpans, recorded, filters,
                   sentLog, gotLog>>

\* Envoy resets the stream (message timeout, downstream disconnect): the
\* stream context srv.Context() is cancelled.
EnvoyCancel(s) ==
    /\ ~envoy[s].cancelled /\ proc[s].pc # "done"
    /\ envoy' = [envoy EXCEPT ![s].cancelled = TRUE]
    /\ UNCHANGED <<c2s, s2c, proc, closures, openSpans, recorded, filters,
                   sentLog, gotLog>>

-----------------------------------------------------------------------------
(* The opaFilter session (modelled from spec 3 and 4.6).                   *)

NewSession == [ctx |-> {}, denied |-> FALSE]

Respond(s, r) == proc' = [proc EXCEPT ![s].pc = "send", ![s].resp = r]

\* OnRequestHeaders/Body, OnResponseHeaders/Body of the session of s: a
\* denied session answers without evaluating; otherwise the policy allows
\* (the decision's context merges into the session) or denies.
OnPhase(s, k) ==
    LET fi == proc[s].f IN
    \/ filters[fi].denied /\ Respond(s, "ImmediateResponse")
       /\ UNCHANGED filters
    \/ ~filters[fi].denied /\ Respond(s, k)
       /\ filters' = [filters EXCEPT ![fi].ctx = @ \cup {s}]
    \/ ~filters[fi].denied /\ Respond(s, "ImmediateResponse")
       /\ filters' = [filters EXCEPT ![fi].denied = TRUE]

-----------------------------------------------------------------------------
(* Process and handleProxyRequest.                                        *)

\* opaFilterFactory.CreateFilter: a new opaFilter sharing only the prepared
\* (read-only) policy queries.
CreateFilter(s) ==
    /\ filters' = Append(filters, NewSession)
    /\ proc' = [proc EXCEPT ![s].pc = "top", ![s].f = Len(filters) + 1]

\* Process begins: httpFilter := s.filterFactory.CreateFilter().
ProcessStart(s) ==
    /\ proc[s].pc = "init"
    /\ CreateFilter(s)
    /\ UNCHANGED <<c2s, s2c, envoy, closures, openSpans, recorded, sentLog, gotLog>>

\* Errors the deferred closures record on return: RecordSpanError(ctx, &err)
\* runs for err != io.EOF and records a non-nil err.
RecordedBy(cl) == Range(cl) \ {"nil", "EOF"}

\* Process returns with the iterations' final errs cl: every deferred
\* closure and every deferred requestSpan.End() runs.
Return(s, res, cl) ==
    /\ proc' = [proc EXCEPT ![s].pc = "done", ![s].result = res]
    /\ closures' = [closures EXCEPT ![s] = cl]
    /\ openSpans' = [openSpans EXCEPT ![s] = 0]
    /\ recorded' = [recorded EXCEPT ![s] = RecordedBy(cl)]

\* The iteration's err after an assignment of e.
SetErr(s, e) == [closures[s] EXCEPT ![Len(closures[s])] = e]

\* Top of the loop: `var err error`, defer the closure over it, then the
\* non-blocking select on ctx.Done().
Loop(s) ==
    LET cl == Append(closures[s], "nil") IN
    /\ proc[s].pc = "top" /\ Len(closures[s]) =< MaxMsgs[s]
    /\ \/ envoy[s].cancelled /\ Return(s, "ctxErr", cl)
       \/ ~envoy[s].cancelled /\ closures' = [closures EXCEPT ![s] = cl]
          /\ proc' = [proc EXCEPT ![s].pc = "recv"]
          /\ UNCHANGED <<openSpans, recorded>>
    /\ UNCHANGED <<c2s, s2c, envoy, filters, sentLog, gotLog>>

\* handleProxyRequest: dispatch on the oneof variant; an unknown variant
\* gets CreateErrorProxyResponse(BadRequest).
HandleProxyRequestEcho(s, req) ==
    \/ req \in Handled /\ OnPhase(s, req)
    \/ req \notin Handled /\ Respond(s, req) /\ UNCHANGED filters

HandleProxyRequestSwapped(s, req) ==
    \/ req \in Handled \ {"RequestBody"} /\ OnPhase(s, req)
    \/ req = "RequestBody" /\ OnPhase(s, "ResponseBody")
    \/ req \notin Handled /\ Respond(s, "ImmediateResponse") /\ UNCHANGED filters

HandleProxyRequest(s, req) ==
    \/ req \in Handled /\ OnPhase(s, req)
    \/ req \notin Handled /\ Respond(s, "ImmediateResponse") /\ UNCHANGED filters

\* req, err := srv.Recv(): a queued request (then the span starts, its End
\* is deferred, and the request is handled); io.EOF after the half-close;
\* an error once the stream is reset.
RecvIgnoresEOF(s) ==
    /\ proc[s].pc = "recv"
    /\ \/ c2s[s] # <<>> /\ c2s' = [c2s EXCEPT ![s] = Tail(@)]
          /\ openSpans' = [openSpans EXCEPT ![s] = @ + 1]
          /\ HandleProxyRequest(s, Head(c2s[s]))
          /\ UNCHANGED <<closures, recorded>>
       \/ c2s[s] = <<>> /\ ~envoy[s].sending
          /\ closures' = [closures EXCEPT ![s] = SetErr(s, "EOF")]
          /\ proc' = [proc EXCEPT ![s].pc = "top"]
          /\ UNCHANGED <<c2s, openSpans, recorded, filters>>
       \/ envoy[s].cancelled /\ Return(s, "recvErr", SetErr(s, "Canceled"))
          /\ UNCHANGED <<c2s, filters>>
    /\ UNCHANGED <<s2c, envoy, sentLog, gotLog>>

Recv(s) ==
    /\ proc[s].pc = "recv"
    /\ \/ c2s[s] # <<>> /\ c2s' = [c2s EXCEPT ![s] = Tail(@)]
          /\ openSpans' = [openSpans EXCEPT ![s] = @ + 1]
          /\ HandleProxyRequest(s, Head(c2s[s]))
          /\ UNCHANGED <<closures, recorded>>
       \/ c2s[s] = <<>> /\ ~envoy[s].sending
          /\ Return(s, "nil", SetErr(s, "EOF")) /\ UNCHANGED <<c2s, filters>>
       \/ envoy[s].cancelled /\ Return(s, "recvErr", SetErr(s, "Canceled"))
          /\ UNCHANGED <<c2s, filters>>
    /\ UNCHANGED <<s2c, envoy, sentLog, gotLog>>

\* err = srv.Send(resp): fails once the stream is reset.
Send(s) ==
    /\ proc[s].pc = "send"
    /\ \/ ~envoy[s].cancelled
          /\ s2c' = [s2c EXCEPT ![s] = Append(@, proc[s].resp)]
          /\ proc' = [proc EXCEPT ![s].pc = "top", ![s].resp = "none"]
          /\ UNCHANGED <<closures, openSpans, recorded>>
       \/ envoy[s].cancelled /\ Return(s, "sendErr", SetErr(s, "Canceled"))
          /\ UNCHANGED s2c
    /\ UNCHANGED <<c2s, envoy, filters, sentLog, gotLog>>

\* Every Process has returned and Envoy has read what it will read.
Finished ==
    /\ \A s \in Streams : proc[s].pc = "done" /\ (s2c[s] = <<>> \/ envoy[s].cancelled)
    /\ UNCHANGED vars

Next ==
    \/ \E s \in Streams :
          \/ \E k \in ReqKinds : EnvoySend(s, k)
          \/ EnvoyReceive(s) \/ EnvoyCloseSend(s) \/ EnvoyCancel(s)
          \/ ProcessStart(s) \/ Loop(s) \/ Recv(s) \/ Send(s)
    \/ Finished

\* Each Process goroutine is scheduled while it can run, and Envoy keeps
\* reading its streams.  Envoy is not obliged to send, close or cancel.
Fairness ==
    \A s \in Streams :
        /\ WF_vars(ProcessStart(s)) /\ WF_vars(Loop(s))
        /\ WF_vars(Recv(s)) /\ WF_vars(Send(s)) /\ WF_vars(EnvoyReceive(s))

Spec == Init /\ [][Next]_vars /\ Fairness

-----------------------------------------------------------------------------
(* Properties.                                                             *)

TypeOK ==
    /\ c2s \in [Streams -> Seq(ReqKinds)] /\ s2c \in [Streams -> Seq(RespKinds)]
    /\ envoy \in [Streams -> [sending : BOOLEAN, cancelled : BOOLEAN]]
    /\ proc \in [Streams -> [pc : {"init", "top", "recv", "send", "done"},
                             f : 0..Len(filters), resp : RespKinds \cup {"none"},
                             result : {"none", "nil", "ctxErr", "recvErr", "sendErr"}]]
    /\ closures \in [Streams -> Seq(ErrVals)]
    /\ openSpans \in [Streams -> Nat] /\ \A s \in Streams : openSpans[s] =< MaxMsgs[s]
    /\ recorded \in [Streams -> SUBSET ErrVals]
    /\ filters \in Seq([ctx : SUBSET Streams, denied : BOOLEAN])
    /\ sentLog \in [Streams -> Seq(ReqKinds)] /\ gotLog \in [Streams -> Seq(RespKinds)]

\* A response answers a request: the same variant continuing, or an
\* ImmediateResponse (deny, or BadRequest for an unknown variant).
Answers(r, q) == r = q \/ r = "ImmediateResponse"

\* Responses follow requests (spec 5): on every stream, even with Envoy
\* pipelining phases, the k-th response Envoy reads answers the k-th
\* request it sent.  Process's Recv/handle/Send loop and the
\* handleProxyRequest dispatch are what keep this.
ResponsesMatchRequests ==
    \A s \in Streams :
        /\ Len(gotLog[s]) =< Len(sentLog[s])
        /\ \A k \in 1..Len(gotLog[s]) : Answers(gotLog[s][k], sentLog[s][k])

\* Once Envoy stops sending (half-close or ImmediateResponse) or resets
\* the stream, Process returns, and unless the stream was reset Envoy has
\* an answer to every request it sent: Recv sees io.EOF only after the
\* queued requests, and cancellation ends a blocked Recv.
StreamEnds ==
    \A s \in Streams :
        ~envoy[s].sending \/ envoy[s].cancelled
          ~> /\ proc[s].pc = "done"
             /\ envoy[s].cancelled \/ Len(gotLog[s]) = Len(sentLog[s])

\* Each phase's request span ends with the phase (spec 4.6, a span per
\* phase): back at the top of its loop, Process holds no open request
\* span.  The code defers requestSpan.End() inside the loop.
RequestSpanEndsWithPhase ==
    \A s \in Streams : proc[s].pc \in {"top", "recv"} => openSpans[s] = 0

=============================================================================
