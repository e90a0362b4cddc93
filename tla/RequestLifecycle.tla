-------------------------- MODULE RequestLifecycle --------------------------
(***************************************************************************)
(* The life of a request in the gateway, from the endpoint that accepts it *)
(* (src/src/server.rs) through the handler of its protocol                 *)
(* (src/src/protocol/mod.rs) to the last byte of its answer                *)
(* (src/src/protocol/stream_dispatch.rs), and the two events it owes the   *)
(* metrics pipeline.                                                       *)
(*                                                                         *)
(* The duty to emit the "end" is owned by a value: a RequestGuard, whose   *)
(* Drop reports a failure, or the StreamTracker a guard is turned into,    *)
(* whose Drop reports its flag, which starts out as success.  Which of the *)
(* two a request holds at an await decides what is reported when the       *)
(* upstream fails there, or when the client goes away and the future or    *)
(* the response body is dropped.                                           *)
(*                                                                         *)
(* Abstracted: bodies, statuses and headers; a streamed chunk that arrives *)
(* well (it changes no state kept here); time to first token and usage.    *)
(***************************************************************************)
EXTENDS Metrics

CONSTANT
    Paths       \* the ways through the handlers the requests may take

Protocols == {"OpenAI", "Anthropic", "Responses"}

\* A way through the handlers: the protocol, whether the client asked for a
\* stream, and whether the provider speaks the protocol itself, so that the
\* body is passed on (capabilities().supports_anthropic, supports_responses).
\* The OpenAI handler does not ask; its paths have native = TRUE.
AllPaths ==
    {p \in [protocol : Protocols, stream : BOOLEAN, native : BOOLEAN] :
        p.protocol = "OpenAI" => p.native}

ASSUME PathsAssumption == Paths \subseteq AllPaths

VARIABLES
    pc,         \* where the request is
    path,       \* the way it takes; chosen when it is accepted
    holder,     \* what owns the duty to emit the "end"
    flag,       \* StreamTracker.success
    answer,     \* what the client got
    verdict     \* history: what the "end" reported

requestVars == <<pc, path, holder, flag, answer, verdict>>

vars == <<metricsVars, requestVars>>

Locations == {"idle", "dispatch", "upstream", "streaming", "done"}

\* "partial" is a stream with an error event in it; "cut" one that stopped
\* short with none; "gone" a client that left.
Answers == {"none", "ok", "partial", "cut", "error", "gone"}

Live == {r \in Requests : pc[r] \notin {"idle", "done"}}

NothingLost == Met("start", "lost") = {} /\ Met("end", "lost") = {}

TypeOK ==
    /\ MetricsTypeOK
    /\ pc \in [Requests -> Locations]
    /\ path \in [Requests -> AllPaths]
    /\ holder \in [Requests -> {"none", "guard", "tracker"}]
    /\ flag \in [Requests -> BOOLEAN]
    /\ answer \in [Requests -> Answers]
    /\ verdict \in [Requests -> {"none", "success", "failure"}]

NoPath == [protocol |-> "OpenAI", stream |-> FALSE, native |-> TRUE]

Init ==
    /\ MetricsInit
    /\ pc = [r \in Requests |-> "idle"]
    /\ path = [r \in Requests |-> NoPath]
    /\ holder = [r \in Requests |-> "none"]
    /\ flag = [r \in Requests |-> FALSE]
    /\ answer = [r \in Requests |-> "none"]
    /\ verdict = [r \in Requests |-> "none"]

-----------------------------------------------------------------------------
(* The ways through the handlers.                                          *)

\* openai_handler and anthropic_handler turn the guard into a tracker before
\* they call the upstream when they stream through forward_streaming.
TakesTrackerEarly(p) ==
    /\ p.stream
    /\ p.protocol = "OpenAI" \/ (p.protocol = "Anthropic" /\ ~p.native)

\* collect_non_streaming calls guard.finish(true) and only then converts the
\* upstream's JSON; dispatch_responses_conversion converts first.
ReportsBeforeConverting(p) ==
    ~p.stream /\ p.protocol = "Anthropic" /\ ~p.native

\* The paths on which a whole answer is converted, and may fail to convert.
Converts(p) ==
    ~p.stream /\ ~p.native

-----------------------------------------------------------------------------
(* The end of a request: its holder is consumed or dropped.                *)

\* Variant of Finish that emits nothing for a failure.
Finish_SilentFailure(r, success, seen) ==
    /\ IF success
       THEN Emit(EndOf(r, TRUE))
       ELSE UNCHANGED metricsVars
    /\ pc' = [pc EXCEPT ![r] = "done"]
    /\ holder' = [holder EXCEPT ![r] = "none"]
    /\ answer' = [answer EXCEPT ![r] = seen]
    /\ verdict' = [verdict EXCEPT ![r] = IF success THEN "success" ELSE "failure"]
    /\ UNCHANGED <<path, flag>>

\* RequestGuard::finish, and the two Drops: one "end", and the holder is gone.
Finish(r, success, seen) ==
    /\ Emit(EndOf(r, success))
    /\ pc' = [pc EXCEPT ![r] = "done"]
    /\ holder' = [holder EXCEPT ![r] = "none"]
    /\ answer' = [answer EXCEPT ![r] = seen]
    /\ verdict' = [verdict EXCEPT ![r] = IF success THEN "success" ELSE "failure"]
    /\ UNCHANGED <<path, flag>>

\* What a holder reports when it is dropped: a guard a failure, a tracker its
\* flag.
DropReports(r) == holder[r] = "tracker" /\ flag[r]

-----------------------------------------------------------------------------
(* The steps of a request.                                                 *)

\* The endpoint handlers: RequestGuard::start emits the "start".
Accept(r) ==
    /\ pc[r] = "idle"
    /\ \E p \in Paths : path' = [path EXCEPT ![r] = p]
    /\ Emit(StartOf(r))
    /\ pc' = [pc EXCEPT ![r] = "dispatch"]
    /\ holder' = [holder EXCEPT ![r] = "guard"]
    /\ UNCHANGED <<flag, answer, verdict>>

\* The handler refuses the request before it calls the upstream: the body
\* does not parse, the model has no route, the route names a provider that
\* does not exist, a Responses feature is not supported in conversion.  Each
\* is `guard.finish_err(); return Err(..)`.
Refuse(r) ==
    /\ pc[r] = "dispatch"
    /\ Finish(r, FALSE, "error")

\* The handler calls the upstream, with a tracker already or still with its
\* guard, and awaits the answer.
CallUpstream(r) ==
    /\ pc[r] = "dispatch"
    /\ pc' = [pc EXCEPT ![r] = "upstream"]
    /\ IF TakesTrackerEarly(path[r])
       THEN /\ holder' = [holder EXCEPT ![r] = "tracker"]
            /\ flag' = [flag EXCEPT ![r] = TRUE]
       ELSE UNCHANGED <<holder, flag>>
    /\ UNCHANGED <<metricsVars, path, answer, verdict>>

\* The call returns Err (or chat_stream finds no provider for the model).
\* With a guard that is finish_err; a tracker is dropped by the `?` in
\* forward_streaming.
UpstreamFails(r) ==
    /\ pc[r] = "upstream"
    /\ Finish(r, DropReports(r), "error")

\* The call returns a whole answer, which some paths convert.
UpstreamAnswers(r) ==
    /\ pc[r] = "upstream"
    /\ ~path[r].stream
    /\ \/ Finish(r, TRUE, "ok")
       \/ /\ Converts(path[r])
          /\ Finish(r, ReportsBeforeConverting(path[r]), "error")

\* The call returns a stream: by now a tracker is what the body owns.
UpstreamOpensStream(r) ==
    /\ pc[r] = "upstream"
    /\ path[r].stream
    /\ pc' = [pc EXCEPT ![r] = "streaming"]
    /\ holder' = [holder EXCEPT ![r] = "tracker"]
    /\ flag' = [flag EXCEPT ![r] = TRUE]
    /\ UNCHANGED <<metricsVars, path, answer, verdict>>

\* Variant of StreamBreaks that tells the client and not the tracker.
StreamBreaks_FlagKept(r) ==
    /\ pc[r] = "streaming"
    /\ answer' = [answer EXCEPT ![r] = "partial"]
    /\ UNCHANGED <<metricsVars, pc, path, holder, flag, verdict>>

\* A chunk of the stream is an error: the client is sent an error event, the
\* tracker is told, and the stream goes on.
StreamBreaks(r) ==
    /\ pc[r] = "streaming"
    /\ flag' = [flag EXCEPT ![r] = FALSE]
    /\ answer' = [answer EXCEPT ![r] = "partial"]
    /\ UNCHANGED <<metricsVars, pc, path, holder, verdict>>

\* The stream is over, and the client has all of it; the body, and the tracker
\* in it, are dropped.
StreamEnds(r) ==
    /\ pc[r] = "streaming"
    /\ Finish(r, DropReports(r), IF answer[r] = "none" THEN "ok" ELSE answer[r])

\* The stream stops short, and nothing tells the client so but the silence:
\* the upstream's connection ends without its [DONE], or the transform of an
\* emulated provider panics and takes the body down.  No chunk was an error,
\* so nobody told the tracker either.
StreamStops(r) ==
    /\ pc[r] = "streaming"
    /\ Finish(r, DropReports(r), IF answer[r] = "none" THEN "cut" ELSE answer[r])

\* The client closes the connection while the handler awaits the upstream, or
\* while the body is sent: the server drops the future or the body.
ClientLeaves(r) ==
    /\ pc[r] \in {"upstream", "streaming"}
    /\ Finish(r, DropReports(r), "gone")

Handler(r) ==
    \/ Accept(r)
    \/ Refuse(r)
    \/ CallUpstream(r)
    \/ UpstreamFails(r)
    \/ UpstreamAnswers(r)
    \/ UpstreamOpensStream(r)
    \/ StreamBreaks(r)
    \/ StreamEnds(r)
    \/ StreamStops(r)
    \/ ClientLeaves(r)

Aggregator ==
    /\ Receive \/ Tick
    /\ UNCHANGED requestVars

Next ==
    \/ \E r \in Requests : Handler(r)
    \/ Aggregator

Spec == Init /\ [][Next]_vars

\* The aggregator's task never ends: a waiting event is received, and the
\* interval keeps ticking.  Nothing is assumed of clients and upstreams: there
\* is no limit on the time a request may take.
FairSpec ==
    /\ Spec
    /\ WF_vars(Receive /\ UNCHANGED requestVars)
    /\ WF_vars(Tick /\ UNCHANGED requestVars)
-----------------------------------------------------------------------------
(* Properties.                                                             *)

\* "Ensures every request_start is paired with exactly one request_end"
\* (guard.rs): on whichever path a request ends, and whoever ends it, the
\* duty to emit the "end" is held by exactly one owner from the moment the
\* "start" was emitted until the request is over, and is discharged then.
StartsAndEndsPair ==
    \A r \in Requests :
        /\ (fate["start"][r] # "unsent") <=> (pc[r] # "idle")
        /\ (fate["end"][r] # "unsent") <=> (pc[r] = "done")
        /\ (holder[r] # "none") <=> (r \in Live)
        /\ (verdict[r] # "none") <=> (pc[r] = "done")

\* The aggregator's sums are the events it received, each counted once: a
\* second "end" for one request, or an event dropped on the way from the
\* channel to the counters, would show here.
CountersAddUp ==
    /\ counters.total = Cardinality(Met("start", "counted"))
    /\ counters.success + counters.failed = Cardinality(Met("end", "counted"))
    /\ counters.inFlight = counters.total - counters.success - counters.failed

\* When the channel never overflowed and is empty, the in-flight number is the
\* number of requests in flight: no interleaving of handlers, cancellations
\* and the aggregator makes it drift.
InFlightExact ==
    queue = <<>> /\ NothingLost => counters.inFlight = Cardinality(Live)

\* The in-flight number goes below zero by no more than the number of "start"s
\* the full channel lost; without losses it is never negative, because a
\* request's "end" is received after its "start".
InFlightBoundedByLoss ==
    counters.inFlight >= - Cardinality(Met("start", "lost"))

\* What the dashboard shows is plausible at every moment: a number of requests
\* in flight that is not negative (CHANGELOG: "negative in-flight request
\* count" fixed), and no more outcomes than requests, but for lost "start"s.
SnapshotPlausible ==
    /\ snapshot.inFlight >= 0
    /\ snapshot.success + snapshot.failed
          <= snapshot.total + Cardinality(Met("start", "lost"))

\* "Metrics collection MUST be invisible to request latency" (metrics/mod.rs):
\* whatever the aggregator does or fails to do, a request can be accepted,
\* refused and ended.
NeverWaitsForMetrics ==
    \A r \in Requests :
        /\ pc[r] = "idle" /\ Paths # {} => ENABLED Accept(r)
        /\ pc[r] = "dispatch" => ENABLED Refuse(r)
        /\ pc[r] = "upstream" => ENABLED UpstreamFails(r)
        /\ pc[r] = "streaming" => ENABLED StreamEnds(r)

\* The "end" of a request that is over says what its client got.
VerdictTells(r) ==
    pc[r] = "done" =>
        /\ answer[r] \in {"error", "partial", "cut"} => verdict[r] = "failure"
        /\ answer[r] = "ok" => verdict[r] = "success"

\* The paths on which the guard is kept until the upstream has answered, and
\* the outcome is reported after it is known.
CarefulPaths ==
    {p \in AllPaths :
        \/ p.protocol = "Responses"
        \/ p.protocol = "Anthropic" /\ p.native
        \/ p.protocol = "OpenAI" /\ ~p.stream}

\* On the careful paths the dashboard counts as a failure what the client was
\* told has failed, and as a success what it saw succeed.  A stream that stops
\* short is excepted: the tracker learns only of errors it is handed, so on
\* every path, these included, the code counts such a stream as a success.
CarefulVerdicts ==
    \A r \in Requests :
        path[r] \in CarefulPaths /\ answer[r] # "cut" => VerdictTells(r)

\* The same of every path and every end: "Emit request_end(success=false) for
\* a failed request" (guard.rs).  The code breaks it on the other paths, and
\* for streams that stop short.
AllVerdicts == \A r \in Requests : VerdictTells(r)

\* The dashboard comes to agree with the requests: unless the channel lost an
\* event, the published in-flight number ends up being the number of requests
\* still in flight, and stays so.
DashboardSettles ==
    <>[](NothingLost => snapshot.inFlight = Cardinality(Live))
-----------------------------------------------------------------------------
(* The inductive invariant (see RequestLifecycleProofs).                   *)

\* The channel holds exactly the events whose fate is "queued", each once.
ChannelFaithful ==
    /\ \A i \in DOMAIN queue : fate[queue[i].kind][queue[i].req] = "queued"
    /\ \A i, j \in DOMAIN queue :
          queue[i].kind = queue[j].kind /\ queue[i].req = queue[j].req => i = j
    /\ \A k \in Kinds, r \in Requests :
          fate[k][r] = "queued" =>
              \E i \in DOMAIN queue : queue[i].kind = k /\ queue[i].req = r

\* A request's "start" is ahead of its "end", in the channel and out of it.
ChannelOrdered ==
    /\ \A i, j \in DOMAIN queue :
          /\ queue[i].kind = "start"
          /\ queue[j].kind = "end"
          /\ queue[i].req = queue[j].req
          => i < j
    /\ \A r \in Requests :
          fate["end"][r] = "counted" => fate["start"][r] \in {"counted", "lost"}

IInv ==
    /\ TypeOK
    /\ StartsAndEndsPair
    /\ ChannelFaithful
    /\ ChannelOrdered
    /\ CountersAddUp
=============================================================================
