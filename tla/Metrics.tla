------------------------------ MODULE Metrics ------------------------------
(***************************************************************************)
(* The metrics pipeline of src/src/metrics: request handlers put events    *)
(* into a bounded channel without ever waiting, one background task        *)
(* receives them and adds them up, and a timer publishes the sums as the   *)
(* snapshot the dashboard reads.                                           *)
(*                                                                         *)
(* The module has the pipeline's state and its steps.  Who emits what, and *)
(* when, is RequestLifecycle, which extends this module.                   *)
(*                                                                         *)
(* Abstracted: token counts, latencies and the rates computed from them;   *)
(* the per-provider map; the wall clock (Tick may happen at any moment).   *)
(***************************************************************************)
EXTENDS Integers, Sequences, FiniteSets

CONSTANTS
    Requests,   \* the requests of one life of the server
    Capacity    \* CHANNEL_CAPACITY, 4096 in the code

ASSUME MetricsAssumption ==
    /\ IsFiniteSet(Requests)
    /\ Capacity \in Nat \ {0}

VARIABLES
    queue,      \* the mpsc channel: the events sent and not yet received
    counters,   \* GlobalCounters
    snapshot,   \* the MetricsSnapshot in the ArcSwap
    fate        \* history: what became of each request's two events

metricsVars == <<queue, counters, snapshot, fate>>

Kinds == {"start", "end"}

Fates == {"unsent", "queued", "counted", "lost"}

\* MetricEvent: `success` says something only in an "end".
Event == [kind : Kinds, req : Requests, success : BOOLEAN]

StartOf(r) == [kind |-> "start", req |-> r, success |-> FALSE]

EndOf(r, success) == [kind |-> "end", req |-> r, success |-> success]

\* The requests whose event of a kind met a given fate.
Met(kind, f) == {r \in Requests : fate[kind][r] = f}

Tallies == [total : Nat, success : Nat, failed : Nat, inFlight : Int]

MetricsTypeOK ==
    /\ queue \in Seq(Event)
    /\ Len(queue) <= Capacity
    /\ counters \in Tallies
    /\ snapshot \in Tallies
    /\ fate \in [Kinds -> [Requests -> Fates]]

Zero == [total |-> 0, success |-> 0, failed |-> 0, inFlight |-> 0]

\* init(): an empty channel, zeroed counters, the default snapshot.
MetricsInit ==
    /\ queue = <<>>
    /\ counters = Zero
    /\ snapshot = Zero
    /\ fate = [k \in Kinds |-> [r \in Requests |-> "unsent"]]

-----------------------------------------------------------------------------

\* Variant of Emit that waits for room: `send` in the place of `try_send`.
Emit_Waits(e) ==
    /\ Len(queue) < Capacity
    /\ queue' = Append(queue, e)
    /\ fate' = [fate EXCEPT ![e.kind][e.req] = "queued"]
    /\ UNCHANGED <<counters, snapshot>>

\* Variant of Emit on an unbounded channel.
Emit_Unbounded(e) ==
    /\ queue' = Append(queue, e)
    /\ fate' = [fate EXCEPT ![e.kind][e.req] = "queued"]
    /\ UNCHANGED <<counters, snapshot>>

\* MetricsEmitter::emit is `try_send` with its result discarded: a full
\* channel loses the event, and the caller does not notice.
Emit(e) ==
    /\ \/ /\ Len(queue) < Capacity
          /\ queue' = Append(queue, e)
          /\ fate' = [fate EXCEPT ![e.kind][e.req] = "queued"]
       \/ /\ Len(queue) >= Capacity
          /\ queue' = queue
          /\ fate' = [fate EXCEPT ![e.kind][e.req] = "lost"]
    /\ UNCHANGED <<counters, snapshot>>

Plus(c, total, success, failed, inFlight) ==
    [total |-> c.total + total,
     success |-> c.success + success,
     failed |-> c.failed + failed,
     inFlight |-> c.inFlight + inFlight]

\* Variant of Processed in which a failed request stays in flight.
Processed_FailureStaysInFlight(c, e) ==
    IF e.kind = "start"
    THEN Plus(c, 1, 0, 0, 1)
    ELSE IF e.success
         THEN Plus(c, 0, 1, 0, -1)
         ELSE Plus(c, 0, 0, 1, 0)

\* process_event: what one event adds to the counters.
Processed(c, e) ==
    IF e.kind = "start"
    THEN Plus(c, 1, 0, 0, 1)
    ELSE IF e.success
         THEN Plus(c, 0, 1, 0, -1)
         ELSE Plus(c, 0, 0, 1, -1)

\* Variant of Receive that takes the youngest event first.
Receive_YoungestFirst ==
    /\ queue # <<>>
    /\ LET e == queue[Len(queue)]
       IN  /\ counters' = Processed(counters, e)
           /\ fate' = [fate EXCEPT ![e.kind][e.req] = "counted"]
    /\ queue' = SubSeq(queue, 1, Len(queue) - 1)
    /\ UNCHANGED snapshot

\* The receiving branch of run_aggregator's select!.
Receive ==
    /\ queue # <<>>
    /\ LET e == Head(queue)
       IN  /\ counters' = Processed(counters, e)
           /\ fate' = [fate EXCEPT ![e.kind][e.req] = "counted"]
    /\ queue' = Tail(queue)
    /\ UNCHANGED snapshot

\* Variant of Published that forgets the clamp.
Published_Unclamped(c) == c

\* SnapshotBuilder::build, the global numbers: in_flight is clamped at zero.
Published(c) ==
    IF c.inFlight < 0 THEN Plus(c, 0, 0, 0, - c.inFlight) ELSE c

\* Variant of Tick that keeps the first snapshot for ever.
Tick_OnlyOnce ==
    /\ snapshot = Zero
    /\ snapshot' = Published(counters)
    /\ UNCHANGED <<queue, counters, fate>>

\* The timer branch of run_aggregator's select!.
Tick ==
    /\ snapshot' = Published(counters)
    /\ UNCHANGED <<queue, counters, fate>>
=============================================================================
