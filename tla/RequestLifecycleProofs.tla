----------------------- MODULE RequestLifecycleProofs -----------------------
(***************************************************************************)
(* Proofs about RequestLifecycle, for any finite set of requests, any      *)
(* capacity of the channel and any choice of paths.                        *)
(*                                                                         *)
(* Every step of the system is one of five shapes: a request is accepted,  *)
(* a live request moves, a live request ends, an event is received, the    *)
(* snapshot is published.  StepShapes says so, and each part of the        *)
(* inductive invariant IInv is then proved over the five.                  *)
(***************************************************************************)
EXTENDS RequestLifecycle, FiniteSetTheorems, TLAPS

\* A live request moves on and emits nothing.
Moves(r) ==
    /\ r \in Live
    /\ \E l \in {"upstream", "streaming"} : pc' = [pc EXCEPT ![r] = l]
    /\ holder' = holder \/ holder' = [holder EXCEPT ![r] = "tracker"]
    /\ flag' = flag \/ \E b \in BOOLEAN : flag' = [flag EXCEPT ![r] = b]
    /\ \E a \in Answers : answer' = [answer EXCEPT ![r] = a]
    /\ UNCHANGED <<metricsVars, path, verdict>>

\* A live request ends.
Ends(r) ==
    /\ r \in Live
    /\ \E success \in BOOLEAN, seen \in Answers : Finish(r, success, seen)

\* Every step of a request's handler has one of the three shapes.
LEMMA StepShapes ==
    ASSUME TypeOK, NEW r \in Requests, Handler(r)
    PROVE  Accept(r) \/ Moves(r) \/ Ends(r)
<1> USE DEF TypeOK
<1>1. CASE Accept(r)
  BY <1>1
<1>2. CASE Refuse(r)
  <2>1. r \in Live
    BY <1>2 DEF Refuse, Live
  <2> QED
    BY <1>2, <2>1 DEF Refuse, Ends, Answers
<1>3. CASE CallUpstream(r)
  <2>1. r \in Live
    BY <1>3 DEF CallUpstream, Live
  <2>2. answer' = [answer EXCEPT ![r] = answer[r]]
    BY <1>3 DEF CallUpstream
  <2> QED
    BY <1>3, <2>1, <2>2 DEF CallUpstream, Moves
<1>4. CASE UpstreamFails(r)
  <2>1. r \in Live
    BY <1>4 DEF UpstreamFails, Live
  <2>2. DropReports(r) \in BOOLEAN
    BY DEF DropReports
  <2> QED
    BY <1>4, <2>1, <2>2 DEF UpstreamFails, Ends, Answers
<1>5. CASE UpstreamAnswers(r)
  <2>1. r \in Live
    BY <1>5 DEF UpstreamAnswers, Live
  <2>2. ReportsBeforeConverting(path[r]) \in BOOLEAN
    BY DEF ReportsBeforeConverting
  <2> QED
    BY <1>5, <2>1, <2>2 DEF UpstreamAnswers, Ends, Answers
<1>6. CASE UpstreamOpensStream(r)
  <2>1. r \in Live
    BY <1>6 DEF UpstreamOpensStream, Live
  <2>2. answer' = [answer EXCEPT ![r] = answer[r]]
    BY <1>6 DEF UpstreamOpensStream
  <2> QED
    BY <1>6, <2>1, <2>2 DEF UpstreamOpensStream, Moves
<1>7. CASE StreamBreaks(r)
  <2>1. r \in Live
    BY <1>7 DEF StreamBreaks, Live
  <2>2. pc' = [pc EXCEPT ![r] = "streaming"]
    BY <1>7 DEF StreamBreaks
  <2> QED
    BY <1>7, <2>1, <2>2 DEF StreamBreaks, Moves, Answers
<1>8. CASE StreamEnds(r)
  <2>1. r \in Live
    BY <1>8 DEF StreamEnds, Live
  <2>2. DropReports(r) \in BOOLEAN
    BY DEF DropReports
  <2>3. (IF answer[r] = "none" THEN "ok" ELSE answer[r]) \in Answers
    BY DEF Answers
  <2> QED
    BY <1>8, <2>1, <2>2, <2>3 DEF StreamEnds, Ends
<1>9. CASE StreamStops(r)
  <2>1. r \in Live
    BY <1>9 DEF StreamStops, Live
  <2>2. DropReports(r) \in BOOLEAN
    BY DEF DropReports
  <2>3. (IF answer[r] = "none" THEN "cut" ELSE answer[r]) \in Answers
    BY DEF Answers
  <2> QED
    BY <1>9, <2>1, <2>2, <2>3 DEF StreamStops, Ends
<1>10. CASE ClientLeaves(r)
  <2>1. r \in Live
    BY <1>10 DEF ClientLeaves, Live
  <2>2. DropReports(r) \in BOOLEAN
    BY DEF DropReports
  <2> QED
    BY <1>10, <2>1, <2>2 DEF ClientLeaves, Ends, Answers
<1> QED
  BY <1>1, <1>2, <1>3, <1>4, <1>5, <1>6, <1>7, <1>8, <1>9, <1>10 DEF Handler
-----------------------------------------------------------------------------
(* Type correctness.                                                       *)

\* One event's fate changes, and no other.
LEMMA FateUpdate ==
    ASSUME fate \in [Kinds -> [Requests -> Fates]],
           NEW k \in Kinds, NEW r \in Requests, NEW f \in Fates,
           fate' = [fate EXCEPT ![k][r] = f]
    PROVE  /\ fate' \in [Kinds -> [Requests -> Fates]]
           /\ fate'[k][r] = f
           /\ \A k2 \in Kinds, r2 \in Requests :
                 k2 # k \/ r2 # r => fate'[k2][r2] = fate[k2][r2]
OBVIOUS

\* Emitting an event keeps the pipeline's variables in their types.
LEMMA EmitType ==
    ASSUME MetricsTypeOK, NEW e \in Event, Emit(e)
    PROVE  MetricsTypeOK'
<1>1. e.kind \in Kinds /\ e.req \in Requests
  BY DEF Event
<1>2. PICK f \in Fates : fate' = [fate EXCEPT ![e.kind][e.req] = f]
  BY DEF Emit, Fates
<1>3. fate' \in [Kinds -> [Requests -> Fates]]
  BY <1>1, <1>2, FateUpdate DEF MetricsTypeOK
<1>4. queue' \in Seq(Event) /\ Len(queue') <= Capacity
  BY MetricsAssumption DEF Emit, MetricsTypeOK
<1>5. counters' = counters /\ snapshot' = snapshot
  BY DEF Emit
<1> QED
  BY <1>3, <1>4, <1>5 DEF MetricsTypeOK

\* What an event adds to the counters keeps them in their types.
LEMMA ProcessedType ==
    ASSUME NEW c \in Tallies, NEW e
    PROVE  Processed(c, e) \in Tallies
<1>1. /\ Plus(c, 1, 0, 0, 1) \in Tallies
      /\ Plus(c, 0, 1, 0, -1) \in Tallies
      /\ Plus(c, 0, 0, 1, -1) \in Tallies
  BY DEF Plus, Tallies
<1> QED
  BY <1>1, Zenon DEF Processed

\* Receiving an event keeps them too.
LEMMA ReceiveType ==
    ASSUME MetricsTypeOK, Receive
    PROVE  MetricsTypeOK'
<1> DEFINE e == Head(queue)
<1>1. e \in Event
  BY DEF MetricsTypeOK, Receive
<1>2. e.kind \in Kinds /\ e.req \in Requests
  BY <1>1 DEF Event
<1>3. fate' \in [Kinds -> [Requests -> Fates]]
  <2>1. fate' = [fate EXCEPT ![e.kind][e.req] = "counted"]
    BY DEF Receive
  <2> HIDE DEF e
  <2> QED
    BY <1>2, <2>1, FateUpdate DEF MetricsTypeOK, Fates
<1>4. counters' \in Tallies
  BY ProcessedType, Zenon DEF MetricsTypeOK, Receive
<1>5. queue' \in Seq(Event) /\ Len(queue') <= Capacity
  BY MetricsAssumption DEF Receive, MetricsTypeOK
<1> QED
  BY <1>3, <1>4, <1>5 DEF MetricsTypeOK, Receive

LEMMA TickType ==
    ASSUME MetricsTypeOK, Tick
    PROVE  MetricsTypeOK'
BY DEF MetricsTypeOK, Tick, Published, Plus, Tallies

\* Type correctness: the channel never holds more than its capacity, and every
\* variable keeps its type, whatever the requests and the aggregator do.
THEOREM TypeCorrect == Spec => []TypeOK
<1>1. Init => TypeOK
  BY MetricsAssumption DEF Init, MetricsInit, TypeOK, MetricsTypeOK, Zero, Tallies,
     Kinds, Fates, Locations, Answers, NoPath, AllPaths, Protocols
<1>2. TypeOK /\ [Next]_vars => TypeOK'
  <2> SUFFICES ASSUME TypeOK, [Next]_vars
               PROVE  TypeOK'
    OBVIOUS
  <2> USE DEF TypeOK
  <2>1. ASSUME NEW r \in Requests, Accept(r)
        PROVE  TypeOK'
    <3>1. StartOf(r) \in Event
      BY DEF StartOf, Event, Kinds
    <3>2. MetricsTypeOK'
      BY <2>1, <3>1, EmitType DEF Accept
    <3> QED
      BY <2>1, <3>2, PathsAssumption DEF Accept, Locations
  <2>2. ASSUME NEW r \in Requests, Moves(r)
        PROVE  TypeOK'
    BY <2>2 DEF Moves, metricsVars, MetricsTypeOK, Locations
  <2>3. ASSUME NEW r \in Requests, Ends(r)
        PROVE  TypeOK'
    <3>1. PICK success \in BOOLEAN, seen \in Answers : Finish(r, success, seen)
      BY <2>3 DEF Ends
    <3>2. EndOf(r, success) \in Event
      BY DEF EndOf, Event, Kinds
    <3>3. MetricsTypeOK'
      BY <3>1, <3>2, EmitType DEF Finish
    <3> QED
      BY <3>1, <3>3 DEF Finish, Locations
  <2>4. CASE Aggregator
    BY <2>4, ReceiveType, TickType DEF Aggregator, requestVars
  <2>5. CASE UNCHANGED vars
    BY <2>5 DEF vars, metricsVars, requestVars, MetricsTypeOK
  <2> QED
    BY <2>1, <2>2, <2>3, <2>4, <2>5, StepShapes DEF Next
<1> QED
  BY <1>1, <1>2, PTL DEF Spec
-----------------------------------------------------------------------------
(* Which events there are, and which of them wait in the channel.          *)

LEMMA QueuedEvents ==
    ASSUME MetricsTypeOK
    PROVE  \A i \in DOMAIN queue : queue[i].kind \in Kinds /\ queue[i].req \in Requests
<1>1. \A i \in DOMAIN queue : queue[i] \in Event
  BY DEF MetricsTypeOK
<1>2. \A e \in Event : e.kind \in Kinds /\ e.req \in Requests
  BY DEF Event
<1> QED
  BY <1>1, <1>2

\* What emitting does to the events' fates.
LEMMA EmitFates ==
    ASSUME MetricsTypeOK, NEW e \in Event, Emit(e)
    PROVE  /\ fate'[e.kind][e.req] \in {"queued", "lost"}
           /\ \A k \in Kinds, r \in Requests :
                 k # e.kind \/ r # e.req => fate'[k][r] = fate[k][r]
<1>1. e.kind \in Kinds /\ e.req \in Requests
  BY DEF Event
<1>2. PICK f \in {"queued", "lost"} : fate' = [fate EXCEPT ![e.kind][e.req] = f]
  BY DEF Emit
<1> QED
  BY <1>1, <1>2, FateUpdate DEF MetricsTypeOK, Fates

\* What receiving does to them: the event at the head is the one counted.
LEMMA ReceiveFates ==
    ASSUME MetricsTypeOK, Receive
    PROVE  /\ queue[1] \in Event
           /\ queue[1].kind \in Kinds /\ queue[1].req \in Requests
           /\ fate'[queue[1].kind][queue[1].req] = "counted"
           /\ \A k \in Kinds, r \in Requests :
                 k # queue[1].kind \/ r # queue[1].req => fate'[k][r] = fate[k][r]
<1> DEFINE e == queue[1]
<1>1. e \in Event
  BY DEF MetricsTypeOK, Receive
<1>2. e.kind \in Kinds /\ e.req \in Requests
  BY <1>1 DEF Event
<1>3. fate' = [fate EXCEPT ![e.kind][e.req] = "counted"]
  <2>1. Head(queue) = e
    BY DEF Receive, MetricsTypeOK
  <2>2. fate' = [fate EXCEPT ![Head(queue).kind][Head(queue).req] = "counted"]
    BY DEF Receive
  <2> QED
    BY <2>1, <2>2, Zenon
<1> HIDE DEF e
<1>4. /\ fate'[e.kind][e.req] = "counted"
      /\ \A k \in Kinds, r \in Requests :
            k # e.kind \/ r # e.req => fate'[k][r] = fate[k][r]
  BY <1>2, <1>3, FateUpdate DEF MetricsTypeOK, Fates
<1> QED
  BY <1>1, <1>2, <1>4 DEF e

LEMMA PairStep ==
    ASSUME TypeOK, StartsAndEndsPair, ChannelFaithful, [Next]_vars
    PROVE  StartsAndEndsPair'
<1> USE DEF StartsAndEndsPair
<1>0. MetricsTypeOK
  BY DEF TypeOK
<1>1. ASSUME NEW r \in Requests, Accept(r)
      PROVE  StartsAndEndsPair'
  <2>1. StartOf(r) \in Event /\ StartOf(r).kind = "start" /\ StartOf(r).req = r
    BY DEF StartOf, Event, Kinds
  <2>2. Emit(StartOf(r))
    BY <1>1 DEF Accept
  <2>3. /\ fate'["start"][r] # "unsent"
        /\ \A k \in Kinds, q \in Requests :
              k # "start" \/ q # r => fate'[k][q] = fate[k][q]
    BY <1>0, <2>1, <2>2, EmitFates
  <2> QED
    BY <1>1, <2>3 DEF Accept, TypeOK, Live, Kinds
<1>2. ASSUME NEW r \in Requests, Moves(r)
      PROVE  StartsAndEndsPair'
  BY <1>2 DEF Moves, TypeOK, Live, metricsVars
<1>3. ASSUME NEW r \in Requests, Ends(r)
      PROVE  StartsAndEndsPair'
  <2>1. PICK success \in BOOLEAN, seen \in Answers : Finish(r, success, seen)
    BY <1>3 DEF Ends
  <2>2. /\ EndOf(r, success) \in Event
        /\ EndOf(r, success).kind = "end" /\ EndOf(r, success).req = r
    BY DEF EndOf, Event, Kinds
  <2>3. Emit(EndOf(r, success))
    BY <2>1 DEF Finish
  <2>4. /\ fate'["end"][r] # "unsent"
        /\ \A k \in Kinds, q \in Requests :
              k # "end" \/ q # r => fate'[k][q] = fate[k][q]
    BY <1>0, <2>2, <2>3, EmitFates
  <2> QED
    BY <1>3, <2>1, <2>4 DEF Ends, Finish, TypeOK, Live, Kinds
<1>4. CASE Receive /\ UNCHANGED requestVars
  <2>1. fate[queue[1].kind][queue[1].req] = "queued"
    BY <1>4, <1>0 DEF ChannelFaithful, Receive, MetricsTypeOK
  <2>2. \A k \in Kinds, q \in Requests :
           (fate'[k][q] = "unsent") <=> (fate[k][q] = "unsent")
    BY <1>0, <1>4, <2>1, ReceiveFates
  <2> QED
    BY <1>4, <2>2 DEF requestVars, Live, Kinds
<1>5. CASE Tick /\ UNCHANGED requestVars
  BY <1>5 DEF Tick, requestVars, Live
<1>6. CASE UNCHANGED vars
  BY <1>6 DEF vars, metricsVars, requestVars, Live
<1> QED
  BY <1>1, <1>2, <1>3, <1>4, <1>5, <1>6, StepShapes DEF Next, Aggregator

\* Emitting an event that was not sent before keeps the channel faithful.
LEMMA EmitChannel ==
    ASSUME MetricsTypeOK, ChannelFaithful, NEW e \in Event, Emit(e),
           fate[e.kind][e.req] = "unsent"
    PROVE  ChannelFaithful'
<1>1. e.kind \in Kinds /\ e.req \in Requests
  BY DEF Event
<1>3. \A i \in DOMAIN queue :
         /\ queue[i].kind \in Kinds /\ queue[i].req \in Requests
         /\ queue[i].kind # e.kind \/ queue[i].req # e.req
  BY QueuedEvents DEF ChannelFaithful
<1>4. CASE Len(queue) < Capacity
  <2>1. queue' = Append(queue, e) /\ fate' = [fate EXCEPT ![e.kind][e.req] = "queued"]
    BY <1>4, MetricsAssumption DEF Emit, MetricsTypeOK
  <2>2. /\ DOMAIN queue' = 1..(Len(queue) + 1)
        /\ DOMAIN queue = 1..Len(queue)
        /\ Len(queue) \in Nat
        /\ queue'[Len(queue) + 1] = e
        /\ \A i \in 1..Len(queue) : queue'[i] = queue[i]
    BY <2>1 DEF MetricsTypeOK
  <2>3. /\ fate'[e.kind][e.req] = "queued"
        /\ \A k \in Kinds, r \in Requests :
              k # e.kind \/ r # e.req => fate'[k][r] = fate[k][r]
    BY <1>1, <2>1, FateUpdate DEF MetricsTypeOK, Fates
  <2>4. \A i \in DOMAIN queue' : fate'[queue'[i].kind][queue'[i].req] = "queued"
    BY <1>3, <2>2, <2>3 DEF ChannelFaithful
  <2>5. \A i, j \in DOMAIN queue' :
           queue'[i].kind = queue'[j].kind /\ queue'[i].req = queue'[j].req => i = j
    BY <1>3, <2>2 DEF ChannelFaithful
  <2>6. ASSUME NEW k \in Kinds, NEW r \in Requests, fate'[k][r] = "queued"
        PROVE  \E i \in DOMAIN queue' : queue'[i].kind = k /\ queue'[i].req = r
    <3>1. CASE k = e.kind /\ r = e.req
      BY <3>1, <2>2
    <3>2. CASE k # e.kind \/ r # e.req
      <4>1. fate[k][r] = "queued"
        BY <2>3, <2>6, <3>2
      <4>2. PICK i \in DOMAIN queue : queue[i].kind = k /\ queue[i].req = r
        BY <4>1 DEF ChannelFaithful
      <4> QED
        BY <4>2, <2>2
    <3> QED
      BY <3>1, <3>2
  <2> QED
    BY <2>4, <2>5, <2>6 DEF ChannelFaithful
<1>5. CASE ~(Len(queue) < Capacity)
  <2>1. queue' = queue /\ fate' = [fate EXCEPT ![e.kind][e.req] = "lost"]
    BY <1>5 DEF Emit
  <2>2. /\ fate'[e.kind][e.req] = "lost"
        /\ \A k \in Kinds, r \in Requests :
              k # e.kind \/ r # e.req => fate'[k][r] = fate[k][r]
    BY <1>1, <2>1, FateUpdate DEF MetricsTypeOK, Fates
  <2>3. \A i \in DOMAIN queue' : fate'[queue'[i].kind][queue'[i].req] = "queued"
    BY <1>3, <2>1, <2>2 DEF ChannelFaithful
  <2>4. \A k \in Kinds, r \in Requests :
           fate'[k][r] = "queued" => fate[k][r] = "queued"
    BY <2>2
  <2> QED
    BY <2>1, <2>3, <2>4 DEF ChannelFaithful
<1> QED
  BY <1>4, <1>5
\* Receiving the event at the head keeps the channel faithful.
LEMMA ReceiveChannel ==
    ASSUME MetricsTypeOK, ChannelFaithful, Receive
    PROVE  ChannelFaithful'
<1>1. /\ queue' = Tail(queue)
      /\ Len(queue) \in Nat \ {0}
      /\ DOMAIN queue = 1..Len(queue)
      /\ DOMAIN queue' = 1..(Len(queue) - 1)
      /\ \A i \in 1..(Len(queue) - 1) : queue'[i] = queue[i + 1]
  BY DEF Receive, MetricsTypeOK
<1>2. \A i \in DOMAIN queue : queue[i].kind \in Kinds /\ queue[i].req \in Requests
  BY QueuedEvents
<1>3. /\ fate'[queue[1].kind][queue[1].req] = "counted"
      /\ \A k \in Kinds, r \in Requests :
            k # queue[1].kind \/ r # queue[1].req => fate'[k][r] = fate[k][r]
  BY ReceiveFates
<1>4. \A i, j \in DOMAIN queue :
         queue[i].kind = queue[j].kind /\ queue[i].req = queue[j].req => i = j
  BY DEF ChannelFaithful
<1>5. ASSUME NEW i \in DOMAIN queue'
      PROVE  fate'[queue'[i].kind][queue'[i].req] = "queued"
  <2>1. /\ i + 1 \in DOMAIN queue /\ 1 \in DOMAIN queue /\ i + 1 # 1
        /\ queue'[i] = queue[i + 1]
    BY <1>1, <1>5
  <2>2. queue[i + 1].kind # queue[1].kind \/ queue[i + 1].req # queue[1].req
    BY <2>1, <1>4
  <2>3. fate[queue[i + 1].kind][queue[i + 1].req] = "queued"
    BY <2>1 DEF ChannelFaithful
  <2> QED
    BY <2>1, <2>2, <2>3, <1>2, <1>3
<1>6. \A i, j \in DOMAIN queue' :
         queue'[i].kind = queue'[j].kind /\ queue'[i].req = queue'[j].req => i = j
  <2> SUFFICES ASSUME NEW i \in DOMAIN queue', NEW j \in DOMAIN queue',
                      queue'[i].kind = queue'[j].kind, queue'[i].req = queue'[j].req
               PROVE  i = j
    OBVIOUS
  <2>1. /\ i \in Int /\ j \in Int
        /\ i + 1 \in DOMAIN queue /\ j + 1 \in DOMAIN queue
        /\ queue'[i] = queue[i + 1] /\ queue'[j] = queue[j + 1]
    BY <1>1
  <2>2. i + 1 = j + 1
    BY <2>1, <1>4
  <2> QED
    BY <2>1, <2>2
<1>7. ASSUME NEW k \in Kinds, NEW r \in Requests, fate'[k][r] = "queued"
      PROVE  \E i \in DOMAIN queue' : queue'[i].kind = k /\ queue'[i].req = r
  <2>1. k # queue[1].kind \/ r # queue[1].req
    BY <1>3, <1>7
  <2>2. fate[k][r] = "queued"
    BY <1>3, <1>7, <2>1
  <2>3. PICK i \in DOMAIN queue : queue[i].kind = k /\ queue[i].req = r
    BY <2>2 DEF ChannelFaithful
  <2>4. i # 1
    BY <2>1, <2>3
  <2>5. i - 1 \in DOMAIN queue' /\ queue'[i - 1] = queue[i]
    BY <1>1, <2>3, <2>4
  <2> QED
    BY <2>3, <2>5
<1> QED
  BY <1>5, <1>6, <1>7 DEF ChannelFaithful

LEMMA ChannelStep ==
    ASSUME TypeOK, StartsAndEndsPair, ChannelFaithful, [Next]_vars
    PROVE  ChannelFaithful'
<1>0. MetricsTypeOK
  BY DEF TypeOK
<1>1. ASSUME NEW r \in Requests, Accept(r)
      PROVE  ChannelFaithful'
  <2>1. StartOf(r) \in Event /\ StartOf(r).kind = "start" /\ StartOf(r).req = r
    BY DEF StartOf, Event, Kinds
  <2>2. fate["start"][r] = "unsent"
    BY <1>1 DEF Accept, StartsAndEndsPair
  <2> QED
    BY <1>0, <1>1, <2>1, <2>2, EmitChannel DEF Accept
<1>2. ASSUME NEW r \in Requests, Moves(r)
      PROVE  ChannelFaithful'
  BY <1>2 DEF Moves, metricsVars, ChannelFaithful
<1>3. ASSUME NEW r \in Requests, Ends(r)
      PROVE  ChannelFaithful'
  <2>1. PICK success \in BOOLEAN, seen \in Answers : Finish(r, success, seen)
    BY <1>3 DEF Ends
  <2>2. /\ EndOf(r, success) \in Event
        /\ EndOf(r, success).kind = "end" /\ EndOf(r, success).req = r
    BY DEF EndOf, Event, Kinds
  <2>3. fate["end"][r] = "unsent"
    BY <1>3 DEF Ends, Live, StartsAndEndsPair
  <2> QED
    BY <1>0, <2>1, <2>2, <2>3, EmitChannel DEF Finish
<1>4. CASE Receive
  BY <1>0, <1>4, ReceiveChannel
<1>5. CASE Tick
  BY <1>5 DEF Tick, ChannelFaithful
<1>6. CASE UNCHANGED vars
  BY <1>6 DEF vars, metricsVars, ChannelFaithful
<1> QED
  BY <1>1, <1>2, <1>3, <1>4, <1>5, <1>6, StepShapes DEF Next, Aggregator

-----------------------------------------------------------------------------
(* The order of a request's two events.                                    *)

LEMMA OrderStep ==
    ASSUME TypeOK, StartsAndEndsPair, ChannelFaithful, ChannelOrdered, [Next]_vars
    PROVE  ChannelOrdered'
<1>0. /\ MetricsTypeOK
      /\ \A i \in DOMAIN queue : queue[i].kind \in Kinds /\ queue[i].req \in Requests
  BY QueuedEvents DEF TypeOK
<1>a. ASSUME NEW e \in Event, Emit(e), fate[e.kind][e.req] = "unsent",
             e.kind = "start" => fate["end"][e.req] = "unsent"
      PROVE  ChannelOrdered'
  <2>1. e.kind \in Kinds /\ e.req \in Requests
    BY DEF Event
  <2>2. /\ fate'[e.kind][e.req] \in {"queued", "lost"}
        /\ \A k \in Kinds, r \in Requests :
              k # e.kind \/ r # e.req => fate'[k][r] = fate[k][r]
    BY <1>0, <1>a, EmitFates
  <2>3. ASSUME NEW r \in Requests, fate'["end"][r] = "counted"
        PROVE  fate'["start"][r] \in {"counted", "lost"}
    <3>1. fate["end"][r] = "counted"
      BY <2>2, <2>3 DEF Kinds
    <3>2. fate["start"][r] \in {"counted", "lost"}
      BY <3>1 DEF ChannelOrdered
    <3>3. ~(e.kind = "start" /\ e.req = r)
      BY <1>a, <3>1
    <3> QED
      BY <2>2, <3>2, <3>3 DEF Kinds
  <2>4. queue' = queue \/ queue' = Append(queue, e)
    BY <1>a DEF Emit
  <2>5. /\ DOMAIN queue = 1..Len(queue) /\ Len(queue) \in Nat
        /\ queue' = Append(queue, e) =>
              /\ DOMAIN queue' = 1..(Len(queue) + 1)
              /\ queue'[Len(queue) + 1] = e
              /\ \A i \in 1..Len(queue) : queue'[i] = queue[i]
    BY <1>0 DEF MetricsTypeOK
  <2>6. e.kind = "start" =>
           \A j \in DOMAIN queue : ~(queue[j].kind = "end" /\ queue[j].req = e.req)
    BY <1>0, <1>a DEF ChannelFaithful
  <2>7. \A i, j \in DOMAIN queue :
           /\ queue[i].kind = "start"
           /\ queue[j].kind = "end"
           /\ queue[i].req = queue[j].req
           => i < j
    BY DEF ChannelOrdered
  <2>8. \A i, j \in DOMAIN queue' :
           /\ queue'[i].kind = "start"
           /\ queue'[j].kind = "end"
           /\ queue'[i].req = queue'[j].req
           => i < j
    BY <2>4, <2>5, <2>6, <2>7
  <2> QED
    BY <2>3, <2>8 DEF ChannelOrdered
<1>1. ASSUME NEW r \in Requests, Accept(r)
      PROVE  ChannelOrdered'
  <2>1. StartOf(r) \in Event /\ StartOf(r).kind = "start" /\ StartOf(r).req = r
    BY DEF StartOf, Event, Kinds
  <2>2. fate["start"][r] = "unsent" /\ fate["end"][r] = "unsent"
    BY <1>1 DEF Accept, StartsAndEndsPair
  <2> QED
    BY <1>a, <1>1, <2>1, <2>2 DEF Accept
<1>2. ASSUME NEW r \in Requests, Moves(r)
      PROVE  ChannelOrdered'
  BY <1>2 DEF Moves, metricsVars, ChannelOrdered
<1>3. ASSUME NEW r \in Requests, Ends(r)
      PROVE  ChannelOrdered'
  <2>1. PICK success \in BOOLEAN, seen \in Answers : Finish(r, success, seen)
    BY <1>3 DEF Ends
  <2>2. /\ EndOf(r, success) \in Event
        /\ EndOf(r, success).kind = "end" /\ EndOf(r, success).req = r
    BY DEF EndOf, Event, Kinds
  <2>3. fate["end"][r] = "unsent"
    BY <1>3 DEF Ends, Live, StartsAndEndsPair
  <2> QED
    BY <1>a, <2>1, <2>2, <2>3 DEF Finish
<1>4. CASE Receive /\ UNCHANGED requestVars
  <2>1. /\ queue' = Tail(queue)
        /\ Len(queue) \in Nat \ {0}
        /\ DOMAIN queue = 1..Len(queue)
        /\ DOMAIN queue' = 1..(Len(queue) - 1)
        /\ \A i \in 1..(Len(queue) - 1) : queue'[i] = queue[i + 1]
    BY <1>0, <1>4 DEF Receive, MetricsTypeOK
  <2>2. /\ queue[1].kind \in Kinds /\ queue[1].req \in Requests
        /\ fate'[queue[1].kind][queue[1].req] = "counted"
        /\ \A k \in Kinds, r \in Requests :
              k # queue[1].kind \/ r # queue[1].req => fate'[k][r] = fate[k][r]
    BY <1>0, <1>4, ReceiveFates
  <2>3. ASSUME NEW i \in DOMAIN queue', NEW j \in DOMAIN queue',
               queue'[i].kind = "start", queue'[j].kind = "end",
               queue'[i].req = queue'[j].req
        PROVE  i < j
    <3>1. /\ i \in Int /\ j \in Int
          /\ i + 1 \in DOMAIN queue /\ j + 1 \in DOMAIN queue
          /\ queue'[i] = queue[i + 1] /\ queue'[j] = queue[j + 1]
      BY <2>1
    <3>2. i + 1 < j + 1
      BY <2>3, <3>1 DEF ChannelOrdered
    <3> QED
      BY <3>1, <3>2
  <2>4. ASSUME NEW r \in Requests, fate'["end"][r] = "counted"
        PROVE  fate'["start"][r] \in {"counted", "lost"}
    <3>1. CASE queue[1].kind = "end" /\ queue[1].req = r
      \* The "start" of r was sent before, and is not behind its "end".
      <4>1. fate["end"][r] = "queued"
        BY <2>1, <3>1 DEF ChannelFaithful
      <4>2. fate["start"][r] # "unsent"
        BY <4>1 DEF StartsAndEndsPair
      <4>3. fate["start"][r] # "queued"
        <5> SUFFICES ASSUME fate["start"][r] = "queued"
                     PROVE  FALSE
          OBVIOUS
        <5>1. PICK i \in DOMAIN queue : queue[i].kind = "start" /\ queue[i].req = r
          BY DEF ChannelFaithful, Kinds
        <5>2. 1 \in DOMAIN queue
          BY <2>1
        <5>3. i < 1
          BY <3>1, <5>1, <5>2 DEF ChannelOrdered
        <5> QED
          BY <2>1, <5>3
      <4>4. fate["start"][r] \in Fates
        BY <1>0 DEF MetricsTypeOK, Kinds
      <4>5. fate'["start"][r] = fate["start"][r]
        BY <2>2, <3>1 DEF Kinds
      <4> QED
        BY <4>2, <4>3, <4>4, <4>5 DEF Fates
    <3>2. CASE ~(queue[1].kind = "end" /\ queue[1].req = r)
      <4>1. fate["end"][r] = "counted"
        BY <2>2, <2>4, <3>2 DEF Kinds
      <4>2. fate["start"][r] \in {"counted", "lost"}
        BY <4>1 DEF ChannelOrdered
      <4> QED
        BY <2>2, <4>2 DEF Kinds
    <3> QED
      BY <3>1, <3>2
  <2> QED
    BY <2>3, <2>4 DEF ChannelOrdered
<1>5. CASE Tick
  BY <1>5 DEF Tick, ChannelOrdered
<1>6. CASE UNCHANGED vars
  BY <1>6 DEF vars, metricsVars, ChannelOrdered
<1> QED
  BY <1>1, <1>2, <1>3, <1>4, <1>5, <1>6, StepShapes DEF Next, Aggregator
-----------------------------------------------------------------------------
(* The counters.                                                           *)

LEMMA MetFinite ==
    ASSUME NEW k, NEW f
    PROVE  /\ IsFiniteSet(Met(k, f))
           /\ Cardinality(Met(k, f)) \in Nat
           /\ IsFiniteSet(Met(k, f)')
           /\ Cardinality(Met(k, f)') \in Nat
<1>1. Met(k, f) \subseteq Requests /\ Met(k, f)' \subseteq Requests
  BY DEF Met
<1>2. IsFiniteSet(Met(k, f)) /\ IsFiniteSet(Met(k, f)')
  BY <1>1, MetricsAssumption, FS_Subset
<1> QED
  BY <1>2, FS_CardinalityType

\* Emitting counts nothing.
LEMMA EmitCounts ==
    ASSUME MetricsTypeOK, CountersAddUp, NEW e \in Event, Emit(e),
           fate[e.kind][e.req] = "unsent"
    PROVE  CountersAddUp'
<1>1. e.kind \in Kinds /\ e.req \in Requests
  BY DEF Event
<1>2. /\ fate'[e.kind][e.req] \in {"queued", "lost"}
      /\ \A k \in Kinds, r \in Requests :
            k # e.kind \/ r # e.req => fate'[k][r] = fate[k][r]
  BY EmitFates
<1>3. /\ Met("start", "counted")' = Met("start", "counted")
      /\ Met("end", "counted")' = Met("end", "counted")
  BY <1>1, <1>2 DEF Met, Kinds
<1>4. counters' = counters
  BY DEF Emit
<1> QED
  BY <1>3, <1>4 DEF CountersAddUp

\* The event received was not counted before, and is counted once.
LEMMA ReceiveCounts ==
    ASSUME MetricsTypeOK, ChannelFaithful, CountersAddUp, Receive
    PROVE  CountersAddUp'
<1> DEFINE e == queue[1]
<1>1. e.kind \in Kinds /\ e.req \in Requests
  BY ReceiveFates
<1>2. /\ fate'[e.kind][e.req] = "counted"
      /\ \A k \in Kinds, r \in Requests :
            k # e.kind \/ r # e.req => fate'[k][r] = fate[k][r]
  BY ReceiveFates
<1>3. fate[e.kind][e.req] = "queued"
  BY DEF ChannelFaithful, Receive, MetricsTypeOK
<1>4. counters' = Processed(counters, e)
  <2>1. Head(queue) = e
    BY DEF Receive, MetricsTypeOK
  <2>2. counters' = Processed(counters, Head(queue))
    BY DEF Receive
  <2> QED
    BY <2>1, <2>2, Zenon
<1>5. /\ counters.total \in Nat /\ counters.success \in Nat
      /\ counters.failed \in Nat /\ counters.inFlight \in Int
  BY DEF MetricsTypeOK, Tallies
<1> HIDE DEF e
<1>6. CASE e.kind = "start"
  <2>1. /\ Met("start", "counted")' = Met("start", "counted") \cup {e.req}
        /\ e.req \notin Met("start", "counted")
        /\ Met("end", "counted")' = Met("end", "counted")
    BY <1>1, <1>2, <1>3, <1>6 DEF Met, Kinds
  <2>2. Cardinality(Met("start", "counted")') = Cardinality(Met("start", "counted")) + 1
    BY <2>1, MetFinite, FS_AddElement
  <2>3. counters' = Plus(counters, 1, 0, 0, 1)
    BY <1>4, <1>6 DEF Processed
  <2>4. /\ counters'.total = counters.total + 1
        /\ counters'.success = counters.success
        /\ counters'.failed = counters.failed
        /\ counters'.inFlight = counters.inFlight + 1
    BY <1>5, <2>3 DEF Plus
  <2> QED
    BY <1>5, <2>1, <2>2, <2>4, MetFinite DEF CountersAddUp
<1>7. CASE e.kind = "end"
  <2>1. /\ Met("end", "counted")' = Met("end", "counted") \cup {e.req}
        /\ e.req \notin Met("end", "counted")
        /\ Met("start", "counted")' = Met("start", "counted")
    BY <1>1, <1>2, <1>3, <1>7 DEF Met, Kinds
  <2>2. Cardinality(Met("end", "counted")') = Cardinality(Met("end", "counted")) + 1
    BY <2>1, MetFinite, FS_AddElement
  <2>3. counters' \in {Plus(counters, 0, 1, 0, -1), Plus(counters, 0, 0, 1, -1)}
    BY <1>4, <1>7, Zenon DEF Processed
  <2>4. /\ counters'.total = counters.total
        /\ counters'.success + counters'.failed = counters.success + counters.failed + 1
        /\ counters'.inFlight = counters.inFlight - 1
        /\ counters'.success \in Nat /\ counters'.failed \in Nat
    BY <1>5, <2>3 DEF Plus
  <2> QED
    BY <1>5, <2>1, <2>2, <2>4, MetFinite DEF CountersAddUp
<1> QED
  BY <1>1, <1>6, <1>7 DEF Kinds

LEMMA CountStep ==
    ASSUME TypeOK, StartsAndEndsPair, ChannelFaithful, CountersAddUp, [Next]_vars
    PROVE  CountersAddUp'
<1>0. MetricsTypeOK
  BY DEF TypeOK
<1>1. ASSUME NEW r \in Requests, Accept(r)
      PROVE  CountersAddUp'
  <2>1. StartOf(r) \in Event /\ StartOf(r).kind = "start" /\ StartOf(r).req = r
    BY DEF StartOf, Event, Kinds
  <2>2. fate["start"][r] = "unsent"
    BY <1>1 DEF Accept, StartsAndEndsPair
  <2> QED
    BY <1>0, <1>1, <2>1, <2>2, EmitCounts DEF Accept
<1>2. ASSUME NEW r \in Requests, Moves(r)
      PROVE  CountersAddUp'
  BY <1>2 DEF Moves, metricsVars, CountersAddUp, Met
<1>3. ASSUME NEW r \in Requests, Ends(r)
      PROVE  CountersAddUp'
  <2>1. PICK success \in BOOLEAN, seen \in Answers : Finish(r, success, seen)
    BY <1>3 DEF Ends
  <2>2. /\ EndOf(r, success) \in Event
        /\ EndOf(r, success).kind = "end" /\ EndOf(r, success).req = r
    BY DEF EndOf, Event, Kinds
  <2>3. fate["end"][r] = "unsent"
    BY <1>3 DEF Ends, Live, StartsAndEndsPair
  <2> QED
    BY <1>0, <2>1, <2>2, <2>3, EmitCounts DEF Finish
<1>4. CASE Receive
  BY <1>0, <1>4, ReceiveCounts
<1>5. CASE Tick
  BY <1>5 DEF Tick, CountersAddUp, Met
<1>6. CASE UNCHANGED vars
  BY <1>6 DEF vars, metricsVars, CountersAddUp, Met
<1> QED
  BY <1>1, <1>2, <1>3, <1>4, <1>5, <1>6, StepShapes DEF Next, Aggregator

-----------------------------------------------------------------------------
(* The theorems.                                                           *)

LEMMA InitIInv == Init => IInv
<1> SUFFICES ASSUME Init
             PROVE  IInv
  OBVIOUS
<1>1. TypeOK
  BY MetricsAssumption DEF Init, MetricsInit, TypeOK, MetricsTypeOK, Zero, Tallies,
     Kinds, Fates, Locations, Answers, NoPath, AllPaths, Protocols
<1>2. StartsAndEndsPair
  BY DEF Init, MetricsInit, StartsAndEndsPair, Live, Kinds
<1>3. ChannelFaithful /\ ChannelOrdered
  BY DEF Init, MetricsInit, ChannelFaithful, ChannelOrdered, Kinds
<1>4. CountersAddUp
  <2>1. Met("start", "counted") = {} /\ Met("end", "counted") = {}
    BY DEF Init, MetricsInit, Met, Kinds
  <2>2. Cardinality({}) = 0
    BY FS_EmptySet
  <2>3. /\ counters.total = 0 /\ counters.success = 0
        /\ counters.failed = 0 /\ counters.inFlight = 0
    BY DEF Init, MetricsInit, Zero
  <2> QED
    BY <2>1, <2>2, <2>3 DEF CountersAddUp
<1> QED
  BY <1>1, <1>2, <1>3, <1>4 DEF IInv

\* The inductive invariant holds: the channel holds exactly the queued events,
\* each once and each "start" ahead of its "end", and the counters are the sum
\* of the events received.
THEOREM Inductive == Spec => []IInv
<1>1. Init => IInv
  BY InitIInv
<1>2. TypeOK /\ TypeOK' /\ IInv /\ [Next]_vars => IInv'
  BY PairStep, ChannelStep, OrderStep, CountStep DEF IInv
<1> QED
  BY <1>1, <1>2, TypeCorrect, PTL DEF Spec

\* Whatever path a request takes, and whether its handler, its upstream or its
\* client ends it, one owner holds the duty to emit its "end" while it lives,
\* and has discharged it when it is over.
THEOREM Pairing == Spec => []StartsAndEndsPair
<1>1. IInv => StartsAndEndsPair
  BY DEF IInv
<1> QED
  BY <1>1, Inductive, PTL

\* Each event received is counted once, and nothing else is.
THEOREM Counting == Spec => []CountersAddUp
<1>1. IInv => CountersAddUp
  BY DEF IInv
<1> QED
  BY <1>1, Inductive, PTL

\* The "end"s counted are of requests whose "start" was counted or lost.
LEMMA BoundedByLoss ==
    ASSUME IInv
    PROVE  InFlightBoundedByLoss
<1> DEFINE S == Met("start", "counted")
           L == Met("start", "lost")
           E == Met("end", "counted")
<1>1. E \subseteq S \cup L
  BY DEF IInv, ChannelOrdered, Met
<1>2. /\ IsFiniteSet(S) /\ IsFiniteSet(L) /\ IsFiniteSet(E)
      /\ Cardinality(S) \in Nat /\ Cardinality(L) \in Nat /\ Cardinality(E) \in Nat
  BY MetFinite
<1>3. CountersAddUp /\ counters \in Tallies
  BY DEF IInv, TypeOK, MetricsTypeOK
<1> HIDE DEF S, L, E
<1>4. /\ IsFiniteSet(S \cup L)
      /\ Cardinality(S \cup L) = Cardinality(S) + Cardinality(L) - Cardinality(S \cap L)
  BY <1>2, FS_Union
<1>5. Cardinality(S \cap L) \in Nat
  <2>1. IsFiniteSet(S \cap L)
    BY <1>2, FS_Subset
  <2> QED
    BY <2>1, FS_CardinalityType
<1>6. Cardinality(E) <= Cardinality(S \cup L)
  BY <1>1, <1>4, FS_Subset
<1>7. Cardinality(E) <= Cardinality(S) + Cardinality(L)
  BY <1>2, <1>4, <1>5, <1>6
<1>8. /\ counters.total = Cardinality(S)
      /\ counters.success + counters.failed = Cardinality(E)
      /\ counters.inFlight = counters.total - counters.success - counters.failed
      /\ counters.success \in Nat /\ counters.failed \in Nat
  BY <1>3 DEF CountersAddUp, Tallies, S, E
<1> QED
  BY <1>2, <1>7, <1>8 DEF InFlightBoundedByLoss, L

\* The in-flight number falls below zero by at most the number of "start"s
\* that a full channel lost, for any capacity and any number of requests.
THEOREM NeverFarBelowZero == Spec => []InFlightBoundedByLoss
<1> QED
  BY BoundedByLoss, Inductive, PTL

\* When no event was ever lost and none waits, the in-flight number is exactly
\* the number of live requests.
THEOREM ExactWhenQuiet == Spec => []InFlightExact
<1>1. IInv => InFlightExact
  <2> SUFFICES ASSUME IInv, queue = <<>>, NothingLost
               PROVE  counters.inFlight = Cardinality(Live)
    BY DEF InFlightExact
  <2> DEFINE S == Met("start", "counted")
             E == Met("end", "counted")
  <2>1. \A k \in Kinds, r \in Requests : fate[k][r] \in {"unsent", "counted"}
    BY DEF IInv, TypeOK, MetricsTypeOK, ChannelFaithful, NothingLost, Met, Kinds, Fates
  <2>2. /\ S = {r \in Requests : pc[r] # "idle"}
        /\ E = {r \in Requests : pc[r] = "done"}
    BY <2>1 DEF IInv, StartsAndEndsPair, Met, Kinds
  <2>3. Live = S \ E /\ S \cap E = E
    BY <2>2 DEF Live
  <2>4. /\ IsFiniteSet(S) /\ IsFiniteSet(E)
        /\ Cardinality(S) \in Nat /\ Cardinality(E) \in Nat
    BY MetFinite
  <2>5. CountersAddUp /\ counters \in Tallies
    BY DEF IInv, TypeOK, MetricsTypeOK
  <2>6. /\ counters.total = Cardinality(S)
        /\ counters.success + counters.failed = Cardinality(E)
        /\ counters.inFlight = counters.total - counters.success - counters.failed
        /\ counters.success \in Nat /\ counters.failed \in Nat
    BY <2>5 DEF CountersAddUp, Tallies
  <2> HIDE DEF S, E
  <2>7. Cardinality(S \ E) = Cardinality(S) - Cardinality(S \cap E)
    BY <2>4, FS_Difference
  <2>8. Cardinality(Live) = Cardinality(S) - Cardinality(E)
    BY <2>3, <2>7, Zenon
  <2> QED
    BY <2>4, <2>6, <2>8
<1> QED
  BY <1>1, Inductive, PTL

-----------------------------------------------------------------------------
(* What the dashboard shows.                                               *)

\* A "start" that was lost stays lost.
LEMMA LossesStay ==
    ASSUME IInv, [Next]_vars
    PROVE  Met("start", "lost") \subseteq Met("start", "lost")'
<1>0. MetricsTypeOK /\ StartsAndEndsPair /\ ChannelFaithful
  BY DEF IInv, TypeOK
<1>1. ASSUME NEW e \in Event, Emit(e), fate[e.kind][e.req] = "unsent"
      PROVE  Met("start", "lost") \subseteq Met("start", "lost")'
  BY <1>0, <1>1, EmitFates DEF Met, Kinds
<1>2. ASSUME NEW r \in Requests, Accept(r)
      PROVE  Met("start", "lost") \subseteq Met("start", "lost")'
  <2>1. StartOf(r) \in Event /\ StartOf(r).kind = "start" /\ StartOf(r).req = r
    BY DEF StartOf, Event, Kinds
  <2>2. fate["start"][r] = "unsent"
    BY <1>0, <1>2 DEF Accept, StartsAndEndsPair
  <2> QED
    BY <1>1, <1>2, <2>1, <2>2 DEF Accept
<1>3. ASSUME NEW r \in Requests, Moves(r)
      PROVE  Met("start", "lost") \subseteq Met("start", "lost")'
  BY <1>3 DEF Moves, metricsVars, Met
<1>4. ASSUME NEW r \in Requests, Ends(r)
      PROVE  Met("start", "lost") \subseteq Met("start", "lost")'
  <2>1. PICK success \in BOOLEAN, seen \in Answers : Finish(r, success, seen)
    BY <1>4 DEF Ends
  <2>2. /\ EndOf(r, success) \in Event
        /\ EndOf(r, success).kind = "end" /\ EndOf(r, success).req = r
    BY DEF EndOf, Event, Kinds
  <2>3. fate["end"][r] = "unsent"
    BY <1>0, <1>4 DEF Ends, Live, StartsAndEndsPair
  <2> QED
    BY <1>1, <2>1, <2>2, <2>3 DEF Finish
<1>5. CASE Receive
  <2>1. fate[queue[1].kind][queue[1].req] = "queued"
    BY <1>0, <1>5 DEF ChannelFaithful, Receive, MetricsTypeOK
  <2> QED
    BY <1>0, <1>5, <2>1, ReceiveFates DEF Met, Kinds
<1>6. CASE Tick
  BY <1>6 DEF Tick, Met
<1>7. CASE UNCHANGED vars
  BY <1>7 DEF vars, metricsVars, Met
<1> QED
  BY <1>0, <1>2, <1>3, <1>4, <1>5, <1>6, <1>7, StepShapes
  DEF Next, Aggregator, IInv

\* Only the timer changes the snapshot.
LEMMA SnapshotSteps ==
    ASSUME IInv, [Next]_vars
    PROVE  snapshot' = snapshot \/ snapshot' = Published(counters)
<1>1. \A e : Emit(e) => snapshot' = snapshot
  BY DEF Emit
<1> QED
  BY <1>1, StepShapes DEF Next, Aggregator, IInv, Accept, Moves, Ends, Finish,
     Receive, Tick, vars, metricsVars

\* At every moment the dashboard shows a number of requests in flight that is
\* not negative, and no more outcomes than requests, but for lost "start"s.
THEOREM Plausible == Spec => []SnapshotPlausible
<1>1. Init => SnapshotPlausible
  <2>1. Cardinality(Met("start", "lost")) \in Nat
    BY MetFinite
  <2> QED
    BY <2>1 DEF Init, MetricsInit, Zero, SnapshotPlausible
<1>2. IInv /\ SnapshotPlausible /\ [Next]_vars => SnapshotPlausible'
  <2> SUFFICES ASSUME IInv, SnapshotPlausible, [Next]_vars
               PROVE  SnapshotPlausible'
    OBVIOUS
  <2> DEFINE lost == Cardinality(Met("start", "lost"))
  <2>1. /\ lost \in Nat /\ lost' \in Nat /\ lost <= lost'
    BY LossesStay, MetFinite, FS_Subset
  <2>2. snapshot \in Tallies /\ counters \in Tallies
    BY DEF IInv, TypeOK, MetricsTypeOK
  <2>3. /\ snapshot.inFlight >= 0
        /\ snapshot.success + snapshot.failed <= snapshot.total + lost
    BY DEF SnapshotPlausible
  <2>4. /\ counters.inFlight >= - lost
        /\ counters.inFlight = counters.total - counters.success - counters.failed
    BY BoundedByLoss DEF InFlightBoundedByLoss, IInv, CountersAddUp
  <2> HIDE DEF lost
  <2>5. /\ Published(counters).inFlight >= 0
        /\ Published(counters).success + Published(counters).failed
              <= Published(counters).total + lost
    BY <2>1, <2>2, <2>4 DEF Published, Plus, Tallies
  <2>6. /\ snapshot'.inFlight >= 0
        /\ snapshot'.success + snapshot'.failed <= snapshot'.total + lost
    BY <2>3, <2>5, SnapshotSteps
  <2>7. snapshot'.success + snapshot'.failed <= snapshot'.total + lost'
    <3>1. Published(counters) \in Tallies
      BY <2>2 DEF Published, Plus, Tallies
    <3>2. snapshot' \in Tallies
      BY <2>2, <3>1, SnapshotSteps
    <3> QED
      BY <2>1, <2>6, <3>2 DEF Tallies
  <2> QED
    BY <2>6, <2>7 DEF SnapshotPlausible, lost
<1> QED
  BY <1>1, <1>2, Inductive, PTL DEF Spec

-----------------------------------------------------------------------------
(* What the "end"s say.                                                    *)

\* On the careful paths a tracker is held only with an open stream, and its
\* flag tells whether the stream has broken.
CarefulInv ==
    \A r \in Requests :
        path[r] \in CarefulPaths =>
            /\ pc[r] \in {"idle", "dispatch", "upstream"} => answer[r] = "none"
            /\ pc[r] = "upstream" => holder[r] = "guard"
            /\ pc[r] = "dispatch" => holder[r] = "guard"
            /\ pc[r] = "streaming" =>
                /\ holder[r] = "tracker"
                /\ \/ flag[r] /\ answer[r] = "none"
                   \/ ~flag[r] /\ answer[r] = "partial"
            /\ answer[r] # "cut" => VerdictTells(r)

\* Until a request is accepted nobody has been answered.
Unanswered == \A r \in Requests : pc[r] = "idle" => answer[r] = "none"

LEMMA CarefulSteps ==
    ASSUME TypeOK, Unanswered, CarefulInv, [Next]_vars
    PROVE  Unanswered' /\ CarefulInv'
<1> USE DEF TypeOK, Unanswered, CarefulInv, VerdictTells
<1>1. ASSUME NEW r \in Requests, Accept(r) PROVE Unanswered' /\ CarefulInv'
  BY <1>1 DEF Accept
<1>2. ASSUME NEW r \in Requests, Refuse(r) PROVE Unanswered' /\ CarefulInv'
  BY <1>2 DEF Refuse, Finish
<1>3. ASSUME NEW r \in Requests, CallUpstream(r) PROVE Unanswered' /\ CarefulInv'
  BY <1>3 DEF CallUpstream, TakesTrackerEarly, CarefulPaths, AllPaths, Protocols
<1>4. ASSUME NEW r \in Requests, UpstreamFails(r) PROVE Unanswered' /\ CarefulInv'
  BY <1>4 DEF UpstreamFails, Finish, DropReports
<1>5. ASSUME NEW r \in Requests, UpstreamAnswers(r) PROVE Unanswered' /\ CarefulInv'
  <2>1. path[r] \in CarefulPaths => ~ReportsBeforeConverting(path[r])
    BY DEF ReportsBeforeConverting, CarefulPaths, AllPaths, Protocols
  <2>2. CASE Finish(r, TRUE, "ok")
    BY <2>2 DEF Finish
  <2>3. ASSUME NEW b \in BOOLEAN, Finish(r, b, "error"),
               path[r] \in CarefulPaths => ~b
        PROVE  Unanswered' /\ CarefulInv'
    BY <2>3 DEF Finish
  <2>4. ReportsBeforeConverting(path[r]) \in BOOLEAN
    BY DEF ReportsBeforeConverting
  <2> QED
    BY <1>5, <2>1, <2>2, <2>3, <2>4 DEF UpstreamAnswers
<1>6. ASSUME NEW r \in Requests, UpstreamOpensStream(r) PROVE Unanswered' /\ CarefulInv'
  BY <1>6 DEF UpstreamOpensStream
<1>7. ASSUME NEW r \in Requests, StreamBreaks(r) PROVE Unanswered' /\ CarefulInv'
  BY <1>7 DEF StreamBreaks
<1>8. ASSUME NEW r \in Requests, StreamEnds(r) PROVE Unanswered' /\ CarefulInv'
  BY <1>8 DEF StreamEnds, Finish, DropReports
<1>9. ASSUME NEW r \in Requests, StreamStops(r) PROVE Unanswered' /\ CarefulInv'
  BY <1>9 DEF StreamStops, Finish, DropReports
<1>10. ASSUME NEW r \in Requests, ClientLeaves(r) PROVE Unanswered' /\ CarefulInv'
  BY <1>10 DEF ClientLeaves, Finish
<1>11. CASE Aggregator
  BY <1>11 DEF Aggregator, requestVars
<1>12. CASE UNCHANGED vars
  BY <1>12 DEF vars, requestVars
<1> QED
  BY <1>1, <1>2, <1>3, <1>4, <1>5, <1>6, <1>7, <1>8, <1>9, <1>10, <1>11, <1>12
  DEF Next, Handler

\* On the careful paths the "end" of a request says what its client was told;
\* only a stream that stopped short without a word is counted for what it is
\* not.
THEOREM VerdictsRight == Spec => []CarefulVerdicts
<1>1. Init => Unanswered /\ CarefulInv
  BY DEF Init, Unanswered, CarefulInv, VerdictTells
<1>2. CarefulInv => CarefulVerdicts
  BY DEF CarefulInv, CarefulVerdicts
<1>3. TypeOK /\ (Unanswered /\ CarefulInv) /\ [Next]_vars
        => (Unanswered /\ CarefulInv)'
  BY CarefulSteps
<1> QED
  BY <1>1, <1>2, <1>3, TypeCorrect, PTL DEF Spec
=============================================================================
