--------------------------- MODULE RoutingProofs ---------------------------
(***************************************************************************)
(* Proofs about Routing, for any requests, models, providers and           *)
(* configurations.  The first part is about the lookups alone; the second  *)
(* about requests, with the router exchanged under them.                   *)
(***************************************************************************)
EXTENDS Routing, TLAPS

-----------------------------------------------------------------------------
(* The lookups.                                                            *)

\* The route for n exists and has a provider.
Found(c, n) ==
    /\ Stripped[n] \in DOMAIN c.routes
    /\ c.routes[Stripped[n]].ids # <<>>

\* What is known of the configurations.
LEMMA RoutesTyped ==
    ASSUME NEW c \in Configs, NEW m \in DOMAIN c.routes
    PROVE  c.routes[m].ids \in Seq(Providers)
BY RoutingAssumption DEF AppConfig, RouteConfig

LEMMA ProvidersTyped ==
    ASSUME NEW c \in Configs
    PROVE  DOMAIN c.providers \subseteq Providers
<1>1. c.providers \in MapOf(Providers, Keys \cup {NoKey})
  BY RoutingAssumption DEF AppConfig
<1>2. PICK D \in SUBSET Providers : c.providers \in [D -> Keys \cup {NoKey}]
  BY <1>1 DEF MapOf
<1> QED
  BY <1>2

LEMMA FirstInRange ==
    ASSUME NEW S, NEW s \in Seq(S), s # <<>>
    PROVE  s[1] \in Range(s)
<1>1. 1 \in DOMAIN s
  OBVIOUS
<1> QED
  BY <1>1 DEF Range

\* resolve finds the first provider of the route, if it finds one.
LEMMA ResolveFound ==
    ASSUME NEW c \in Configs, NEW n \in Models
    PROVE  /\ Found(c, n) => Resolve(c, n) = FirstChoice(c, n).provider
           /\ ~Found(c, n) => Resolve(c, n) = "unknown"
<1>1. CASE Stripped[n] \in DOMAIN c.routes
  <2> DEFINE e == c.routes[Stripped[n]]
  <2>1. RouteOf(c, n) = {e}
    BY <1>1 DEF RouteOf
  <2>2. e.ids \in Seq(Providers)
    BY <1>1, RoutesTyped
  <2>3. Found(c, n) <=> e.ids # <<>>
    BY <1>1 DEF Found
  <2>4. FirstChoice(c, n).provider = e.ids[1]
    BY DEF FirstChoice
  <2> HIDE DEF e
  <2>5. CASE e.ids # <<>>
    <3>1. Resolve(c, n) = Head(e.ids)
      BY <2>1, <2>5 DEF Resolve
    <3>2. Head(e.ids) = e.ids[1]
      BY <2>2, <2>5
    <3> QED
      BY <2>3, <2>4, <2>5, <3>1, <3>2
  <2>6. CASE e.ids = <<>>
    BY <2>1, <2>3, <2>6 DEF Resolve
  <2> QED
    BY <2>5, <2>6
<1>2. CASE Stripped[n] \notin DOMAIN c.routes
  <2>1. RouteOf(c, n) = {}
    BY <1>2 DEF RouteOf
  <2> QED
    BY <1>2, <2>1 DEF Resolve, Found
<1> QED
  BY <1>1, <1>2

\* What it finds is a provider's name, or "unknown".
LEMMA ResolveTyped ==
    ASSUME NEW c \in Configs, NEW n \in Models
    PROVE  Resolve(c, n) \in Providers \cup {"unknown"}
<1>1. CASE Found(c, n)
  <2>1. Resolve(c, n) = c.routes[Stripped[n]].ids[1]
    BY <1>1, ResolveFound DEF FirstChoice
  <2>2. c.routes[Stripped[n]].ids \in Seq(Providers) /\ c.routes[Stripped[n]].ids # <<>>
    BY <1>1, RoutesTyped DEF Found
  <2> QED
    BY <2>1, <2>2
<1> QED
  BY <1>1, ResolveFound

\* The override is that of the route for its first provider.
LEMMA OverrideFound ==
    ASSUME NEW c \in Configs, NEW n \in Models, Found(c, n)
    PROVE  UpstreamModel(c, n) = FirstChoice(c, n).model
<1> DEFINE e == c.routes[Stripped[n]]
           p == e.ids[1]
<1>1. RouteOf(c, n) = {e}
  BY DEF RouteOf, Found
<1>2. Resolve(c, n) = p
  BY ResolveFound DEF FirstChoice
<1>3. FirstChoice(c, n).model = IF p \in DOMAIN e.up THEN e.up[p] ELSE Stripped[n]
  BY DEF FirstChoice
<1> HIDE DEF e, p
<1>4. CASE p \in DOMAIN e.up
  <2>1. Overrides(c, n) = {e.up[p]}
    BY <1>1, <1>2, <1>4 DEF Overrides
  <2> QED
    BY <1>3, <1>4, <2>1 DEF UpstreamModel
<1>5. CASE p \notin DOMAIN e.up
  <2>1. Overrides(c, n) = {}
    BY <1>1, <1>2, <1>5 DEF Overrides
  <2> QED
    BY <1>3, <1>5, <2>1 DEF UpstreamModel
<1> QED
  BY <1>4, <1>5

\* Both ways to send a request send it as the route means, if at all, and do
\* send it if the provider is there.
LEMMA WaysAgree ==
    ASSUME NEW c \in Configs, NEW n \in Models,
           Stripped[Stripped[n]] = Stripped[n],
           NEW t \in {ForwardTarget(c, n), ChatTarget(c, n)}
    PROVE  /\ t # Nowhere => Found(c, n) /\ t = FirstChoice(c, n)
           /\ Found(c, n) /\ FirstChoice(c, n).provider \in DOMAIN c.providers
                => t # Nowhere
<1>1. Resolve(c, Stripped[n]) = Resolve(c, n)
  BY DEF Resolve, RouteOf
<1>2. t = IF Resolve(c, n) \in DOMAIN c.providers
          THEN [provider |-> Resolve(c, n), model |-> UpstreamModel(c, n)]
          ELSE Nowhere
  BY <1>1 DEF ForwardTarget, ChatTarget
<1>3. "unknown" \notin DOMAIN c.providers
  BY ProvidersTyped, RoutingAssumption
<1>4. CASE Found(c, n)
  <2>1. FirstChoice(c, n) = [provider |-> Resolve(c, n), model |-> UpstreamModel(c, n)]
    BY <1>4, ResolveFound, OverrideFound DEF FirstChoice
  <2>2. FirstChoice(c, n).provider = Resolve(c, n)
    BY <2>1
  <2>3. Resolve(c, n) \in DOMAIN c.providers => t.provider # "unknown"
    BY <1>2, <1>3
  <2>4. Nowhere.provider = "unknown"
    BY DEF Nowhere
  <2> QED
    BY <1>2, <1>4, <2>1, <2>2, <2>3, <2>4
<1>5. CASE ~Found(c, n)
  BY <1>2, <1>3, <1>5, ResolveFound
<1> QED
  BY <1>4, <1>5

\* A request that meets neither flaw takes one of the two ways.
LEMMA OneOfTwoWays ==
    ASSUME NEW c, NEW q \in Query,
           q.protocol = "Responses" /\ ~SpokenBy(c, q) => Overrides(c, q.model) = {}
    PROVE  TargetOf(c, q) \in {ForwardTarget(c, q.model), ChatTarget(c, q.model)}
BY DEF TargetOf, ResponsesTarget

-----------------------------------------------------------------------------
(* Requests.                                                               *)

\* What is known of a request at each stage: whatever the router has become,
\* its label and its target are those of the router it arrived at.
RoutingInv ==
    /\ served \in Configs
    /\ stage \in [Requests -> {"new", "arrived", "sent", "refused", "failed", "answered"}]
    /\ query \in [Requests -> Query]
    /\ snapshot \in [Requests -> Configs]
    /\ label = [r \in Requests |-> label[r]]
    /\ sent = [r \in Requests |-> sent[r]]
    /\ \A r \in Requests :
        /\ stage[r] \in {"new", "arrived"} => sent[r] = Nowhere
        /\ stage[r] = "new" => label[r] = "unknown"
        /\ stage[r] # "new" =>
            label[r] = Resolve(snapshot[r], Stripped[query[r].model])
        /\ stage[r] \notin {"new", "arrived"} =>
            sent[r] = TargetOf(snapshot[r], query[r])
        /\ stage[r] = "refused" => sent[r] = Nowhere

LEMMA RoutingInit == Init => RoutingInv
BY DEF Init, RoutingInv

LEMMA RoutingSteps == RoutingInv /\ [Next]_vars => RoutingInv'
<1> SUFFICES ASSUME RoutingInv, [Next]_vars PROVE RoutingInv'
  OBVIOUS
<1> USE DEF RoutingInv
<1>1. ASSUME NEW r \in Requests, Arrive(r) PROVE RoutingInv'
  BY <1>1 DEF Arrive
<1>2. ASSUME NEW r \in Requests, Dispatch(r) PROVE RoutingInv'
  BY <1>2 DEF Dispatch
<1>3. ASSUME NEW r \in Requests, Return(r) PROVE RoutingInv'
  BY <1>3 DEF Return
<1>4. CASE Exchange
  BY <1>4 DEF Exchange
<1>5. CASE UNCHANGED vars
  BY <1>5 DEF vars
<1> QED
  BY <1>1, <1>2, <1>3, <1>4, <1>5 DEF Next

LEMMA RoutingInvariant == Spec => []RoutingInv
BY RoutingInit, RoutingSteps, PTL DEF Spec

\* What each way of a request comes to is a target or none.
LEMMA TargetTyped ==
    ASSUME NEW c \in Configs, NEW q \in Query
    PROVE  TargetOf(c, q) \in Target \cup {Nowhere}
<1>1. ASSUME NEW n \in Models PROVE UpstreamModel(c, n) \in Models
  <2>1. Stripped[n] \in Models
    BY RoutingAssumption
  <2>2. ASSUME NEW u \in Overrides(c, n) PROVE u \in Models
    <3>1. PICK m \in DOMAIN c.routes : \E x \in DOMAIN c.routes[m].up : u = c.routes[m].up[x]
      BY <2>2 DEF Overrides, RouteOf
    <3>2. c.routes[m].up \in MapOf(Providers, Upstreams)
      BY RoutingAssumption DEF AppConfig, RouteConfig
    <3>3. PICK D \in SUBSET Providers : c.routes[m].up \in [D -> Upstreams]
      BY <3>2 DEF MapOf
    <3> QED
      BY <3>1, <3>3, RoutingAssumption
  <2> QED
    BY <2>1, <2>2 DEF UpstreamModel
<1>2. ASSUME NEW n \in Models PROVE ForwardTarget(c, n) \in Target \cup {Nowhere}
  BY <1>1, ProvidersTyped DEF ForwardTarget, Target
<1>3. ASSUME NEW n \in Models PROVE ChatTarget(c, n) \in Target \cup {Nowhere}
  BY <1>1, ProvidersTyped DEF ChatTarget, Target
<1>4. q.model \in Models
  BY DEF Query
<1>5. ResponsesTarget(c, q.model) \in Target \cup {Nowhere}
  BY <1>1, <1>3, <1>4 DEF ResponsesTarget
<1> QED
  BY <1>2, <1>3, <1>4, <1>5 DEF TargetOf

\* The types are right: what resolve and the overrides yield is a provider and
\* a model the gateway knows, or "unknown", which stands for none.
THEOREM TypeCorrect == Spec => []TypeOK
<1>1. ASSUME RoutingInv PROVE TypeOK
  <2>1. ASSUME NEW r \in Requests PROVE label[r] \in Providers \cup {"unknown"}
    <3>1. /\ snapshot[r] \in Configs
          /\ Stripped[query[r].model] \in Models
      BY <1>1, RoutingAssumption DEF RoutingInv, Query
    <3>2. label[r] \in {"unknown", Resolve(snapshot[r], Stripped[query[r].model])}
      BY <1>1 DEF RoutingInv
    <3> QED
      BY <3>1, <3>2, ResolveTyped
  <2>2. ASSUME NEW r \in Requests PROVE sent[r] \in Target \cup {Nowhere}
    BY <1>1, TargetTyped DEF RoutingInv
  <2> QED
    BY <1>1, <2>1, <2>2 DEF RoutingInv, TypeOK
<1> QED
  BY <1>1, RoutingInvariant, PTL

\* The lemmas on the lookups, said of a request that was dispatched.
LEMMA Dispatched ==
    ASSUME RoutingInv, NEW r \in Requests, ~Misled(r),
           stage[r] \notin {"new", "arrived"}
    PROVE  LET c == snapshot[r]
               n == query[r].model
           IN  /\ c \in Configs /\ n \in Models
               /\ Stripped[Stripped[n]] = Stripped[n]
               /\ sent[r] # Nowhere => Found(c, n) /\ sent[r] = FirstChoice(c, n)
               /\ Found(c, n) /\ FirstChoice(c, n).provider \in DOMAIN c.providers
                    => sent[r] # Nowhere
<1> DEFINE c == snapshot[r]
           n == query[r].model
<1>1. c \in Configs /\ query[r] \in Query /\ n \in Models
  BY DEF RoutingInv, Query
<1>2. Stripped[Stripped[n]] = Stripped[n]
  BY DEF Misled, Doubled
<1>3. sent[r] = TargetOf(c, query[r])
  BY DEF RoutingInv
<1>4. sent[r] \in {ForwardTarget(c, n), ChatTarget(c, n)}
  BY <1>1, <1>3, OneOfTwoWays DEF Misled, Rerouted
<1> QED
  BY <1>1, <1>2, <1>4, WaysAgree

\* Every request but the misled is sent by the routes of the router it arrived
\* at, to the provider and with the model they say.
THEOREM FirstChosen == Spec => []AllButMisledSentToFirst
<1>1. ASSUME RoutingInv PROVE AllButMisledSentToFirst
  <2> SUFFICES ASSUME NEW r \in Requests, ~Misled(r), sent[r] # Nowhere
               PROVE  HasRoute(r) /\ sent[r] = FirstChoice(snapshot[r], query[r].model)
    BY DEF AllButMisledSentToFirst, SentToFirst
  <2>1. stage[r] \notin {"new", "arrived"}
    BY <1>1 DEF RoutingInv
  <2> QED
    BY <1>1, <2>1, Dispatched DEF HasRoute, Found
<1> QED
  BY <1>1, RoutingInvariant, PTL

\* The metrics name the provider the request was sent to.
THEOREM LabelRight == Spec => []LabelTellsProvider
<1>1. ASSUME RoutingInv PROVE LabelTellsProvider
  <2> SUFFICES ASSUME NEW r \in Requests, ~Misled(r), sent[r] # Nowhere
               PROVE  label[r] = sent[r].provider
    BY DEF LabelTellsProvider
  <2> DEFINE c == snapshot[r]
             n == query[r].model
  <2>1. stage[r] \notin {"new", "arrived"}
    BY <1>1 DEF RoutingInv
  <2>2. /\ c \in Configs /\ n \in Models
        /\ Stripped[Stripped[n]] = Stripped[n]
        /\ Found(c, n) /\ sent[r] = FirstChoice(c, n)
    BY <1>1, <2>1, Dispatched
  <2>3. label[r] = Resolve(c, Stripped[n])
    BY <1>1, <2>1 DEF RoutingInv
  <2>4. Resolve(c, Stripped[n]) = Resolve(c, n)
    BY <2>2 DEF Resolve, RouteOf
  <2>5. Resolve(c, n) = FirstChoice(c, n).provider
    BY <2>2, ResolveFound
  <2> QED
    BY <2>2, <2>3, <2>4, <2>5
<1> QED
  BY <1>1, RoutingInvariant, PTL

\* With closed routes, a request for a model that has a route is not refused.
THEOREM NotRefused == Spec => []RoutedIsSent
<1>1. ASSUME RoutingInv PROVE RoutedIsSent
  <2> SUFFICES ASSUME NEW r \in Requests, stage[r] = "refused", ~Misled(r),
                      HasRoute(r), Closed(snapshot[r])
               PROVE  FALSE
    BY DEF RoutedIsSent
  <2> DEFINE c == snapshot[r]
             n == query[r].model
             e == c.routes[Stripped[n]]
  <2>1. c \in Configs /\ n \in Models
    BY <1>1, Dispatched
  <2>2. e.ids # <<>> /\ Range(e.ids) \subseteq DOMAIN c.providers
    BY DEF Closed, HasRoute
  <2>3. e.ids \in Seq(Providers)
    BY <2>1, RoutesTyped DEF HasRoute
  <2>4. e.ids[1] \in Range(e.ids)
    BY <2>2, <2>3, FirstInRange
  <2>5. Found(c, n)
    BY <2>2 DEF Found, HasRoute
  <2>6. FirstChoice(c, n).provider = e.ids[1]
    BY DEF FirstChoice
  <2>7. sent[r] # Nowhere
    <3>1. e.ids[1] \in DOMAIN c.providers
      BY <2>2, <2>4
    <3>2. FirstChoice(c, n).provider \in DOMAIN c.providers
      BY <2>6, <3>1
    <3> QED
      BY <1>1, <2>5, <3>2, Dispatched
  <2> QED
    BY <1>1, <2>7 DEF RoutingInv
<1> QED
  BY <1>1, RoutingInvariant, PTL
=============================================================================
