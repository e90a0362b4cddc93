------------------------------ MODULE Routing ------------------------------
(***************************************************************************)
(* How a request finds its provider: the router (src/src/router/mod.rs),   *)
(* the endpoint handlers that take a snapshot of it (src/src/server.rs),   *)
(* and the protocol handlers that resolve the request's model against that *)
(* snapshot (src/src/protocol/mod.rs), while the control plane exchanges   *)
(* the router under them.                                                  *)
(*                                                                         *)
(* What the control plane may store is a parameter here (ControlPlane says *)
(* what it does store).  A model name may carry the suffix "[1m]", which   *)
(* the gateway strips, once at each lookup; Stripped says what each name   *)
(* is without it.                                                          *)
(*                                                                         *)
(* Abstracted: bodies but for their model; the client that leaves, and the *)
(* metrics' end of the matter (RequestLifecycle).                          *)
(***************************************************************************)
EXTENDS Config

CONSTANTS
    Requests,   \* requests
    Configs,    \* the configurations the router may be built from
    Stripped,   \* normalize_model_name, as a function on Models
    Native      \* for a protocol, the providers that speak it themselves

ASSUME RoutingAssumption ==
    /\ \A c \in Configs : AppConfig(c)
    /\ Stripped \in [Models -> Models]
    /\ Upstreams \subseteq Models
    /\ Native \in [{"Anthropic", "Responses"} -> SUBSET Providers]
    /\ "unknown" \notin Providers  \* it stands for no provider

\* What a request asks for.
Query ==
    [protocol : {"OpenAI", "Anthropic", "Responses"}, stream : BOOLEAN,
     model : Models]

Target == [provider : Providers, model : Models]

Nowhere == [provider |-> "unknown", model |-> "unknown"]

VARIABLES
    served,     \* the RouterStore
    stage,      \* where a request is
    query,      \* what it asks for
    snapshot,   \* the router it took when it arrived
    label,      \* the provider its metrics are recorded under
    sent        \* the provider it is sent to, and the model it asks of it

vars == <<served, stage, query, snapshot, label, sent>>

TypeOK ==
    /\ served \in Configs
    /\ stage \in [Requests -> {"new", "arrived", "sent", "refused", "failed", "answered"}]
    /\ query \in [Requests -> Query]
    /\ snapshot \in [Requests -> Configs]
    /\ label \in [Requests -> Providers \cup {"unknown"}]
    /\ sent \in [Requests -> Target \cup {Nowhere}]

-----------------------------------------------------------------------------
(* The router.                                                             *)

\* Variant of RouteOf that forgets to strip the suffix.
RouteOf_AsGiven(c, n) ==
    {c.routes[m] : m \in {n} \cap DOMAIN c.routes}

\* The entry for a model, if there is one: a set of at most one route.
RouteOf(c, n) ==
    {c.routes[m] : m \in {Stripped[n]} \cap DOMAIN c.routes}

\* resolve: the name of the first provider, which need not exist.
Resolve(c, n) ==
    IF \E e \in RouteOf(c, n) : e.ids # <<>>
    THEN LET e == CHOOSE x \in RouteOf(c, n) : TRUE IN Head(e.ids)
    ELSE "unknown"

\* Variant of Overrides that takes the override of any provider of the route.
Overrides_OfAny(c, n) ==
    UNION {{e.up[x] : x \in DOMAIN e.up} : e \in RouteOf(c, n)}

\* resolve_upstream_model: at most one model.
Overrides(c, n) ==
    UNION {{e.up[x] : x \in {Resolve(c, n)} \cap DOMAIN e.up} : e \in RouteOf(c, n)}

\* The model to ask for: the override, or the name without its suffix.
UpstreamModel(c, n) ==
    IF Overrides(c, n) = {}
    THEN Stripped[n]
    ELSE CHOOSE u \in Overrides(c, n) : TRUE

-----------------------------------------------------------------------------
(* The protocol handlers.                                                  *)

\* Variant of ForwardTarget that trusts resolve.
ForwardTarget_Unchecked(c, n) ==
    [provider |-> Resolve(c, n), model |-> UpstreamModel(c, n)]

\* The handlers that send the body on (OpenAI without streaming; Anthropic
\* and Responses to a provider that speaks them): resolve, get_provider, and
\* the model in the body patched.
ForwardTarget(c, n) ==
    IF Resolve(c, n) \in DOMAIN c.providers
    THEN [provider |-> Resolve(c, n), model |-> UpstreamModel(c, n)]
    ELSE Nowhere

\* RealRouter::chat_stream: the override by the route for n, the provider by
\* get_provider_for_model, which strips the name once more.
ChatTarget(c, n) ==
    LET p == Resolve(c, Stripped[n])
    IN  IF p \in DOMAIN c.providers
        THEN [provider |-> p, model |-> UpstreamModel(c, n)]
        ELSE Nowhere

\* responses_handler_impl puts the override into the request and then calls
\* chat_stream, which looks up the override's name.
ResponsesTarget(c, n) ==
    ChatTarget(c, IF Overrides(c, n) = {} THEN n ELSE UpstreamModel(c, n))

SpokenBy(c, q) ==
    /\ q.protocol \in DOMAIN Native
    /\ Resolve(c, q.model) \in Native[q.protocol]

\* Where a request goes.  All handlers but that of an OpenAI stream look for
\* the provider before anything else.
TargetOf(c, q) ==
    IF q.protocol = "OpenAI" /\ q.stream
    THEN ChatTarget(c, q.model)
    ELSE IF \/ q.protocol = "OpenAI"
            \/ SpokenBy(c, q)
            \/ ForwardTarget(c, q.model) = Nowhere
         THEN ForwardTarget(c, q.model)
         ELSE IF q.protocol = "Responses"
              THEN ResponsesTarget(c, q.model)
              ELSE ChatTarget(c, q.model)

-----------------------------------------------------------------------------

Init ==
    /\ served \in Configs
    /\ stage = [r \in Requests |-> "new"]
    /\ query \in [Requests -> Query]
    /\ snapshot = [r \in Requests |-> served]
    /\ label = [r \in Requests |-> "unknown"]
    /\ sent = [r \in Requests |-> Nowhere]

\* The control plane stores another router.
Exchange ==
    /\ served' \in Configs
    /\ UNCHANGED <<stage, query, snapshot, label, sent>>

\* An endpoint handler: load_full, and the label from resolve, to which it
\* gives the name without its suffix.
Arrive(r) ==
    /\ stage[r] = "new"
    /\ snapshot' = [snapshot EXCEPT ![r] = served]
    /\ label' = [label EXCEPT ![r] = Resolve(served, Stripped[query[r].model])]
    /\ stage' = [stage EXCEPT ![r] = "arrived"]
    /\ UNCHANGED <<served, query, sent>>

\* Variant of Dispatch that looks at the router of the moment.
Dispatch_Reloads(r) ==
    /\ stage[r] = "arrived"
    /\ sent' = [sent EXCEPT ![r] = TargetOf(served, query[r])]
    /\ stage' = [stage EXCEPT ![r] = IF sent'[r] = Nowhere THEN "refused" ELSE "sent"]
    /\ UNCHANGED <<served, query, snapshot, label>>

\* dispatch_request, up to the call to the provider.
Dispatch(r) ==
    /\ stage[r] = "arrived"
    /\ sent' = [sent EXCEPT ![r] = TargetOf(snapshot[r], query[r])]
    /\ stage' = [stage EXCEPT ![r] = IF sent'[r] = Nowhere THEN "refused" ELSE "sent"]
    /\ UNCHANGED <<served, query, snapshot, label>>

\* The provider answers, or fails: then the error is the client's answer, and no
\* other provider of the route is tried.
Return(r) ==
    /\ stage[r] = "sent"
    /\ stage' \in {[stage EXCEPT ![r] = s] : s \in {"answered", "failed"}}
    /\ UNCHANGED <<served, query, snapshot, label, sent>>

Next ==
    \/ \E r \in Requests : Arrive(r) \/ Dispatch(r) \/ Return(r)
    \/ Exchange

Spec == Init /\ [][Next]_vars
-----------------------------------------------------------------------------
(* Properties.                                                             *)

\* The first provider of the route for model n, and the model that the route maps
\* n to for that provider.
FirstChoice(c, n) ==
    LET route == c.routes[Stripped[n]]
        p == route.ids[1]
    IN  [provider |-> p,
         model |-> IF p \in DOMAIN route.up THEN route.up[p] ELSE Stripped[n]]

HasRoute(r) == Stripped[query[r].model] \in DOMAIN snapshot[r].routes

\* A request that was sent went to the first choice of the routes the server had
\* when it arrived.  "If the primary provider fails, FustAPI falls through to the
\* next provider in the list" (user-manual.md:166; also design.md:298, CHANGELOG:133
\* and the first line of router/mod.rs): the code does not.  It looks for no
\* provider but the first, whose failure is the client's answer.
SentToFirst(r) ==
    sent[r] # Nowhere =>
        HasRoute(r) /\ sent[r] = FirstChoice(snapshot[r], query[r].model)

\* A Responses request whose model has an override, for a provider that is not
\* native: the override is looked up again, as if it were the client's model.
Rerouted(r) ==
    LET c == snapshot[r]
        n == query[r].model
    IN  /\ query[r].protocol = "Responses"
        /\ ~SpokenBy(c, query[r])
        /\ Overrides(c, n) # {}

\* A request whose model carries the suffix twice: some lookups strip it once
\* and others twice.
Doubled(r) ==
    LET n == Stripped[query[r].model] IN Stripped[n] # n

\* The requests that meet one of these two flaws.
Misled(r) == Rerouted(r) \/ Doubled(r)

\* Three handlers look the model up in three ways, and the control plane may
\* exchange the router between any two steps: still every request goes to the
\* first choice of one configuration, that of its arrival, and to no other.
AllButMisledSentToFirst == \A r \in Requests : Misled(r) \/ SentToFirst(r)

\* The metrics of a request are recorded under the provider it was sent to:
\* the endpoint and the handler look it up apart.
LabelTellsProvider ==
    \A r \in Requests :
        sent[r] # Nowhere => Misled(r) \/ label[r] = sent[r].provider

\* With closed routes (ControlPlane's ClosedUnlessStray) no request for a
\* model that has a route is refused.
RoutedIsSent ==
    \A r \in Requests :
        stage[r] = "refused" =>
            Misled(r) \/ ~HasRoute(r) \/ ~Closed(snapshot[r])
-----------------------------------------------------------------------------
(* Properties the code does not have.                                      *)

\* "Routes can map model names to provider-specific upstream models"
\* (CHANGELOG): the same of Rerouted requests too.
AllSentToFirst ==
    \A r \in Requests :
        ~Doubled(r) =>
            /\ SentToFirst(r)
            /\ stage[r] = "refused" => ~HasRoute(r) \/ ~Closed(snapshot[r])
=============================================================================
