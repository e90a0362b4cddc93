------------------------------- MODULE Config -------------------------------
(***************************************************************************)
(* The gateway's configuration (AppConfig in src/src/config.rs) and what   *)
(* each form of the admin API and of the command line makes of it          *)
(* (src/src/web.rs, src/src/main.rs).  These are the pure parts of the     *)
(* handlers: whether a form is accepted against the configuration the      *)
(* handler loaded, and the configuration that is then saved.               *)
(*                                                                         *)
(* Abstracted: of a provider's settings the API key stands for the key and *)
(* the default upstream model, which follow the same rule; endpoint and    *)
(* type are taken from the form as they are.  An override whose value is   *)
(* blank is the same as no override, and is not written down.              *)
(***************************************************************************)
EXTENDS Naturals, Sequences, FiniteSets, Functions, TLC

CONSTANTS
    Providers,  \* names of providers
    Models,     \* model names that can have a route
    Keys,       \* API keys
    Upstreams,  \* model names a route may override with
    NoKey       \* api_key = None

ASSUME ConfigAssumption == NoKey \notin Keys

\* A HashMap: a function on some of the keys.
MapOf(S, T) == UNION {[D -> T] : D \in SUBSET S}

With(f, x, v) == [y \in DOMAIN f \cup {x} |-> IF y = x THEN v ELSE f[y]]

Without(f, x) == Restrict(f, DOMAIN f \ {x})

RouteConfig == [ids : Seq(Providers), up : MapOf(Providers, Upstreams)]

\* c is a configuration.
AppConfig(c) ==
    /\ c = [providers |-> c.providers, routes |-> c.routes]
    /\ c.providers \in MapOf(Providers, Keys \cup {NoKey})
    /\ c.routes = [m \in DOMAIN c.routes |-> c.routes[m]]
    /\ DOMAIN c.routes \subseteq Models
    /\ \A m \in DOMAIN c.routes : c.routes[m] \in RouteConfig

\* default_config(): what a fresh installation has, and what load_config makes
\* of a database it cannot read.
DefaultConfig == [providers |-> <<>>, routes |-> <<>>]

-----------------------------------------------------------------------------
(* The forms.                                                              *)

\* In an update, `Keep` is a form without the field and NoKey one with an
\* empty field.  In a create both come out as NoKey.
Keep == "keep"

CreateForms ==
    [kind : {"create"}, name : Providers, key : Keys \cup {NoKey}]

UpdateForms ==
    [kind : {"update"}, id : Providers, name : Providers,
     key : Keys \cup {NoKey, Keep}]

DeleteForms == [kind : {"delete"}, id : Providers]

RouteForms ==
    [kind : {"route"}, model : Models, ids : Seq(Providers),
     up : MapOf(Providers, Upstreams)]

UnrouteForms == [kind : {"unroute"}, model : Models]

\* A provider form that validate_provider_form refuses.
BadForm == [kind |-> "malformed"]

AllForms ==
    CreateForms \cup UpdateForms \cup DeleteForms \cup RouteForms
        \cup UnrouteForms \cup {BadForm}

-----------------------------------------------------------------------------
(* Whether a form is accepted.  `checked` says that the providers of a     *)
(* route must exist: the web handler looks, the command line does not.     *)

UpdateAllowed(c, f) ==
    /\ f.id \in DOMAIN c.providers
    /\ f.name # f.id => f.name \notin DOMAIN c.providers

RouteAllowed(c, f, checked) ==
    /\ f.ids # <<>>
    /\ checked => Range(f.ids) \subseteq DOMAIN c.providers

Allowed(c, f, checked) ==
    \/ f.kind = "create" /\ f.name \notin DOMAIN c.providers
    \/ f.kind = "update" /\ UpdateAllowed(c, f)
    \/ f.kind = "delete" /\ f.id \in DOMAIN c.providers
    \/ f.kind = "route" /\ RouteAllowed(c, f, checked)
    \/ f.kind = "unroute" /\ f.model \in DOMAIN c.routes

-----------------------------------------------------------------------------
(* The configuration a form leads to.                                      *)

Created(c, f) == [c EXCEPT !.providers = With(@, f.name, f.key)]

\* Variant of Settings that stores what the form has.
Settings_Verbatim(old, f) == f.key

\* The settings of an updated provider: a field the form leaves out is kept.
Settings(old, f) == IF f.key = Keep THEN old ELSE f.key

\* A provider renamed in the routes: in `ids` only.
Renamed(routes, id, name) ==
    [m \in DOMAIN routes |->
        [routes[m] EXCEPT !.ids =
            [i \in DOMAIN @ |-> IF @[i] = id THEN name ELSE @[i]]]]

Updated(c, f) ==
    [providers |-> With(Without(c.providers, f.id), f.name,
                        Settings(c.providers[f.id], f)),
     routes |-> Renamed(c.routes, f.id, f.name)]

\* The providers of a route but one (Vec::retain).
Others(ids, id) ==
    LET kept[i \in 0 .. Len(ids)] ==
            IF i = 0 THEN <<>>
            ELSE IF ids[i] = id THEN kept[i - 1]
            ELSE Append(kept[i - 1], ids[i])
    IN  kept[Len(ids)]

\* What is left of a route when a provider goes.
Bereft(route, id) ==
    [ids |-> Others(route.ids, id),
     up |-> Without(route.up, id)]

\* Variant of Deleted that forgets the routes.
Deleted_RoutesForgotten(c, f) == [c EXCEPT !.providers = Without(@, f.id)]

\* A deleted provider leaves every route, and a route without a provider goes.
Deleted(c, f) ==
    LET kept == [m \in DOMAIN c.routes |-> Bereft(c.routes[m], f.id)]
    IN  [providers |-> Without(c.providers, f.id),
         routes |-> RestrictDomain(kept, LAMBDA m : kept[m].ids # <<>>)]

\* An override for a provider that is not in the route is dropped.
Routed(c, f) ==
    LET up == Restrict(f.up, DOMAIN f.up \cap Range(f.ids))
    IN  [c EXCEPT !.routes = With(@, f.model, [ids |-> f.ids, up |-> up])]

Unrouted(c, f) == [c EXCEPT !.routes = Without(@, f.model)]

Result(c, f) ==
    CASE f.kind = "create"  -> Created(c, f)
      [] f.kind = "update"  -> Updated(c, f)
      [] f.kind = "delete"  -> Deleted(c, f)
      [] f.kind = "route"   -> Routed(c, f)
      [] f.kind = "unroute" -> Unrouted(c, f)

-----------------------------------------------------------------------------
(* What a sane configuration is.                                           *)

\* A request for any model with a route finds a provider: no route is empty,
\* and none names a provider that does not exist.
Closed(c) ==
    \A m \in DOMAIN c.routes :
        /\ c.routes[m].ids # <<>>
        /\ Range(c.routes[m].ids) \subseteq DOMAIN c.providers

\* The providers a form takes away under their present name.
Removes(f) ==
    IF f.kind = "delete" \/ (f.kind = "update" /\ f.name # f.id)
    THEN {f.id}
    ELSE {}

\* The providers a form promises to be there.
Promises(f) == IF f.kind \in {"create", "update"} THEN {f.name} ELSE {}
=============================================================================
