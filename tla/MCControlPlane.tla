--------------------------- MODULE MCControlPlane ---------------------------
(***************************************************************************)
(* Instances of ControlPlane for TLC.                                      *)
(***************************************************************************)
EXTENDS ControlPlane

CONSTANTS a, b, s, p, q, m, k, u

MCProviders == {p, q}

MCModels == {m}

\* For handlers that overlap: few forms, so that three of them can be under
\* way, or follow one another within one load of another.
OverlapForms ==
    {[kind |-> "create", name |-> p, key |-> NoKey],
     [kind |-> "create", name |-> q, key |-> NoKey],
     [kind |-> "update", id |-> p, name |-> q, key |-> Keep],
     [kind |-> "delete", id |-> p],
     [kind |-> "route", model |-> m, ids |-> <<p>>, up |-> <<>>],
     [kind |-> "route", model |-> m, ids |-> <<q, p>>, up |-> <<>>],
     [kind |-> "unroute", model |-> m]}

\* For forms that come one at a time: every kind, with keys and overrides.
SerialForms ==
    {[kind |-> "create", name |-> p, key |-> k],
     [kind |-> "create", name |-> q, key |-> NoKey],
     [kind |-> "update", id |-> p, name |-> q, key |-> Keep],
     [kind |-> "update", id |-> p, name |-> p, key |-> NoKey],
     [kind |-> "delete", id |-> p],
     [kind |-> "delete", id |-> q],
     [kind |-> "route", model |-> m, ids |-> <<p, q>>, up |-> (p :> u)],
     [kind |-> "route", model |-> m, ids |-> <<p, q>>, up |-> <<>>],
     [kind |-> "route", model |-> m, ids |-> <<p>>, up |-> (p :> u @@ q :> u)],
     [kind |-> "unroute", model |-> m],
     BadForm}
=============================================================================
