----------------------------- MODULE MCRouting -----------------------------
(***************************************************************************)
(* An instance of Routing for TLC.  Model m1 has a route that overrides it *)
(* by m2, m2 may have a route of its own, and m1L is m1 with the suffix,   *)
(* which may have a route that only m1LL, with two suffixes, leads to.     *)
(***************************************************************************)
EXTENDS Routing

CONSTANTS p1, p2, m1, m1L, m1LL, m2

MCModels == {m1, m1L, m1LL, m2}

MCStripped ==
    [x \in MCModels |-> CASE x = m1L -> m1 [] x = m1LL -> m1L [] OTHER -> x]

MCNative == [x \in {"Anthropic", "Responses"} |-> {p2}]

Entry(ids, up) == [ids |-> ids, up |-> up]

Both == {p1, p2}

MCConfigs ==
    {[providers |-> [x \in ps |-> NoKey], routes |-> rs] :
        ps \in {{p1}, Both},
        rs \in {<<>>,
                (m1 :> Entry(<<p1>>, <<>>)),
                (m1 :> Entry(<<p1, p2>>, p1 :> m2)),
                (m1 :> Entry(<<p2, p1>>, p1 :> m2)),
                (m1 :> Entry(<<p1>>, <<>>) @@ m1L :> Entry(<<p2>>, <<>>)),
                (m1 :> Entry(<<p1>>, p1 :> m2) @@ m2 :> Entry(<<p2>>, p2 :> m1))}}
=============================================================================
