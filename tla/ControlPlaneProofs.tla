------------------------- MODULE ControlPlaneProofs -------------------------
(***************************************************************************)
(* Proofs about ControlPlane, for any actors, forms and configurations.    *)
(* What a form makes of a configuration (Result) is opened only by the     *)
(* lemmas that say what it keeps.                                          *)
(***************************************************************************)
EXTENDS ControlPlane, Induction, TLAPS

-----------------------------------------------------------------------------
(* However handlers overlap, and whatever fails.                           *)

Shaped(c) == c = [providers |-> c.providers, routes |-> c.routes]

\* What makes RouterServesCommitted inductive: a handler that has saved holds
\* what it saved; no handler runs without its server; and what a starting
\* server has loaded is still what the database holds, unless a shell overtook
\* it.
CommittedInv ==
    /\ pc \in [Actors -> Locations]
    /\ seen = [a \in Actors |-> seen[a]]
    /\ \A a \in Actors : Shaped(seen[a])
    /\ Shaped(db)
    /\ DefaultConfig \in committed
    /\ db \in committed
    /\ "overtaken" \notin strays => router \in committed
    /\ \A a \in Actors : pc[a] = "saved" => seen[a] \in committed
    /\ \A a \in Actors : server # "up" /\ a \in Web => pc[a] = "idle"
    /\ server = "starting" => start = db.providers \/ "overtaken" \in strays

\* A form makes a configuration of a configuration.
LEMMA ResultShaped ==
    ASSUME NEW c, NEW f, NEW k, Shaped(c), Allowed(c, f, k)
    PROVE  Shaped(Result(c, f))
<1>1. CASE f.kind = "create"
  <2>1. Result(c, f) = Created(c, f)
    BY <1>1 DEF Result
  <2> DEFINE v == With(c.providers, f.name, f.key)
  <2>2. Created(c, f) = [c EXCEPT !.providers = v]
    BY DEF Created
  <2> HIDE DEF v
  <2> QED
    BY <2>1, <2>2 DEF Shaped
<1>2. CASE f.kind = "update"
  BY <1>2 DEF Result, Updated, Shaped
<1>3. CASE f.kind = "delete"
  <2>1. Result(c, f) = Deleted(c, f)
    BY <1>3 DEF Result
  <2> QED
    BY <2>1 DEF Deleted, Shaped
<1>4. CASE f.kind = "route"
  <2>1. Result(c, f) = Routed(c, f)
    BY <1>4 DEF Result
  <2>2. PICK v : Routed(c, f) = [c EXCEPT !.routes = v]
    BY DEF Routed
  <2> QED
    BY <2>1, <2>2 DEF Shaped
<1>5. CASE f.kind = "unroute"
  <2>1. Result(c, f) = Unrouted(c, f)
    BY <1>5 DEF Result
  <2> DEFINE v == Without(c.routes, f.model)
  <2>2. Unrouted(c, f) = [c EXCEPT !.routes = v]
    BY DEF Unrouted
  <2> HIDE DEF v
  <2> QED
    BY <2>1, <2>2 DEF Shaped
<1> QED
  BY <1>1, <1>2, <1>3, <1>4, <1>5 DEF Allowed

LEMMA CommittedInit == Init => CommittedInv
BY DEF Init, CommittedInv, Locations, Shaped, DefaultConfig

LEMMA CommittedSteps == CommittedInv /\ [Next]_vars => CommittedInv'
<1> SUFFICES ASSUME CommittedInv, [Next]_vars PROVE CommittedInv'
  OBVIOUS
<1> USE DEF CommittedInv, history, serverVars
<1>1. ASSUME NEW a \in Actors, Submit(a) PROVE CommittedInv'
  BY <1>1 DEF Submit, Locations
<1>2. ASSUME NEW a \in Actors, LoadProviders(a) PROVE CommittedInv'
  BY <1>2 DEF LoadProviders, Locations, Shaped
<1>3. ASSUME NEW a \in Actors, LoadRoutes(a) PROVE CommittedInv'
  BY <1>3 DEF LoadRoutes, Locations, Shaped
<1>4. ASSUME NEW a \in Actors, LoadFails(a) PROVE CommittedInv'
  BY <1>4 DEF LoadFails, Locations, Shaped, DefaultConfig
<1>5. ASSUME NEW a \in Actors, Refuse(a) PROVE CommittedInv'
  BY <1>5 DEF Refuse, Locations
<1>6. ASSUME NEW a \in Actors, SaveFails(a) PROVE CommittedInv'
  BY <1>6 DEF SaveFails, Locations
<1>7. ASSUME NEW a \in Actors, Save(a) PROVE CommittedInv'
  <2> DEFINE c == Result(seen[a], form[a])
  <2>1. Shaped(c)
    BY <1>7, ResultShaped DEF Save, Accepted
  <2>2. /\ pc[a] = "loaded"
        /\ db' = c /\ router' = router /\ server' = server /\ start' = start
        /\ seen' = [seen EXCEPT ![a] = c]
        /\ committed' = committed \cup {c}
        /\ \E l \in {"saved", "idle"} : pc' = [pc EXCEPT ![a] = l]
        /\ strays \subseteq strays'
        /\ a \notin Web /\ server = "starting" => "overtaken" \in strays'
    BY <1>7 DEF Save, Accepted
  <2> HIDE DEF c
  <2> QED
    BY <2>1, <2>2 DEF Locations
<1>8. ASSUME NEW a \in Actors, Store(a) PROVE CommittedInv'
  BY <1>8 DEF Store, Locations
<1>9. CASE Stop
  BY <1>9 DEF Stop, Locations
<1>10. CASE StartLoads
  BY <1>10 DEF StartLoads, Locations
<1>11. CASE StartServes
  <2>1. start = db.providers => router' = db
    BY <1>11 DEF StartServes, Shaped
  <2> QED
    BY <1>11, <2>1 DEF StartServes, Locations
<1>12. CASE StartFails
  BY <1>12 DEF StartFails, Locations
<1>13. CASE UNCHANGED vars
  BY <1>13 DEF vars
<1> QED
  BY <1>1, <1>2, <1>3, <1>4, <1>5, <1>6, <1>7, <1>8, <1>9, <1>10, <1>11,
     <1>12, <1>13
  DEF Next, Handler

\* The server answers requests only with configurations that were saved as a
\* whole, however handlers overlap and fail and the server stops and starts,
\* unless a shell saved between the two SELECTs of a start.
THEOREM ServesCommitted == Spec => []RouterServesCommitted
<1>1. CommittedInv => RouterServesCommitted
  BY DEF CommittedInv, RouterServesCommitted
<1> QED
  BY <1>1, CommittedInit, CommittedSteps, PTL DEF Spec
-----------------------------------------------------------------------------
(* One thing at a time, and loads that do not fail.                        *)

Serial == OneAtATime /\ "load" \notin Faults

\* The handler that is under way, if there is one, is alone with the database:
\* its copy is what the database holds, and where it has not saved, the router
\* is built from that too.  A starting server is alone with it as well.
SerialInv ==
    /\ pc \in [Actors -> Locations]
    /\ form \in [Actors -> Forms \cup {NoForm}]
    /\ answer = [a \in Actors |-> answer[a]]
    /\ seen = [a \in Actors |-> seen[a]]
    /\ Shaped(db)
    /\ \A a \in Actors : Shaped(seen[a])
    /\ \A a \in Actors : pc[a] # "idle" => form[a] \in Forms
    /\ \A a, b \in Actors : pc[a] # "idle" /\ pc[b] # "idle" => a = b
    /\ \A a \in Actors : pc[a] = "routes" => seen[a].providers = db.providers
    /\ \A a \in Actors : pc[a] = "loaded" => seen[a] = db
    /\ \A a \in Actors : pc[a] = "saved" => seen[a] = db /\ a \in Web
    /\ server = "starting" =>
        /\ start = db.providers
        /\ \A a \in Actors : pc[a] = "idle"
    /\ \/ "unserved" \in strays
       \/ server # "up"
       \/ \E a \in Actors : pc[a] = "saved"
       \/ router = db

LEMMA SerialInit == Init => SerialInv
BY DEF Init, SerialInv, Locations, Shaped, DefaultConfig

LEMMA SerialSteps ==
    ASSUME Serial
    PROVE  SerialInv /\ [Next]_vars => SerialInv'
<1> SUFFICES ASSUME SerialInv, [Next]_vars PROVE SerialInv'
  OBVIOUS
<1> USE DEF SerialInv, history, serverVars
<1>1. ASSUME NEW a \in Actors, Submit(a) PROVE SerialInv'
  <2>1. Quiet
    BY <1>1 DEF Submit, Serial
  <2>2. PICK f \in Forms : form' = [form EXCEPT ![a] = f]
    BY <1>1 DEF Submit
  <2> QED
    BY <1>1, <2>1, <2>2 DEF Submit, Quiet, Locations
<1>2. ASSUME NEW a \in Actors, LoadProviders(a) PROVE SerialInv'
  BY <1>2 DEF LoadProviders, Locations, Shaped
<1>3. ASSUME NEW a \in Actors, LoadRoutes(a) PROVE SerialInv'
  BY <1>3 DEF LoadRoutes, Locations, Shaped
<1>4. ASSUME NEW a \in Actors, LoadFails(a) PROVE SerialInv'
  BY <1>4 DEF LoadFails, Serial
<1>5. ASSUME NEW a \in Actors, Refuse(a) PROVE SerialInv'
  BY <1>5 DEF Refuse, Locations
<1>6. ASSUME NEW a \in Actors, SaveFails(a) PROVE SerialInv'
  BY <1>6 DEF SaveFails, Accepted, Locations
<1>7. ASSUME NEW a \in Actors, Save(a) PROVE SerialInv'
  <2> DEFINE c == Result(seen[a], form[a])
  <2>1. Shaped(c)
    BY <1>7, ResultShaped DEF Save, Accepted
  <2>2. /\ pc[a] = "loaded" /\ server' = server
        /\ db' = c /\ router' = router /\ form' = form
        /\ seen' = [seen EXCEPT ![a] = c]
    BY <1>7 DEF Save, Accepted
  <2>3. server # "starting" /\ \A b \in Actors \ {a} : pc[b] = "idle"
    BY <2>2
  <2> HIDE DEF c
  <2>4. CASE a \in Web
    <3>1. pc' = [pc EXCEPT ![a] = "saved"] /\ answer' = answer
      BY <1>7, <2>4 DEF Save
    <3> QED
      BY <2>1, <2>2, <2>3, <2>4, <3>1 DEF Locations
  <2>5. CASE a \notin Web
    <3>1. /\ pc' = [pc EXCEPT ![a] = "idle"]
          /\ answer' = [answer EXCEPT ![a] = "done"]
          /\ "unserved" \in strays'
      BY <1>7, <2>5 DEF Save
    <3> QED
      BY <2>1, <2>2, <2>3, <3>1 DEF Locations
  <2> QED
    BY <2>4, <2>5
<1>8. ASSUME NEW a \in Actors, Store(a) PROVE SerialInv'
  BY <1>8 DEF Store, Locations
<1>9. CASE Stop
  BY <1>9 DEF Stop, Locations
<1>10. CASE StartLoads
  BY <1>10 DEF StartLoads, Serial, Quiet
<1>11. CASE StartServes
  <2>1. router' = db
    BY <1>11 DEF StartServes, Shaped
  <2> QED
    BY <1>11, <2>1 DEF StartServes
<1>12. CASE StartFails
  BY <1>12 DEF StartFails, Serial
<1>13. CASE UNCHANGED vars
  BY <1>13 DEF vars
<1> QED
  BY <1>1, <1>2, <1>3, <1>4, <1>5, <1>6, <1>7, <1>8, <1>9, <1>10, <1>11,
     <1>12, <1>13
  DEF Next, Handler

\* When nothing is under way, the server serves what the database holds.
THEOREM InSync ==
    ASSUME Serial
    PROVE  Spec => []QuietMeansInSync
<1>1. SerialInv => QuietMeansInSync
  BY DEF SerialInv, QuietMeansInSync, Quiet
<1> QED
  BY <1>1, SerialInit, SerialSteps, PTL DEF Spec
\* A form takes no provider away but the one it removes, and adds the one it
\* promises.
LEMMA ResultKeeps ==
    ASSUME NEW c, NEW f, NEW k, Shaped(c), Allowed(c, f, k)
    PROVE  (DOMAIN c.providers \ Removes(f)) \cup Promises(f)
                \subseteq DOMAIN Result(c, f).providers
<1>1. ASSUME NEW g, NEW x, NEW v
      PROVE  DOMAIN With(g, x, v) = DOMAIN g \cup {x}
  BY DEF With
<1>2. ASSUME NEW g, NEW x
      PROVE  DOMAIN Without(g, x) = DOMAIN g \ {x}
  BY DEF Without, Restrict
<1>3. CASE f.kind = "create"
  <2>1. Result(c, f).providers = With(c.providers, f.name, f.key)
    <3> DEFINE v == With(c.providers, f.name, f.key)
    <3>a. Result(c, f) = Created(c, f)
      BY <1>3 DEF Result
    <3>1. Result(c, f) = [c EXCEPT !.providers = v]
      BY <3>a DEF Created
    <3> HIDE DEF v
    <3>2. Result(c, f).providers = v
      BY <3>1 DEF Shaped
    <3> QED
      BY <3>2 DEF v
  <2>2. Removes(f) = {} /\ Promises(f) = {f.name}
    BY <1>3 DEF Removes, Promises
  <2>3. DOMAIN With(c.providers, f.name, f.key)
            = DOMAIN c.providers \cup {f.name}
    BY <1>1
  <2> QED
    BY <2>1, <2>2, <2>3
<1>4. CASE f.kind = "update"
  <2> DEFINE s == Settings(c.providers[f.id], f)
  <2>1. Result(c, f).providers = With(Without(c.providers, f.id), f.name, s)
    <3>1. Result(c, f) = Updated(c, f)
      BY <1>4 DEF Result
    <3> QED
      BY <3>1 DEF Updated
  <2> HIDE DEF s
  <2>2. DOMAIN Result(c, f).providers = (DOMAIN c.providers \ {f.id}) \cup {f.name}
    <3>1. DOMAIN Without(c.providers, f.id) = DOMAIN c.providers \ {f.id}
      BY <1>2
    <3>2. DOMAIN Result(c, f).providers
            = DOMAIN Without(c.providers, f.id) \cup {f.name}
      BY <1>1, <2>1
    <3> QED
      BY <3>1, <3>2
  <2>3. (DOMAIN c.providers \ Removes(f)) \cup Promises(f)
            \subseteq (DOMAIN c.providers \ {f.id}) \cup {f.name}
    BY <1>4 DEF Removes, Promises
  <2> QED
    BY <2>2, <2>3
<1>5. CASE f.kind = "delete"
  <2>1. Result(c, f).providers = Without(c.providers, f.id)
    <3>1. Result(c, f) = Deleted(c, f)
      BY <1>5 DEF Result
    <3> QED
      BY <3>1 DEF Deleted
  <2>2. Removes(f) = {f.id} /\ Promises(f) = {}
    BY <1>5 DEF Removes, Promises
  <2>3. DOMAIN Without(c.providers, f.id) = DOMAIN c.providers \ {f.id}
    BY <1>2
  <2> QED
    BY <2>1, <2>2, <2>3
<1>6. CASE f.kind \in {"route", "unroute"}
  <2>1. Result(c, f) = Routed(c, f) \/ Result(c, f) = Unrouted(c, f)
    BY <1>6 DEF Result
  <2>2. PICK v : Result(c, f) = [c EXCEPT !.routes = v]
    BY <2>1 DEF Routed, Unrouted
  <2>3. Result(c, f).providers = c.providers
    BY <2>2 DEF Shaped
  <2> QED
    BY <1>6, <2>3 DEF Removes, Promises
<1> QED
  BY <1>3, <1>4, <1>5, <1>6 DEF Allowed

Kept == owed \subseteq DOMAIN db.providers

LEMMA KeptSteps ==
    ASSUME SerialInv, Kept, [Next]_vars
    PROVE  Kept'
<1> USE DEF Kept, history
<1>1. ASSUME NEW a \in Actors, Save(a) PROVE Kept'
  <2> DEFINE f == form[a]
  <2>1. seen[a] = db /\ Shaped(db) /\ Allowed(db, f, a \in Web)
    BY <1>1 DEF Save, Accepted, SerialInv
  <2>2. /\ db' = Result(db, f)
        /\ owed' = (owed \ Removes(f)) \cup Promises(f)
    BY <1>1, <2>1 DEF Save
  <2> HIDE DEF f
  <2>3. (DOMAIN db.providers \ Removes(f)) \cup Promises(f)
            \subseteq DOMAIN Result(db, f).providers
    BY <2>1, ResultKeeps
  <2> QED
    BY <2>2, <2>3
<1>2. ASSUME db' = db, owed' = owed PROVE Kept'
  BY <1>2
<1> QED
  BY <1>1, <1>2 DEF Next, Handler, Submit, LoadProviders, LoadRoutes, LoadFails,
     Refuse, SaveFails, Store, Stop, StartLoads, StartServes, StartFails, vars

\* What a form saved stays in the database until a form removes it.
THEOREM Persists ==
    ASSUME Serial
    PROVE  Spec => []SavedPersists
<1>1. Init => Kept
  BY DEF Init, Kept
<1>2. Kept => SavedPersists
  BY DEF Kept, SavedPersists
<1>3. SerialInv /\ Kept /\ [Next]_vars => Kept'
  BY KeptSteps
<1> QED
  BY <1>1, <1>2, <1>3, SerialInit, SerialSteps, PTL DEF Spec

-----------------------------------------------------------------------------
(* The configuration an administrator thinks of.                           *)

\* The abstract specification judges and applies forms as this one does.
LEMMA SameForms ==
    /\ Atomic!DefaultConfig = DefaultConfig
    /\ \A c, f, k : Atomic!Allowed(c, f, k) = Allowed(c, f, k)
    /\ \A c, f : Atomic!Result(c, f) = Result(c, f)
<1>1. Atomic!DefaultConfig = DefaultConfig
  BY DEF Atomic!DefaultConfig, DefaultConfig
<1>2. ASSUME NEW c, NEW f, NEW k
      PROVE  Atomic!Allowed(c, f, k) = Allowed(c, f, k)
  BY DEF Atomic!Allowed, Allowed, Atomic!UpdateAllowed, UpdateAllowed,
         Atomic!RouteAllowed, RouteAllowed, Atomic!Range, Range
<1>3. ASSUME NEW c, NEW f
      PROVE  Atomic!Result(c, f) = Result(c, f)
  BY DEF Atomic!Result, Result, Atomic!Created, Created, Atomic!Updated,
         Updated, Atomic!Deleted, Deleted, Atomic!Routed, Routed,
         Atomic!Unrouted, Unrouted, Atomic!With, With, Atomic!Without, Without,
         Atomic!Settings, Settings, Atomic!Keep, Keep, Atomic!Renamed, Renamed,
         Atomic!Bereft, Bereft, Atomic!Others, Others, Atomic!Range, Range, Atomic!Restrict, Restrict,
         Atomic!RestrictDomain, RestrictDomain
<1> QED
  BY <1>1, <1>2, <1>3
\* What the refinement maps an actor's state to.
Outcome == [a \in Actors |-> IF pc[a] = "saved" THEN "done" ELSE answer[a]]

LEMMA AtomicInit == Init => Atomic!Init
BY SameForms DEF Init, Atomic!Init

\* Every step is a step of the abstract specification, or none.
LEMMA AtomicSteps ==
    ASSUME Serial, SerialInv, SerialInv', [Next]_vars
    PROVE  [Atomic!Next]_(Atomic!vars)
<1> DEFINE outcome == Outcome
<1> USE DEF history, serverVars
<1> HIDE DEF outcome
<1>0. /\ outcome = [b \in Actors |-> IF pc[b] = "saved" THEN "done" ELSE answer[b]]
      /\ outcome' = [b \in Actors |->
                        IF pc'[b] = "saved" THEN "done" ELSE answer'[b]]
  BY DEF outcome, Outcome
<1>a. ASSUME <<db, router, outcome>>' = <<db, router, outcome>>
      PROVE  UNCHANGED Atomic!vars
  BY <1>a DEF Atomic!vars, outcome, Outcome
<1>1. ASSUME NEW a \in Actors, Submit(a) PROVE Atomic!Submit(a)
  <2>1. outcome' = [outcome EXCEPT ![a] = "none"]
    BY <1>0, <1>1 DEF Submit, SerialInv, Locations
  <2> QED
    BY <1>1, <2>1 DEF Submit, Atomic!Submit, outcome, Outcome
<1>2. ASSUME NEW a \in Actors, LoadProviders(a) \/ LoadRoutes(a)
      PROVE  UNCHANGED Atomic!vars
  <2>1. outcome' = outcome
    BY <1>0, <1>2 DEF LoadProviders, LoadRoutes, SerialInv, Locations
  <2> QED
    BY <1>2, <1>a, <2>1 DEF LoadProviders, LoadRoutes
<1>3. ASSUME NEW a \in Actors, LoadFails(a) PROVE FALSE
  BY <1>3 DEF LoadFails, Serial
<1>4. ASSUME NEW a \in Actors, Refuse(a) PROVE Atomic!Refuse(a)
  <2>1. outcome' = [outcome EXCEPT ![a] = "refused"]
    BY <1>0, <1>4 DEF Refuse, SerialInv, Locations
  <2>2. form[a] \in Forms /\ ~Atomic!Allowed(db, form[a], a \in Web)
    BY <1>4, SameForms DEF Refuse, Accepted, SerialInv
  <2> QED
    BY <1>4, <2>1, <2>2 DEF Refuse, Atomic!Refuse, outcome, Outcome
<1>5. ASSUME NEW a \in Actors, SaveFails(a) PROVE Atomic!Fail(a)
  <2>1. outcome' = [outcome EXCEPT ![a] = "error"]
    BY <1>0, <1>5 DEF SaveFails, Accepted, SerialInv, Locations
  <2> QED
    BY <1>5, <2>1 DEF SaveFails, Atomic!Fail, outcome, Outcome
<1>6. ASSUME NEW a \in Actors, Save(a) PROVE Atomic!Perform(a)
  <2>a. pc[a] = "loaded"
    BY <1>6 DEF Save, Accepted
  <2>b. \/ pc' = [pc EXCEPT ![a] = "saved"] /\ answer' = answer
        \/ /\ pc' = [pc EXCEPT ![a] = "idle"]
           /\ answer' = [answer EXCEPT ![a] = "done"]
    BY <1>6 DEF Save
  <2>1. outcome' = [outcome EXCEPT ![a] = "done"]
    BY <1>0, <2>a, <2>b DEF SerialInv, Locations
  <2>2. form[a] \in Forms /\ Atomic!Allowed(db, form[a], a \in Web)
    BY <1>6, SameForms DEF Save, Accepted, SerialInv
  <2>3. db' = Atomic!Result(db, form[a]) /\ router' = router
    BY <1>6, SameForms DEF Save, Accepted, SerialInv
  <2> QED
    BY <2>1, <2>2, <2>3 DEF Atomic!Perform, outcome, Outcome
<1>7. ASSUME NEW a \in Actors, Store(a) PROVE Atomic!Publish
  <2>1. outcome' = outcome
    BY <1>0, <1>7 DEF Store, SerialInv, Locations
  <2> QED
    BY <1>7, <2>1 DEF Store, Atomic!Publish, SerialInv, outcome, Outcome
<1>8. CASE Stop
  <2>1. outcome' = [b \in Actors |-> IF b \in Web THEN "none" ELSE outcome[b]]
    BY <1>0, <1>8 DEF Stop, SerialInv, Locations
  <2>2. Atomic!Stop
    BY <1>8, <2>1 DEF Stop, Atomic!Stop, outcome, Outcome
  <2> QED
    BY <2>2 DEF Atomic!Next
<1>9. CASE StartLoads
  <2>1. outcome' = outcome
    BY <1>0, <1>9 DEF StartLoads
  <2> QED
    BY <1>9, <1>a, <2>1 DEF StartLoads
<1>10. CASE StartServes
  <2>1. outcome' = outcome
    BY <1>0, <1>10 DEF StartServes
  <2>2. router' = db /\ db' = db
    BY <1>10 DEF StartServes, SerialInv, Shaped
  <2>3. Atomic!Publish
    BY <2>1, <2>2 DEF Atomic!Publish, outcome, Outcome
  <2> QED
    BY <2>3 DEF Atomic!Next
<1>11. CASE StartFails
  BY <1>11 DEF StartFails, Serial
<1>12. CASE UNCHANGED vars
  BY <1>12 DEF vars, Atomic!vars
<1> QED
  BY <1>1, <1>2, <1>3, <1>4, <1>5, <1>6, <1>7, <1>8, <1>9, <1>10, <1>11, <1>12
  DEF Next, Handler, Atomic!Next

\* When administrators do one thing at a time, the control plane is the one
\* atomic configuration they think of, whatever fails but a load, and whenever
\* the server stops.
THEOREM Refinement ==
    ASSUME Serial
    PROVE  Spec => ImplementsAtomic
<1>1. SerialInv /\ SerialInv' /\ [Next]_vars => [Atomic!Next]_(Atomic!vars)
  BY AtomicSteps
<1> QED
  BY <1>1, AtomicInit, SerialInit, SerialSteps, PTL
  DEF Spec, ImplementsAtomic, Atomic!Spec
-----------------------------------------------------------------------------
(* What the forms make of a configuration.                                 *)

LEMMA InMapOf ==
    ASSUME NEW S, NEW T, NEW g
    PROVE  g \in MapOf(S, T) <=> DOMAIN g \subseteq S /\ g \in [DOMAIN g -> T]
BY DEF MapOf

LEMMA EmptyMap ==
    /\ DOMAIN <<>> = {}
    /\ \A S, T : <<>> \in MapOf(S, T)
    /\ <<>> = [x \in DOMAIN <<>> |-> <<>>[x]]
<1>1. DOMAIN <<>> = {}
  OBVIOUS
<1>2. <<>> = [x \in {} |-> <<>>[x]]
  OBVIOUS
<1>3. ASSUME NEW S, NEW T PROVE <<>> \in MapOf(S, T)
  <2>1. <<>> \in [{} -> T]
    BY <1>2
  <2> QED
    BY <2>1 DEF MapOf
<1> QED
  BY <1>1, <1>2, <1>3

\* An entry added to a map, and one taken away.
LEMMA WithInMapOf ==
    ASSUME NEW S, NEW T, NEW g \in MapOf(S, T), NEW x \in S, NEW v \in T
    PROVE  With(g, x, v) \in MapOf(S, T)
<1>1. DOMAIN With(g, x, v) = DOMAIN g \cup {x}
  BY DEF With
<1>2. With(g, x, v) \in [DOMAIN g \cup {x} -> T]
  BY InMapOf DEF With
<1> QED
  BY <1>1, <1>2, InMapOf

LEMMA RestrictInMapOf ==
    ASSUME NEW S, NEW T, NEW g \in MapOf(S, T), NEW D \in SUBSET DOMAIN g
    PROVE  Restrict(g, D) \in MapOf(S, T)
<1>1. DOMAIN Restrict(g, D) = D
  BY DEF Restrict
<1>2. Restrict(g, D) \in [D -> T]
  BY InMapOf DEF Restrict
<1> QED
  BY <1>1, <1>2, InMapOf

LEMMA WithoutInMapOf ==
    ASSUME NEW S, NEW T, NEW g \in MapOf(S, T), NEW x
    PROVE  Without(g, x) \in MapOf(S, T)
BY RestrictInMapOf DEF Without

\* Others keeps only what was there, and not the one that goes.
LEMMA OthersAre ==
    ASSUME NEW S, NEW ids \in Seq(S), NEW id
    PROVE  /\ Others(ids, id) \in Seq(S)
           /\ Range(Others(ids, id)) \subseteq Range(ids) \ {id}
<1> DEFINE n == Len(ids)
           Left == {q \in Seq(S) : Range(q) \subseteq Range(ids) \ {id}}
           Step == [z \in Left \X (1 .. n) |->
                       IF ids[z[2]] = id THEN z[1] ELSE Append(z[1], ids[z[2]])]
           Is(g) == g = [i \in 0 .. n |-> IF i = 0 THEN <<>>
                                          ELSE IF ids[i] = id THEN g[i - 1]
                                          ELSE Append(g[i - 1], ids[i])]
           kept == CHOOSE g : Is(g)
<1>1. n \in Nat /\ DOMAIN ids = 1 .. n
  OBVIOUS
<1>2. <<>> \in Left
  BY DEF Range
<1>3. ASSUME NEW q \in Left, NEW i \in 1 .. n, ids[i] # id
      PROVE  Append(q, ids[i]) \in Left
  <2>1. Append(q, ids[i]) \in Seq(S)
    BY <1>1
  <2>2. ids[i] \in Range(ids) \ {id}
    BY <1>1, <1>3 DEF Range
  <2>3. ASSUME NEW k \in DOMAIN Append(q, ids[i])
        PROVE  Append(q, ids[i])[k] \in Range(ids) \ {id}
    <3>1. q \in Seq(S) /\ DOMAIN q = 1 .. Len(q) /\ Len(q) \in Nat
      OBVIOUS
    <3>2. DOMAIN Append(q, ids[i]) = 1 .. Len(q) + 1
      BY <1>1, <3>1
    <3>3. CASE k = Len(q) + 1
      BY <1>1, <2>2, <3>1, <3>3
    <3>4. CASE k \in 1 .. Len(q)
      <4>1. Append(q, ids[i])[k] = q[k]
        BY <1>1, <3>1, <3>4
      <4> QED
        BY <3>1, <3>4, <4>1 DEF Range
    <3> QED
      BY <3>1, <3>2, <3>3, <3>4
  <2> QED
    BY <2>1, <2>3 DEF Range
<1>4. IsStep(Step, Left, n)
  BY <1>3 DEF IsStep
<1> HIDE DEF Left, Step
<1>5. PICK g : Follows(g, Left, <<>>, n, Step)
  BY <1>1, <1>2, <1>4, Recursion
<1>6. Is(g)
  <2>1. ASSUME NEW i \in 1 .. n
        PROVE  g[i] = IF ids[i] = id THEN g[i - 1] ELSE Append(g[i - 1], ids[i])
    BY <1>5 DEF Follows, Step
  <2>2. \A i \in 0 .. n : i = 0 \/ (i \in 1 .. n /\ i # 0)
    OBVIOUS
  <2>3. g = [i \in 0 .. n |-> g[i]] /\ g[0] = <<>>
    BY <1>5 DEF Follows
  <2> DEFINE h == [i \in 0 .. n |->
                      IF i = 0 THEN <<>>
                      ELSE IF ids[i] = id THEN g[i - 1] ELSE Append(g[i - 1], ids[i])]
  <2>4. ASSUME NEW i \in 0 .. n PROVE g[i] = h[i]
    <3>1. CASE i = 0
      BY <2>3, <3>1
    <3>2. CASE i \in 1 .. n /\ i # 0
      BY <2>1, <3>2
    <3> QED
      BY <2>2, <3>1, <3>2
  <2>5. h = [i \in 0 .. n |-> h[i]]
    OBVIOUS
  <2> HIDE DEF h
  <2>6. g = h
    BY <2>3, <2>4, <2>5
  <2> QED
    BY <2>6 DEF h
<1>7. Is(kept)
  BY <1>6
<1>8. Others(ids, id) = kept[n]
  BY DEF Others
<1> HIDE DEF kept
<1>9. kept[n] \in Left
  <2>1. kept[0] \in Left
    BY <1>1, <1>2, <1>7
  <2>2. ASSUME NEW i \in 1 .. n, kept[i - 1] \in Left PROVE kept[i] \in Left
    <3>1. i \in 0 .. n /\ i # 0
      OBVIOUS
    <3>2. kept[i] = IF ids[i] = id THEN kept[i - 1]
                                   ELSE Append(kept[i - 1], ids[i])
      BY <1>7, <3>1
    <3> QED
      BY <1>3, <2>2, <3>2
  <2> DEFINE Good == {i \in 0 .. n : kept[i] \in Left}
  <2>3. 0 \in Good /\ \A i \in 1 .. n : i - 1 \in Good => i \in Good
    BY <1>1, <2>1, <2>2
  <2> HIDE DEF Good
  <2>4. \A i \in 0 .. n : i \in Good
    BY <1>1, <2>3, InductionUpTo
  <2> QED
    BY <1>1, <2>4 DEF Good
<1> QED
  BY <1>8, <1>9 DEF Left

\* The forms, by their kind.
LEMMA FormsByKind ==
    ASSUME NEW f \in AllForms
    PROVE  /\ f.kind = "create" => f.name \in Providers /\ f.key \in Keys \cup {NoKey}
           /\ f.kind = "update" =>
                /\ f.id \in Providers /\ f.name \in Providers
                /\ f.key \in Keys \cup {NoKey, Keep}
           /\ f.kind = "route" =>
                /\ f.model \in Models /\ f.ids \in Seq(Providers)
                /\ f.up \in MapOf(Providers, Upstreams)
BY DEF AllForms, CreateForms, UpdateForms, DeleteForms, RouteForms,
       UnrouteForms, BadForm

Routes(r) ==
    /\ r = [m \in DOMAIN r |-> r[m]]
    /\ DOMAIN r \subseteq Models
    /\ \A m \in DOMAIN r : r[m] \in RouteConfig

\* A configuration, taken apart and put together.
LEMMA ConfigParts ==
    /\ \A c : AppConfig(c) => /\ Shaped(c) /\ Routes(c.routes)
                              /\ c.providers \in MapOf(Providers, Keys \cup {NoKey})
    /\ \A p \in MapOf(Providers, Keys \cup {NoKey}) : \A r :
            Routes(r) => AppConfig([providers |-> p, routes |-> r])
<1>1. ASSUME NEW p \in MapOf(Providers, Keys \cup {NoKey}), NEW r, Routes(r)
      PROVE  AppConfig([providers |-> p, routes |-> r])
  <2> DEFINE c == [providers |-> p, routes |-> r]
  <2>1. c.providers = p /\ c.routes = r
    OBVIOUS
  <2>2. c = [providers |-> c.providers, routes |-> c.routes]
    OBVIOUS
  <2> HIDE DEF c
  <2> QED
    BY <1>1, <2>1, <2>2 DEF AppConfig, Routes
<1> QED
  BY <1>1 DEF AppConfig, Shaped, Routes

LEMMA DefaultTyped == AppConfig(DefaultConfig)
<1>1. Routes(<<>>)
  BY EmptyMap DEF Routes
<1> QED
  BY <1>1, EmptyMap, ConfigParts DEF DefaultConfig

\* An entry added to the routes, and one taken away.
LEMMA WithRoutes ==
    ASSUME NEW r, Routes(r), NEW m \in Models, NEW v \in RouteConfig
    PROVE  Routes(With(r, m, v))
BY DEF Routes, With

LEMMA RestrictRoutes ==
    ASSUME NEW r, Routes(r), NEW D \in SUBSET DOMAIN r
    PROVE  Routes(Restrict(r, D))
BY DEF Routes, Restrict

\* The configuration after a form, by its parts.
LEMMA ResultParts ==
    ASSUME NEW c, NEW f, Shaped(c)
    PROVE  /\ f.kind = "create" => Result(c, f) =
                [providers |-> With(c.providers, f.name, f.key),
                 routes |-> c.routes]
           /\ f.kind = "update" => Result(c, f) = Updated(c, f)
           /\ f.kind = "delete" => Result(c, f) = Deleted(c, f)
           /\ f.kind = "route" => Result(c, f) =
                [providers |-> c.providers, routes |->
                    With(c.routes, f.model,
                         [ids |-> f.ids,
                          up |-> Restrict(f.up, DOMAIN f.up \cap Range(f.ids))])]
           /\ f.kind = "unroute" => Result(c, f) =
                [providers |-> c.providers,
                 routes |-> Without(c.routes, f.model)]
<1>1. ASSUME NEW v PROVE [c EXCEPT !.providers = v] = [providers |-> v, routes |-> c.routes]
  BY DEF Shaped
<1>2. ASSUME NEW v PROVE [c EXCEPT !.routes = v] = [providers |-> c.providers, routes |-> v]
  BY DEF Shaped
<1>3. Created(c, f) = [providers |-> With(c.providers, f.name, f.key),
                       routes |-> c.routes]
  BY <1>1 DEF Created
<1>4. Unrouted(c, f) = [providers |-> c.providers,
                        routes |-> Without(c.routes, f.model)]
  BY <1>2 DEF Unrouted
<1>5. Routed(c, f) =
        [providers |-> c.providers, routes |->
            With(c.routes, f.model,
                 [ids |-> f.ids,
                  up |-> Restrict(f.up, DOMAIN f.up \cap Range(f.ids))])]
  BY <1>2 DEF Routed
<1> QED
  BY <1>3, <1>4, <1>5 DEF Result

\* t has the routes of r, as long as they are there, without `id` but perhaps
\* with `name`.
AreRenamed(t, r, id, name) ==
    /\ Routes(t)
    /\ DOMAIN t = DOMAIN r
    /\ \A m \in DOMAIN r :
        /\ DOMAIN t[m].ids = DOMAIN r[m].ids
        /\ Range(t[m].ids) \subseteq (Range(r[m].ids) \ {id}) \cup {name}

LEMMA RenamedAre ==
    ASSUME NEW r, Routes(r), NEW id, NEW name \in Providers
    PROVE  AreRenamed(Renamed(r, id, name), r, id, name)
<1>1. ASSUME NEW m \in DOMAIN r
      PROVE  /\ Renamed(r, id, name)[m] \in RouteConfig
             /\ DOMAIN Renamed(r, id, name)[m].ids = DOMAIN r[m].ids
             /\ Range(Renamed(r, id, name)[m].ids)
                        \subseteq (Range(r[m].ids) \ {id}) \cup {name}
  <2> DEFINE s == r[m].ids
             t == [i \in DOMAIN s |-> IF s[i] = id THEN name ELSE s[i]]
  <2>1. r[m] \in RouteConfig /\ s \in Seq(Providers)
    BY DEF Routes, RouteConfig
  <2>2. t \in Seq(Providers)
    <3>1. DOMAIN s = 1 .. Len(s) /\ Len(s) \in Nat
      BY <2>1
    <3>2. t \in [1 .. Len(s) -> Providers]
      BY <2>1, <3>1
    <3> QED
      BY <3>1, <3>2
  <2>3. Renamed(r, id, name)[m] = [r[m] EXCEPT !.ids = t]
    BY DEF Renamed
  <2>4. Range(t) \subseteq (Range(s) \ {id}) \cup {name} /\ DOMAIN t = DOMAIN s
    BY DEF Range
  <2> HIDE DEF s, t
  <2>5. /\ Renamed(r, id, name)[m] \in RouteConfig
        /\ Renamed(r, id, name)[m].ids = t
    BY <2>1, <2>2, <2>3 DEF RouteConfig
  <2> QED
    BY <2>4, <2>5 DEF s
<1>2. /\ DOMAIN Renamed(r, id, name) = DOMAIN r
      /\ Renamed(r, id, name) = [m \in DOMAIN r |-> Renamed(r, id, name)[m]]
  BY DEF Renamed
<1>3. Routes(Renamed(r, id, name))
  BY <1>1, <1>2 DEF Routes
<1> QED
  BY <1>1, <1>2, <1>3 DEF AreRenamed

LEMMA BereftAre ==
    ASSUME NEW route \in RouteConfig, NEW id
    PROVE  /\ Bereft(route, id) \in RouteConfig
           /\ Range(Bereft(route, id).ids) \subseteq Range(route.ids) \ {id}
<1>1. route.ids \in Seq(Providers) /\ route.up \in MapOf(Providers, Upstreams)
  BY DEF RouteConfig
<1>2. Without(route.up, id) \in MapOf(Providers, Upstreams)
  BY <1>1, WithoutInMapOf
<1>3. /\ Others(route.ids, id) \in Seq(Providers)
      /\ Range(Others(route.ids, id)) \subseteq Range(route.ids) \ {id}
  BY <1>1, OthersAre
<1> QED
  BY <1>2, <1>3 DEF Bereft, RouteConfig

\* What a deletion leaves of the routes: those that have a provider left.
LEMMA DeletedAre ==
    ASSUME NEW c, NEW f, Routes(c.routes)
    PROVE  LET r == Deleted(c, f).routes
           IN  /\ Routes(r)
               /\ DOMAIN r \subseteq DOMAIN c.routes
               /\ \A m \in DOMAIN r :
                    /\ r[m].ids # <<>>
                    /\ Range(r[m].ids) \subseteq Range(c.routes[m].ids) \ {f.id}
<1> DEFINE kept == [m \in DOMAIN c.routes |-> Bereft(c.routes[m], f.id)]
           D == {m \in DOMAIN c.routes : kept[m].ids # <<>>}
           r == Deleted(c, f).routes
<1>1. ASSUME NEW m \in DOMAIN c.routes
      PROVE  /\ kept[m] \in RouteConfig
             /\ Range(kept[m].ids) \subseteq Range(c.routes[m].ids) \ {f.id}
  <2>1. c.routes[m] \in RouteConfig /\ kept[m] = Bereft(c.routes[m], f.id)
    BY DEF Routes
  <2> QED
    BY <2>1, BereftAre
<1>2. r = [m \in D |-> kept[m]]
  BY DEF Deleted, RestrictDomain, Restrict
<1> HIDE DEF kept, r
<1>3. DOMAIN r = D /\ r = [m \in DOMAIN r |-> r[m]]
  BY <1>2
<1>4. ASSUME NEW m \in D
      PROVE  /\ r[m] \in RouteConfig /\ r[m].ids # <<>> /\ m \in Models
             /\ Range(r[m].ids) \subseteq Range(c.routes[m].ids) \ {f.id}
  BY <1>1, <1>2 DEF Routes
<1>5. Routes(r)
  BY <1>3, <1>4 DEF Routes
<1> QED
  BY <1>3, <1>4, <1>5 DEF r

\* A form makes a configuration of a configuration.
LEMMA ResultTyped ==
    ASSUME NEW c, AppConfig(c), NEW f \in AllForms, NEW k, Allowed(c, f, k)
    PROVE  AppConfig(Result(c, f))
<1>1. /\ Shaped(c) /\ Routes(c.routes)
      /\ c.providers \in MapOf(Providers, Keys \cup {NoKey})
  BY ConfigParts
<1>2. CASE f.kind = "create"
  <2>1. With(c.providers, f.name, f.key) \in MapOf(Providers, Keys \cup {NoKey})
    BY <1>1, <1>2, FormsByKind, WithInMapOf
  <2> QED
    BY <1>1, <1>2, <2>1, ResultParts, ConfigParts
<1>3. CASE f.kind = "update"
  <2>1. /\ f.id \in DOMAIN c.providers /\ f.name \in Providers
        /\ f.key \in Keys \cup {NoKey, Keep}
    BY <1>3, FormsByKind DEF Allowed, UpdateAllowed
  <2>2. c.providers[f.id] \in Keys \cup {NoKey}
    BY <1>1, <2>1, InMapOf
  <2>3. Settings(c.providers[f.id], f) \in Keys \cup {NoKey}
    BY <2>1, <2>2 DEF Settings
  <2>4. Without(c.providers, f.id) \in MapOf(Providers, Keys \cup {NoKey})
    BY <1>1, WithoutInMapOf
  <2>5. With(Without(c.providers, f.id), f.name, Settings(c.providers[f.id], f))
            \in MapOf(Providers, Keys \cup {NoKey})
    BY <2>1, <2>3, <2>4, WithInMapOf
  <2>6. Routes(Renamed(c.routes, f.id, f.name))
    BY <1>1, <2>1, RenamedAre DEF AreRenamed
  <2>7. Result(c, f) = Updated(c, f)
    BY <1>1, <1>3, ResultParts
  <2> QED
    BY <2>5, <2>6, <2>7, ConfigParts DEF Updated
<1>4. CASE f.kind = "delete"
  <2>1. Without(c.providers, f.id) \in MapOf(Providers, Keys \cup {NoKey})
    BY <1>1, WithoutInMapOf
  <2>2. Routes(Deleted(c, f).routes)
    BY <1>1, DeletedAre
  <2>3. Deleted(c, f) = [providers |-> Without(c.providers, f.id),
                         routes |-> Deleted(c, f).routes]
    BY DEF Deleted
  <2>4. Result(c, f) = Deleted(c, f)
    BY <1>1, <1>4, ResultParts
  <2> QED
    BY <2>1, <2>2, <2>3, <2>4, ConfigParts
<1>5. CASE f.kind = "route"
  <2> DEFINE up == Restrict(f.up, DOMAIN f.up \cap Range(f.ids))
             v == [ids |-> f.ids, up |-> up]
  <2>1. f.model \in Models /\ f.ids \in Seq(Providers)
    BY <1>5, FormsByKind
  <2>2. up \in MapOf(Providers, Upstreams)
    BY <1>5, FormsByKind, RestrictInMapOf
  <2>3. v \in RouteConfig
    BY <2>1, <2>2 DEF RouteConfig
  <2>4. Result(c, f) = [providers |-> c.providers,
                        routes |-> With(c.routes, f.model, v)]
    BY <1>1, <1>5, ResultParts
  <2> HIDE DEF v
  <2>5. Routes(With(c.routes, f.model, v))
    BY <1>1, <2>1, <2>3, WithRoutes
  <2> QED
    BY <1>1, <2>4, <2>5, ConfigParts
<1>6. CASE f.kind = "unroute"
  <2>1. Routes(Without(c.routes, f.model))
    BY <1>1, RestrictRoutes DEF Without
  <2>2. Result(c, f) = [providers |-> c.providers,
                        routes |-> Without(c.routes, f.model)]
    BY <1>1, <1>6, ResultParts
  <2> QED
    BY <1>1, <2>1, <2>2, ConfigParts
<1> QED
  BY <1>2, <1>3, <1>4, <1>5, <1>6 DEF Allowed

\* No form upsets a configuration, but a route whose providers nobody checks.
LEMMA ResultClosed ==
    ASSUME NEW c, AppConfig(c), Closed(c), NEW f \in AllForms, NEW k,
           Allowed(c, f, k), f.kind = "route" => k
    PROVE  Closed(Result(c, f))
<1>1. Shaped(c) /\ Routes(c.routes)
  BY ConfigParts
<1>3. CASE f.kind = "create"
  <2>1. Result(c, f) = [providers |-> With(c.providers, f.name, f.key),
                        routes |-> c.routes]
    BY <1>1, <1>3, ResultParts
  <2>2. DOMAIN With(c.providers, f.name, f.key) = DOMAIN c.providers \cup {f.name}
    BY DEF With
  <2> QED
    BY <2>1, <2>2 DEF Closed
<1>4. CASE f.kind = "update"
  <2> DEFINE r == Renamed(c.routes, f.id, f.name)
  <2>1. f.name \in Providers
    BY <1>4, FormsByKind
  <2>2. /\ DOMAIN r = DOMAIN c.routes
        /\ \A m \in DOMAIN r :
             /\ DOMAIN r[m].ids = DOMAIN c.routes[m].ids
             /\ Range(r[m].ids) \subseteq (Range(c.routes[m].ids) \ {f.id})
                                            \cup {f.name}
             /\ r[m].ids \in Seq(Providers) /\ c.routes[m].ids \in Seq(Providers)
    <3>1. AreRenamed(r, c.routes, f.id, f.name)
      BY <1>1, <2>1, RenamedAre
    <3> HIDE DEF r
    <3>2. \A m \in DOMAIN r : r[m] \in RouteConfig /\ c.routes[m] \in RouteConfig
      BY <1>1, <3>1 DEF Routes, AreRenamed
    <3> QED
      BY <3>1, <3>2 DEF RouteConfig, AreRenamed
  <2>3. /\ DOMAIN Result(c, f).providers
                = (DOMAIN c.providers \ {f.id}) \cup {f.name}
        /\ Result(c, f).routes = r
    <3> DEFINE s == Settings(c.providers[f.id], f)
    <3>1. /\ Result(c, f).providers = With(Without(c.providers, f.id), f.name, s)
          /\ Result(c, f).routes = r
      <4>1. Result(c, f) = Updated(c, f)
        BY <1>1, <1>4, ResultParts
      <4> QED
        BY <4>1 DEF Updated
    <3> HIDE DEF s, r
    <3>2. DOMAIN With(Without(c.providers, f.id), f.name, s)
                = DOMAIN Without(c.providers, f.id) \cup {f.name}
      BY DEF With
    <3>3. DOMAIN Without(c.providers, f.id) = DOMAIN c.providers \ {f.id}
      BY DEF Without, Restrict
    <3> QED
      BY <3>1, <3>2, <3>3
  <2> HIDE DEF r
  <2>4. ASSUME NEW m \in DOMAIN r
        PROVE  /\ r[m].ids # <<>>
               /\ Range(r[m].ids) \subseteq
                        (DOMAIN c.providers \ {f.id}) \cup {f.name}
    <3>1. /\ c.routes[m].ids # <<>>
          /\ Range(c.routes[m].ids) \subseteq DOMAIN c.providers
      BY <2>2 DEF Closed
    <3>2. r[m].ids # <<>>
      BY <2>2, <3>1
    <3> QED
      BY <2>2, <3>1, <3>2
  <2> QED
    BY <2>3, <2>4 DEF Closed
<1>5. CASE f.kind = "delete"
  <2>0. Result(c, f) = Deleted(c, f)
    BY <1>1, <1>5, ResultParts
  <2>1. Deleted(c, f).providers = Without(c.providers, f.id)
    BY DEF Deleted
  <2>2. DOMAIN Without(c.providers, f.id) = DOMAIN c.providers \ {f.id}
    BY DEF Without, Restrict
  <2>3. ASSUME NEW m \in DOMAIN Deleted(c, f).routes
        PROVE  /\ Deleted(c, f).routes[m].ids # <<>>
               /\ Range(Deleted(c, f).routes[m].ids)
                        \subseteq DOMAIN c.providers \ {f.id}
    BY <1>1, DeletedAre DEF Closed
  <2> QED
    BY <2>0, <2>1, <2>2, <2>3 DEF Closed
<1>6. CASE f.kind = "route"
  <2> DEFINE v == [ids |-> f.ids,
                   up |-> Restrict(f.up, DOMAIN f.up \cap Range(f.ids))]
  <2>1. Result(c, f) = [providers |-> c.providers,
                        routes |-> With(c.routes, f.model, v)]
    BY <1>1, <1>6, ResultParts
  <2>2. v.ids # <<>> /\ Range(v.ids) \subseteq DOMAIN c.providers
    BY <1>6 DEF Allowed, RouteAllowed
  <2> HIDE DEF v
  <2> DEFINE r == With(c.routes, f.model, v)
  <2>3. \A m \in DOMAIN r :
            r[m] = v \/ (m \in DOMAIN c.routes /\ r[m] = c.routes[m])
    BY DEF With
  <2> HIDE DEF r
  <2>4. Result(c, f).routes = r /\ Result(c, f).providers = c.providers
    BY <2>1 DEF r
  <2> QED
    BY <2>2, <2>3, <2>4 DEF Closed
<1>7. CASE f.kind = "unroute"
  <2> DEFINE r == Without(c.routes, f.model)
  <2>1. Result(c, f) = [providers |-> c.providers, routes |-> r]
    BY <1>1, <1>7, ResultParts
  <2>2. \A m \in DOMAIN r : m \in DOMAIN c.routes /\ r[m] = c.routes[m]
    BY DEF Without, Restrict
  <2> HIDE DEF r
  <2> QED
    BY <2>1, <2>2 DEF Closed
<1> QED
  BY <1>3, <1>4, <1>5, <1>6, <1>7 DEF Allowed

-----------------------------------------------------------------------------
(* Types, and closed configurations.                                       *)

\* What makes TypeOK inductive: a handler that is under way has a form.
TypeInv ==
    /\ TypeOK
    /\ \A a \in Actors : pc[a] # "idle" => form[a] \in Forms

LEMMA TypeInit == Init => TypeInv
BY DefaultTyped, EmptyMap, ControlPlaneAssumption
DEF Init, TypeInv, TypeOK, Locations, Strays

\* A copy is a configuration whichever half of it was loaded.
LEMMA HalvesTyped ==
    ASSUME NEW c, NEW d, AppConfig(c), AppConfig(d)
    PROVE  /\ AppConfig([c EXCEPT !.providers = d.providers])
           /\ AppConfig([c EXCEPT !.routes = d.routes])
<1>1. /\ [c EXCEPT !.providers = d.providers]
            = [providers |-> d.providers, routes |-> c.routes]
      /\ [c EXCEPT !.routes = d.routes]
            = [providers |-> c.providers, routes |-> d.routes]
  BY ConfigParts DEF Shaped
<1>2. /\ Routes(c.routes) /\ Routes(d.routes)
      /\ c.providers \in MapOf(Providers, Keys \cup {NoKey})
      /\ d.providers \in MapOf(Providers, Keys \cup {NoKey})
  BY ConfigParts
<1>3. AppConfig([providers |-> d.providers, routes |-> c.routes])
  BY <1>2, ConfigParts
<1>4. AppConfig([providers |-> c.providers, routes |-> d.routes])
  BY <1>2, ConfigParts
<1> QED
  BY <1>1, <1>3, <1>4

LEMMA TypeSteps == TypeInv /\ [Next]_vars => TypeInv'
<1> SUFFICES ASSUME TypeInv, [Next]_vars PROVE TypeInv'
  OBVIOUS
<1> USE ControlPlaneAssumption DEF TypeInv, TypeOK, history, serverVars, Locations, Strays
<1>1. ASSUME NEW a \in Actors, Submit(a) PROVE TypeInv'
  <2>1. PICK f \in Forms : form' = [form EXCEPT ![a] = f]
    BY <1>1 DEF Submit
  <2> QED
    BY <1>1, <2>1 DEF Submit
<1>2. ASSUME NEW a \in Actors, LoadProviders(a) PROVE TypeInv'
  <2> DEFINE c == [seen[a] EXCEPT !.providers = db.providers]
  <2>1. AppConfig(c)
    BY HalvesTyped
  <2>2. seen' = [seen EXCEPT ![a] = c]
    BY <1>2 DEF LoadProviders
  <2> HIDE DEF c
  <2> QED
    BY <1>2, <2>1, <2>2 DEF LoadProviders
<1>3. ASSUME NEW a \in Actors, LoadRoutes(a) PROVE TypeInv'
  <2> DEFINE c == [seen[a] EXCEPT !.routes = db.routes]
  <2>1. AppConfig(c)
    BY HalvesTyped
  <2>2. seen' = [seen EXCEPT ![a] = c]
    BY <1>3 DEF LoadRoutes
  <2> HIDE DEF c
  <2> QED
    BY <1>3, <2>1, <2>2 DEF LoadRoutes
<1>4. ASSUME NEW a \in Actors, LoadFails(a) PROVE TypeInv'
  BY <1>4, DefaultTyped DEF LoadFails
<1>5. ASSUME NEW a \in Actors, Refuse(a) PROVE TypeInv'
  BY <1>5 DEF Refuse
<1>6. ASSUME NEW a \in Actors, SaveFails(a) PROVE TypeInv'
  BY <1>6 DEF SaveFails
<1>7. ASSUME NEW a \in Actors, Save(a) PROVE TypeInv'
  <2> DEFINE c == Result(seen[a], form[a])
  <2>1. /\ pc[a] = "loaded" /\ form[a] \in AllForms
        /\ Allowed(seen[a], form[a], a \in Web)
    BY <1>7 DEF Save, Accepted
  <2>2. AppConfig(c)
    BY <2>1, ResultTyped
  <2>3. owed' \subseteq Providers
    BY <1>7, <2>1, FormsByKind DEF Save, Promises
  <2>4. /\ db' = c /\ router' = router /\ form' = form
        /\ server' = server /\ start' = start
        /\ submitted' = submitted /\ committed' = committed \cup {c}
        /\ seen' = [seen EXCEPT ![a] = c]
    BY <1>7 DEF Save
  <2>5. /\ \E l \in Locations : pc' = [pc EXCEPT ![a] = l]
        /\ answer' \in [Actors -> {"none", "done", "refused", "error"}]
        /\ strays' \subseteq Strays
    BY <1>7 DEF Save
  <2> HIDE DEF c
  <2> QED
    BY <2>1, <2>2, <2>3, <2>4, <2>5
<1>8. ASSUME NEW a \in Actors, Store(a) PROVE TypeInv'
  BY <1>8 DEF Store
<1>9. CASE Stop
  BY <1>9, EmptyMap DEF Stop
<1>10. CASE StartLoads
  BY <1>10, ConfigParts DEF StartLoads
<1>11. CASE StartServes
  <2>1. AppConfig([providers |-> start, routes |-> db.routes])
    BY ConfigParts
  <2> QED
    BY <1>11, <2>1, EmptyMap DEF StartServes
<1>12. CASE StartFails
  BY <1>12, EmptyMap, DefaultTyped DEF StartFails
<1>13. CASE UNCHANGED vars
  BY <1>13 DEF vars
<1> QED
  BY <1>1, <1>2, <1>3, <1>4, <1>5, <1>6, <1>7, <1>8, <1>9, <1>10, <1>11,
     <1>12, <1>13
  DEF Next, Handler

\* However handlers overlap, restart and fail, what is saved, served and held
\* by a handler is a configuration: no form makes anything else of one.
THEOREM TypeCorrect == Spec => []TypeOK
<1>1. TypeInv => TypeOK
  BY DEF TypeInv
<1> QED
  BY <1>1, TypeInit, TypeSteps, PTL DEF Spec

\* What makes ClosedUnlessStray inductive: what the database ever held is
\* closed, and so is what a handler loaded or saved.
ClosedInv ==
    strays \cap {"torn", "shell"} = {} =>
        /\ \A c \in committed : Closed(c)
        /\ \A a \in Actors : pc[a] \in {"loaded", "saved"} => Closed(seen[a])

LEMMA DefaultClosed == Closed(DefaultConfig)
<1>1. DefaultConfig.routes = <<>>
  BY DEF DefaultConfig
<1> QED
  BY <1>1, EmptyMap DEF Closed

LEMMA ClosedInit == Init => ClosedInv
BY DefaultClosed DEF Init, ClosedInv

LEMMA ClosedSteps ==
    ASSUME TypeInv, CommittedInv, ClosedInv, [Next]_vars
    PROVE  ClosedInv'
<1> USE DEF ClosedInv, history, serverVars
<1>0. pc \in [Actors -> Locations] /\ seen = [a \in Actors |-> seen[a]]
  BY DEF CommittedInv
<1>1. ASSUME NEW a \in Actors, Submit(a) PROVE ClosedInv'
  BY <1>0, <1>1 DEF Submit
<1>2. ASSUME NEW a \in Actors, LoadProviders(a) PROVE ClosedInv'
  BY <1>0, <1>2 DEF LoadProviders
<1>3. ASSUME NEW a \in Actors, LoadRoutes(a) PROVE ClosedInv'
  <2>1. /\ strays' = IF seen'[a] \in committed THEN strays
                                               ELSE strays \cup {"torn"}
        /\ committed' = committed
        /\ pc' = [pc EXCEPT ![a] = "loaded"]
        /\ \A b \in Actors \ {a} : seen'[b] = seen[b]
    BY <1>0, <1>3 DEF LoadRoutes
  <2> QED
    BY <1>0, <2>1
<1>4. ASSUME NEW a \in Actors, LoadFails(a) PROVE ClosedInv'
  BY <1>0, <1>4, DefaultClosed DEF LoadFails
<1>5. ASSUME NEW a \in Actors, Refuse(a) PROVE ClosedInv'
  BY <1>0, <1>5 DEF Refuse
<1>6. ASSUME NEW a \in Actors, SaveFails(a) PROVE ClosedInv'
  BY <1>0, <1>6 DEF SaveFails
<1>7. ASSUME NEW a \in Actors, Save(a) PROVE ClosedInv'
  <2> DEFINE c == Result(seen[a], form[a])
  <2>1. /\ pc[a] = "loaded" /\ form[a] \in AllForms /\ AppConfig(seen[a])
        /\ Allowed(seen[a], form[a], a \in Web)
    BY <1>7, ControlPlaneAssumption DEF Save, Accepted, TypeInv, TypeOK
  <2>2. /\ committed' = committed \cup {c}
        /\ seen' = [seen EXCEPT ![a] = c]
        /\ \E l \in {"saved", "idle"} : pc' = [pc EXCEPT ![a] = l]
        /\ strays \subseteq strays'
        /\ a \notin Web /\ form[a].kind = "route" /\ ~Closed(c)
                => "shell" \in strays'
    BY <1>7 DEF Save
  <2>3. ASSUME strays' \cap {"torn", "shell"} = {} PROVE Closed(c)
    <3>1. Closed(seen[a])
      BY <2>1, <2>2, <2>3
    <3>2. CASE form[a].kind = "route" => a \in Web
      BY <2>1, <3>1, <3>2, ResultClosed
    <3>3. CASE form[a].kind = "route" /\ a \notin Web
      BY <2>2, <2>3, <3>3
    <3> QED
      BY <3>2, <3>3
  <2> HIDE DEF c
  <2> QED
    BY <1>0, <2>2, <2>3
<1>8. ASSUME NEW a \in Actors, Store(a) PROVE ClosedInv'
  BY <1>0, <1>8 DEF Store
<1>9. CASE Stop
  BY <1>0, <1>9 DEF Stop
<1>10. CASE StartLoads \/ StartServes \/ StartFails
  BY <1>10 DEF StartLoads, StartServes, StartFails
<1>11. CASE UNCHANGED vars
  BY <1>11 DEF vars
<1> QED
  BY <1>1, <1>2, <1>3, <1>4, <1>5, <1>6, <1>7, <1>8, <1>9, <1>10, <1>11
  DEF Next, Handler

\* No route is ever saved or served empty or with a provider that does not
\* exist, whichever handlers overlap, restart or fail, but for a torn load, a
\* route added at a shell and, for what is served, a start that a shell
\* overtook.
THEOREM StaysClosed == Spec => []ClosedUnlessStray
<1>1. CommittedInv /\ ClosedInv => ClosedUnlessStray
  BY DEF CommittedInv, ClosedInv, ClosedUnlessStray
<1>2. TypeInv /\ CommittedInv /\ ClosedInv /\ [Next]_vars => ClosedInv'
  BY ClosedSteps
<1> QED
  BY <1>1, <1>2, TypeInit, TypeSteps, CommittedInit, CommittedSteps,
     ClosedInit, PTL DEF Spec
=============================================================================
