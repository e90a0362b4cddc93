---------------------------- MODULE ControlPlane ----------------------------
(***************************************************************************)
(* The control plane: administrators at the web interface (the handlers of *)
(* src/src/web.rs, one task each) and at a shell (`fustapi providers add`, *)
(* `fustapi routes add` in src/src/main.rs, a process each), the SQLite    *)
(* database, and the router the server answers requests with.              *)
(*                                                                         *)
(* Every handler does the same: it loads the whole configuration (two      *)
(* SELECTs that share no transaction), judges the form against what it     *)
(* loaded, changes its copy, saves the whole copy (one transaction), and,  *)
(* in the server, replaces the router by one built from the copy.  Nothing *)
(* keeps two handlers apart.  The server loads in the same way when it     *)
(* starts, before it listens, and nothing keeps it apart from a shell.     *)
(*                                                                         *)
(* A load that fails is taken for an empty configuration.                  *)
(***************************************************************************)
EXTENDS Config

CONSTANTS
    Actors,     \* administrators
    Web,        \* those at the web interface; the others are at a shell
    Forms,      \* the forms they submit
    MaxForms,   \* bound: the forms submitted in all
    Faults,     \* what may go wrong: "load", "save", "restart"
    OneAtATime  \* whether the administrators do one thing at a time: submit a
                \* form only when no other is under way, and start the server
                \* only when no command is

ASSUME ControlPlaneAssumption ==
    /\ Web \subseteq Actors
    /\ Forms \subseteq AllForms
    /\ MaxForms \in Nat
    /\ Faults \subseteq {"load", "save", "restart"}
    /\ OneAtATime \in BOOLEAN

VARIABLES
    db,         \* the tables, as the configuration they hold
    router,     \* the RouterStore, as the configuration it was built from; of a
                \* server that does not run, the one it had
    server,     \* whether the server runs
    start,      \* the providers that a starting server has loaded
    pc,         \* where an actor's handler is
    form,       \* the form it handles
    seen,       \* its copy of the configuration
    answer,     \* how its last form ended
    submitted,  \* the number of forms submitted so far
    committed,  \* history: the configurations the database held
    owed,       \* history: the providers saved on purpose and not removed
    strays      \* history: what has happened that upsets a configuration

serverVars == <<server, start>>

vars == <<db, router, serverVars, pc, form, seen, answer, submitted, committed, owed, strays>>

history == <<committed, owed, strays>>

Locations == {"idle", "providers", "routes", "loaded", "saved"}

\* "torn": a handler's load saw a mix of two configurations.  "shell": a shell
\* saved a route whose providers do not exist.  "unserved": a shell's save is
\* not yet served.  "overtaken": a shell saved while a starting server was
\* between its two SELECTs.
Strays == {"torn", "shell", "unserved", "overtaken"}

NoForm == [kind |-> "none"]

TypeOK ==
    /\ AppConfig(db) /\ AppConfig(router)
    /\ server \in {"up", "stopped", "starting"}
    /\ start \in MapOf(Providers, Keys \cup {NoKey})
    /\ pc \in [Actors -> Locations]
    /\ form \in [Actors -> Forms \cup {NoForm}]
    /\ seen = [a \in Actors |-> seen[a]]
    /\ \A a \in Actors : AppConfig(seen[a])
    /\ answer \in [Actors -> {"none", "done", "refused", "error"}]
    /\ submitted \in 0 .. MaxForms
    /\ \A c \in committed : AppConfig(c)
    /\ owed \subseteq Providers
    /\ strays \subseteq Strays

Quiet == server # "starting" /\ \A a \in Actors : pc[a] = "idle"

\* A fresh installation: an empty database, and a router built from it.
Init ==
    /\ db = DefaultConfig
    /\ router = db
    /\ server = "up"
    /\ start = <<>>
    /\ pc = [a \in Actors |-> "idle"]
    /\ form = [a \in Actors |-> NoForm]
    /\ seen = [a \in Actors |-> DefaultConfig]
    /\ answer = [a \in Actors |-> "none"]
    /\ submitted = 0
    /\ committed = {db}
    /\ owed = {}
    /\ strays = {}

-----------------------------------------------------------------------------
(* The steps of a handler.                                                 *)

\* The command line has no command but these two, and no overrides.
ForShell(f) == f.kind = "create" \/ (f.kind = "route" /\ f.up = <<>>)

Submit(a) ==
    /\ pc[a] = "idle"
    /\ OneAtATime => Quiet
    /\ a \in Web => server = "up"
    /\ submitted < MaxForms
    /\ \E f \in Forms :
        /\ a \notin Web => ForShell(f)
        /\ form' = [form EXCEPT ![a] = f]
    /\ pc' = [pc EXCEPT ![a] = "providers"]
    /\ answer' = [answer EXCEPT ![a] = "none"]
    /\ submitted' = submitted + 1
    /\ UNCHANGED <<db, router, serverVars, seen, history>>

\* Variant of LoadProviders that keeps a copy loaded before.
LoadProviders_Cached(a) ==
    /\ pc[a] = "providers"
    /\ seen' = IF seen[a] = DefaultConfig
               THEN [seen EXCEPT ![a].providers = db.providers]
               ELSE seen
    /\ pc' = [pc EXCEPT ![a] = "routes"]
    /\ UNCHANGED <<db, router, serverVars, form, answer, submitted, history>>

\* load_from_db: the first SELECT, and then the second.
LoadProviders(a) ==
    /\ pc[a] = "providers"
    /\ seen' = [seen EXCEPT ![a].providers = db.providers]
    /\ pc' = [pc EXCEPT ![a] = "routes"]
    /\ UNCHANGED <<db, router, serverVars, form, answer, submitted, history>>

LoadRoutes(a) ==
    /\ pc[a] = "routes"
    /\ seen' = [seen EXCEPT ![a].routes = db.routes]
    /\ pc' = [pc EXCEPT ![a] = "loaded"]
    /\ strays' = IF seen'[a] \in committed THEN strays ELSE strays \cup {"torn"}
    /\ UNCHANGED <<db, router, serverVars, form, answer, submitted, committed, owed>>

\* load_config: an error, wherever it comes, yields the default.
LoadFails(a) ==
    /\ "load" \in Faults
    /\ pc[a] \in {"providers", "routes"}
    /\ seen' = [seen EXCEPT ![a] = DefaultConfig]
    /\ pc' = [pc EXCEPT ![a] = "loaded"]
    /\ UNCHANGED <<db, router, serverVars, form, answer, submitted, history>>

Accepted(a) == pc[a] = "loaded" /\ Allowed(seen[a], form[a], a \in Web)

\* 400, 404 or 409; at a shell, exit code 1.
Refuse(a) ==
    /\ pc[a] = "loaded"
    /\ ~Accepted(a)
    /\ pc' = [pc EXCEPT ![a] = "idle"]
    /\ answer' = [answer EXCEPT ![a] = "refused"]
    /\ UNCHANGED <<db, router, serverVars, form, seen, submitted, history>>

\* Variant of SaveFails that has replaced the router by then.
SaveFails_RouterReplaced(a) ==
    /\ "save" \in Faults
    /\ Accepted(a)
    /\ router' = Result(seen[a], form[a])
    /\ pc' = [pc EXCEPT ![a] = "idle"]
    /\ answer' = [answer EXCEPT ![a] = "error"]
    /\ UNCHANGED <<db, serverVars, form, seen, submitted, history>>

\* The transaction fails, and the answer is 500.
SaveFails(a) ==
    /\ "save" \in Faults
    /\ Accepted(a)
    /\ pc' = [pc EXCEPT ![a] = "idle"]
    /\ answer' = [answer EXCEPT ![a] = "error"]
    /\ UNCHANGED <<db, router, serverVars, form, seen, submitted, history>>

\* save_to_db: every row is deleted and the copy inserted, in a transaction.
\* A shell is done with that.
Save(a) ==
    LET c == Result(seen[a], form[a])
        dangling == form[a].kind = "route" /\ ~Closed(c)
    IN  /\ Accepted(a)
        /\ db' = c
        /\ seen' = [seen EXCEPT ![a] = c]
        /\ committed' = committed \cup {c}
        /\ owed' = (owed \ Removes(form[a])) \cup Promises(form[a])
        /\ IF a \in Web
           THEN /\ pc' = [pc EXCEPT ![a] = "saved"]
                /\ UNCHANGED <<answer, strays>>
           ELSE /\ pc' = [pc EXCEPT ![a] = "idle"]
                /\ answer' = [answer EXCEPT ![a] = "done"]
                /\ strays' = strays \cup {"unserved"}
                        \cup (IF dangling THEN {"shell"} ELSE {})
                        \cup (IF server = "starting" THEN {"overtaken"} ELSE {})
        /\ UNCHANGED <<router, serverVars, form, submitted>>

\* Variant of Store that forgets to exchange the router.
Store_Forgotten(a) ==
    /\ pc[a] = "saved"
    /\ UNCHANGED router
    /\ strays' = strays \ {"unserved"}
    /\ pc' = [pc EXCEPT ![a] = "idle"]
    /\ answer' = [answer EXCEPT ![a] = "done"]
    /\ UNCHANGED <<db, serverVars, form, seen, submitted, committed, owed>>

\* router_store.store(RealRouter::from_config(copy)); the answer is 200 or 201.
Store(a) ==
    /\ pc[a] = "saved"
    /\ router' = seen[a]
    /\ strays' = strays \ {"unserved"}
    /\ pc' = [pc EXCEPT ![a] = "idle"]
    /\ answer' = [answer EXCEPT ![a] = "done"]
    /\ UNCHANGED <<db, serverVars, form, seen, submitted, committed, owed>>

-----------------------------------------------------------------------------
(* The server stops and starts.                                            *)

\* At any moment, also while it starts; its handlers stop with it.
Stop ==
    /\ "restart" \in Faults
    /\ server # "stopped"
    /\ server' = "stopped"
    /\ start' = <<>>
    /\ pc' = [a \in Actors |-> IF a \in Web THEN "idle" ELSE pc[a]]
    /\ answer' = [a \in Actors |-> IF a \in Web THEN "none" ELSE answer[a]]
    /\ UNCHANGED <<db, router, form, seen, submitted, history>>

\* main: load_from_db before it listens: the first SELECT, and then the second.
StartLoads ==
    /\ server = "stopped"
    /\ OneAtATime => Quiet
    /\ server' = "starting"
    /\ start' = db.providers
    /\ UNCHANGED <<db, router, pc, form, seen, answer, submitted, history>>

\* The router is built from what the two found, and the server listens.
StartServes ==
    /\ server = "starting"
    /\ server' = "up"
    /\ start' = <<>>
    /\ router' = [providers |-> start, routes |-> db.routes]
    /\ strays' = IF router' = db THEN strays \ {"unserved"} ELSE strays
    /\ UNCHANGED <<db, pc, form, seen, answer, submitted, committed, owed>>

\* A load that fails yields the default here too.
StartFails ==
    /\ "load" \in Faults
    /\ server # "up"
    /\ server' = "up"
    /\ start' = <<>>
    /\ router' = DefaultConfig
    /\ UNCHANGED <<db, pc, form, seen, answer, submitted, history>>

Handler(a) ==
    \/ LoadProviders(a)
    \/ LoadRoutes(a)
    \/ LoadFails(a)
    \/ Refuse(a)
    \/ SaveFails(a)
    \/ Save(a)
    \/ Store(a)

Next ==
    \/ \E a \in Actors : Submit(a) \/ Handler(a)
    \/ Stop
    \/ StartLoads
    \/ StartServes
    \/ StartFails

Spec == Init /\ [][Next]_vars

\* A handler has no await in it: once it runs, it runs to its end, or to that
\* of the server.  A server that stopped is started, and if it keeps stopping
\* it does get through its start now and then.  Nobody has to submit a form,
\* and nothing has to fail.
FairSpec ==
    /\ Spec
    /\ \A a \in Actors : WF_vars(Handler(a))
    /\ WF_vars(StartLoads)
    /\ SF_vars(StartServes)
-----------------------------------------------------------------------------
(* Properties that hold however handlers overlap and whatever fails.       *)

\* The server answers requests with a configuration that was once saved as a
\* whole: never with one whose save failed, and never with a mix, also when it
\* stops and starts at any moment.  One thing upsets it, and the code does
\* nothing about it: a shell that saves between the two SELECTs of a server
\* that starts.
RouterServesCommitted == "overtaken" \notin strays => router \in committed

\* What is saved and what is served is closed (no route is empty or names a
\* provider that does not exist), whichever handlers overlap, restart or fail:
\* each saves a copy that was closed when it was loaded.  Only three things
\* upset it: a load torn between its two SELECTs, a route added at a shell,
\* where the providers' names are not checked, and, for what is served, a
\* start that a shell overtakes.
ClosedUnlessStray ==
    strays \cap {"torn", "shell"} = {} =>
        /\ Closed(db)
        /\ "overtaken" \notin strays => Closed(router)
-----------------------------------------------------------------------------
(* Properties that hold when the administrators do one thing at a time.    *)

\* "Persists to DB" (web.rs): a provider that a form created, or updated, is
\* in the database when nothing is under way, unless a form removed it.
SavedPersists == Quiet => owed \subseteq DOMAIN db.providers

\* When nothing is under way the server serves what the database holds, also
\* when it has stopped at any moment and started again; only a shell's save
\* waits for the next save at the web interface, or the next start.
QuietMeansInSync ==
    Quiet /\ server = "up" /\ "unserved" \notin strays => router = db

\* A change at the web interface is served in the end, even if the server
\* stops between the save and the exchange of the router.
ChangesAreServed == (router # db) ~> (router = db \/ "unserved" \in strays)

\* The control plane implements the one configuration an administrator thinks
\* of.  A form takes effect when it is saved.  (This needs OneAtATime for the
\* server's starts as well: see RouterServesCommitted.)
Atomic == INSTANCE AtomicControlPlane WITH
    config <- db,
    served <- router,
    outcome <- [a \in Actors |-> IF pc[a] = "saved" THEN "done" ELSE answer[a]]

ImplementsAtomic == Atomic!Spec
=============================================================================
