------------------------- MODULE AtomicControlPlane -------------------------
(***************************************************************************)
(* What an administrator expects of the control plane: there is one        *)
(* configuration; a form is judged against it and applied to it in one     *)
(* step; and what the gateway serves follows it.                           *)
(***************************************************************************)
EXTENDS Config

CONSTANTS
    Actors,     \* administrators, at the web interface or at a shell
    Web,        \* those at the web interface
    Forms       \* the forms they submit

VARIABLES
    config,     \* the configuration
    served,     \* the configuration the gateway answers requests with
    outcome     \* what each actor knows of the last form

vars == <<config, served, outcome>>

Init ==
    /\ config = DefaultConfig
    /\ served = config
    /\ outcome = [a \in Actors |-> "none"]

\* A new form: the outcome of the one before is forgotten.
Submit(a) ==
    /\ outcome' = [outcome EXCEPT ![a] = "none"]
    /\ UNCHANGED <<config, served>>

\* A form is accepted, and applied.
Perform(a) ==
    \E f \in Forms :
        /\ Allowed(config, f, a \in Web)
        /\ config' = Result(config, f)
        /\ outcome' = [outcome EXCEPT ![a] = "done"]
        /\ UNCHANGED served

\* A form is refused, with good reason.
Refuse(a) ==
    \E f \in Forms :
        /\ ~Allowed(config, f, a \in Web)
        /\ outcome' = [outcome EXCEPT ![a] = "refused"]
        /\ UNCHANGED <<config, served>>

\* A form fails and has no effect.
Fail(a) ==
    /\ outcome' = [outcome EXCEPT ![a] = "error"]
    /\ UNCHANGED <<config, served>>

\* The gateway takes over the configuration: all of it, and as it is now.
Publish ==
    /\ served' = config
    /\ UNCHANGED <<config, outcome>>

\* The gateway stops: those at the web interface learn nothing.
Stop ==
    /\ outcome' = [a \in Actors |-> IF a \in Web THEN "none" ELSE outcome[a]]
    /\ UNCHANGED <<config, served>>

Next ==
    \/ \E a \in Actors : Submit(a) \/ Perform(a) \/ Refuse(a) \/ Fail(a)
    \/ Publish
    \/ Stop

Spec == Init /\ [][Next]_vars
=============================================================================
