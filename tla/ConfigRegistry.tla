--------------------------- MODULE ConfigRegistry ---------------------------
(***************************************************************************)
(* What the configuration registry promises to a repository, whatever the  *)
(* steps of a reload are: it has at most one scheduler at a time, a        *)
(* configuration is in force only once its scheduler is the running one,   *)
(* and an older configuration never replaces a newer one.                  *)
(***************************************************************************)
EXTENDS Naturals

CONSTANTS Repos, None

VARIABLES
    live,      \* the schedulers that run for a repository
    stored     \* the scheduler of the configuration in force, or None

vars == <<live, stored>>

Init ==
    /\ live = [r \in Repos |-> {}]
    /\ stored = [r \in Repos |-> None]

\* The scheduler in force is stopped, to be replaced.
Retire(r) ==
    /\ live[r] = {stored[r]}
    /\ live' = [live EXCEPT ![r] = {}]
    /\ UNCHANGED stored

\* A scheduler starts for a configuration at least as recent, when none runs.
Install(r) ==
    /\ live[r] = {}
    /\ \E s \in live'[r] : /\ live' = [live EXCEPT ![r] = {s}]
                           /\ stored[r] # None => s.ver >= stored[r].ver
                           /\ s # stored[r]
    /\ UNCHANGED stored

\* The configuration whose scheduler runs becomes the one in force.
Publish(r) ==
    /\ \E s \in live[r] : stored' = [stored EXCEPT ![r] = s]
    /\ UNCHANGED live

\* The process dies.
Reset ==
    /\ live' = [r \in Repos |-> {}]
    /\ stored' = [r \in Repos |-> None]

Next ==
    \/ \E r \in Repos : Retire(r) \/ Install(r) \/ Publish(r)
    \/ Reset

Spec == Init /\ [][Next]_vars

=============================================================================
