--------------------------- MODULE MCConfigReload ---------------------------
EXTENDS ConfigReload

CONSTANTS r1, r2, w1, w2

\* One NSQ consumer per repository; every HTTP request may be for any of them.
PerRepo == [w \in Workers |-> IF w = w1 THEN {r1} ELSE {r2}]
AnyRepo == [w \in Workers |-> Repos]

Act(n, s) == [name |-> n, schedule |-> s]
Listed(actions) == [kind |-> "list", actions |-> actions]

(***************************************************************************)
(* A scheduled action followed by one that runs on events only, an empty   *)
(* list, a schedule AddFunc refuses, no file, and a body that is no list.  *)
(***************************************************************************)
TwoFiles == { Listed(<<Act("prune", "valid"), Act("label", "none")>>),
              [kind |-> "missing", actions |-> <<>>] }
AllFiles == TwoFiles \cup { [kind |-> "garbage", actions |-> <<>>],
                            Listed(<<Act("prune", "unparsable")>>) }

FirstPage == {TRUE}
AnyPage == BOOLEAN
PairFile == { Listed(<<Act("prune", "valid"), Act("label", "none")>>) }

=============================================================================
