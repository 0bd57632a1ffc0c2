---------------------------- MODULE MCBuildTriage ----------------------------
(***************************************************************************)
(* Instances of BuildTriage for TLC.  Of the two contexts one fails and    *)
(* recovers, the other ends in an error.  A pull request to master with    *)
(* the default settings of rebuild, and one to another branch with both    *)
(* contexts in the setting but not all the states that fail.               *)
(***************************************************************************)
EXTENDS BuildTriage

CONSTANTS janky, windows

MCReports == {<<janky, "failure">>, <<janky, "success">>, <<windows, "error">>}
MCSetups ==
    { [configurations |-> {}, statuses |-> {}, master |-> TRUE],
      [configurations |-> {janky, windows}, statuses |-> {"error"}, master |-> FALSE] }

=============================================================================
