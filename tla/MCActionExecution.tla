------------------------- MODULE MCActionExecution --------------------------
(* Small instances of ActionExecution for TLC. *)
EXTENDS ActionExecution

(* A dry run, and applying with and without stopping at a failure: the     *)
(* reads or the writes run short before the second action.               *)
MCPolicies ==
    [mode : {"apply"}, stop : BOOLEAN, reads : {3}, writes : {2}]
      \cup [mode : {"apply"}, stop : BOOLEAN, reads : {4}, writes : {1}]
      \cup [mode : {"dry-run"}, stop : {TRUE}, reads : {1}, writes : {1}]

ApplyOnce == [mode : {"apply"}, stop : {TRUE}, reads : {2}, writes : {1}]

(* Plans are made on remediations nobody touched, on ones where somebody   *)
(* left a comment only, and on ones the producer has decided otherwise.    *)
MCPlanned == {Untouched, [status |-> "NEW", by |-> "human"],
              [status |-> "IGNORED", by |-> "wintermute"]}
=============================================================================
