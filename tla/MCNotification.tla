--------------------------- MODULE MCNotification ---------------------------
(***************************************************************************)
(* Instances of Notification for TLC.                                      *)
(***************************************************************************)
EXTENDS Notification

\* The default spec: on change only, the default cooldown.
Usual == [ref |-> TRUE, cooldown |-> 0, onChangeOnly |-> TRUE, dryRun |-> FALSE,
          channels |-> {"slack", "email"}]

\* Specs for every branch: the usual one, one without a plan, one without
\* channels, and a dry run that repeats unchanged snapshots.
AllSpecs == {Usual, [Usual EXCEPT !.ref = FALSE], [Usual EXCEPT !.channels = {}],
             [Usual EXCEPT !.dryRun = TRUE, !.onChangeOnly = FALSE, !.cooldown = 1]}
=============================================================================
