--------------------------- MODULE MCBridgePower ---------------------------
(***************************************************************************)
(* BridgePower with schedules of a few seconds.                            *)
(***************************************************************************)
EXTENDS BridgePower

Plan(i, d, si, sd, a) ==
  [interval |-> i, duration |-> d, subInterval |-> si, subDuration |-> sd, alignment |-> a]

MCDefaults == Plan(5, 3, 2, 1, 2)
MCLimits == [f \in Field |-> IF f = "alignment" THEN 0..5 ELSE 1..6]

Stored(p, t, e, s) ==
  [f \in Field \cup {"ticks", "enabled", "subsampling"} |->
     CASE f = "ticks" -> t [] f = "enabled" -> e [] f = "subsampling" -> s
       [] OTHER -> p[f]]

\* An ordinary schedule on either clock; a sample longer than its interval; a
\* subsample that outlasts its sample, with an interval out of range; and a
\* sample as long as its interval, for which the controller is turned off.
MCSettings ==
  {Stored(Plan(5, 3, 2, 1, 2), FALSE, TRUE, TRUE),
   Stored(Plan(5, 3, 2, 1, 2), TRUE, TRUE, FALSE),
   Stored(Plan(3, 5, 2, 3, 0), TRUE, TRUE, TRUE),
   Stored(Plan(9, 4, 3, 2, 3), TRUE, TRUE, TRUE),
   Stored(Plan(4, 4, 2, 2, 0), FALSE, TRUE, TRUE)}
=============================================================================
