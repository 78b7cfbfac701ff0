---------------------------- MODULE MCLiveBuffer ----------------------------
(* Commands for the live buffer: a receiver, capture rules with and without *)
(* the automatic trigger and the reclaiming of full captures, small pools,  *)
(* and a command whose second group is invalid.                             *)
EXTENDS LiveBuffer

receiver(ok) == [group |-> "receiver", val |-> [ok |-> ok]]
rule(e, N, N0, a, v) ==
  [group |-> "capture", enabled |-> e,
   val |-> [N |-> N, N0 |-> N0, auto |-> a, vampire |-> v]]
buffer(m, k) == [group |-> "buffer", val |-> [max |-> m, chunks |-> k]]

BufSet == { <<receiver(TRUE), rule(TRUE, 4, 3, TRUE, TRUE), buffer(1, 2)>>,
            <<receiver(TRUE), rule(TRUE, 3, 3, FALSE, FALSE), buffer(2, 1)>>,
            <<rule(TRUE, 2, 3, FALSE, FALSE)>>,
            <<rule(FALSE, 2, 1, FALSE, FALSE)>> }
=============================================================================
