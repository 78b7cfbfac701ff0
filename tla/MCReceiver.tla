----------------------------- MODULE MCReceiver -----------------------------
(* Model values and bounds for Receiver: frames of one, two and four units  *)
(* in a buffer of twelve, transferred four at a time.                       *)
EXTENDS Receiver

CONSTANTS t1, t2, t3, s1

MCTicket == {t1, t2, t3}
MCSub    == {s1}

\* The modes of the run, and the length of a packet of each.
MCMode      == {"DRX", "TBS4", "TBS12"}
MCFrameSize == [m \in MCMode |-> CASE m = "DRX"  -> 2
                                   [] m = "TBS4" -> 1
                                   [] m = "TBS12" -> 4]

MCGeom == {GeomOf(m) : m \in MCMode}
=============================================================================
