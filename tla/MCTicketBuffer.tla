--------------------------- MODULE MCTicketBuffer ---------------------------
(* Model values and bounds for TicketBuffer.                               *)
EXTENDS TicketBuffer

CONSTANTS t1, t2, s1, s2

MCTicket == {t1, t2}
MCSub    == {s1, s2}

\* Two frame sizes over one data area: 13 / 3 / 2 gives two tickets with
\* bytes left over, 13 / 4 / 2 gives one.
MCGeom == {[size |-> 13, framesize |-> 3, framesPerTicket |-> 2],
           [size |-> 13, framesize |-> 4, framesPerTicket |-> 2]}
=============================================================================
