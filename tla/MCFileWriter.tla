---------------------------- MODULE MCFileWriter ----------------------------
(* Model values and bounds for FileWriter: a writer and one other          *)
(* subscriber over two tickets of one geometry.                            *)
EXTENDS FileWriter

CONSTANTS t1, t2, w, s

MCTicket == {t1, t2}
MCSub    == {w, s}
MCGeom   == {[size |-> 13, framesize |-> 3, framesPerTicket |-> 2]}
=============================================================================
