------------------------------ MODULE Pipeline ------------------------------
(***************************************************************************)
(* What a multi-stage buffer promises: objects enter, pass every stage in  *)
(* order and leave, each exactly as it was put in; there is room for a     *)
(* fixed number of them.                                                   *)
(***************************************************************************)
EXTENDS Naturals, Sequences

CONSTANTS
  Stages,     \* number of stages
  Capacity,   \* number of objects
  Value       \* what an object may hold

VARIABLE line   \* line[s]: the objects in stage s, the oldest first

InStages == 0 .. Stages - 1

PipeInit == line = [s \in InStages |-> <<>>]

\* Objects in the stages up to s.
Held[s \in InStages] == Len(line[s]) + (IF s = 0 THEN 0 ELSE Held[s - 1])

Insert(v) ==
  /\ Held[Stages - 1] < Capacity
  /\ line' = [line EXCEPT ![0] = Append(@, v)]

Pass(s) ==
  /\ line[s] # <<>>
  /\ line' = [t \in InStages |->
                IF t = s THEN Tail(line[t])
                ELSE IF t = s + 1 THEN Append(line[t], Head(line[s]))
                ELSE line[t]]

Clear == line' = [s \in InStages |-> <<>>]

PipeNext == (\E v \in Value : Insert(v)) \/ (\E s \in InStages : Pass(s)) \/ Clear

PipeSpec == PipeInit /\ [][PipeNext]_line
=============================================================================
