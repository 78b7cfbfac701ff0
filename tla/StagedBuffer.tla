---------------------------- MODULE StagedBuffer ----------------------------
(***************************************************************************)
(* GenericBuffer and ObjectBuffer (Buffers/GenericBuffer.cpp and .h,       *)
(* ObjectBuffer.hpp): a ring of objects with an index for the input and    *)
(* one for every stage.  One thread fills objects and one thread works on  *)
(* each stage.  nextIn and nextStage return a pointer; the object is       *)
(* written or read through it outside any lock; doneIn and doneStage move  *)
(* the index on.                                                           *)
(***************************************************************************)
EXTENDS Naturals, Sequences

CONSTANTS
  numStages,
  count,        \* the objCount the constructor is given
  Val

ASSUME StagedAssumption == numStages \in Nat \ {0} /\ count \in Nat \ {0}

VARIABLES
  stage_indices,
  object,       \* the objects
  filling,      \* index of the object nextIn returned, or NoSlot
  working       \* per stage, index of the object nextStage returned

sbVars == <<stage_indices, object, filling, working>>

\* One object more than asked for, so that a full ring is not an empty one.
objCount == count + 1
NoSlot   == objCount

RQ_USED(in, o) == IF in >= o THEN in - o ELSE in + objCount - o
RQ_FREEAll(in, o) == objCount - RQ_USED(in, o)
RQ_FREE(in, o)    == (objCount - 1) - RQ_USED(in, o)

Stage == 0 .. numStages - 1

SbInit ==
  /\ stage_indices = [i \in 0 .. numStages |-> 0]
  /\ object \in [0 .. objCount - 1 -> Val]
  /\ filling = NoSlot
  /\ working = [s \in Stage |-> NoSlot]

\* The producer: nextIn, the object is filled, doneIn.
nextIn ==
  /\ filling = NoSlot
  /\ RQ_FREE(stage_indices[0], stage_indices[numStages]) > 0
  /\ filling' = stage_indices[0]
  /\ UNCHANGED <<stage_indices, object, working>>

fill(v) ==
  /\ filling # NoSlot
  /\ object' = [object EXCEPT ![filling] = v]
  /\ UNCHANGED <<stage_indices, filling, working>>

doneIn ==
  /\ filling # NoSlot
  /\ stage_indices' = [stage_indices EXCEPT ![0] = (@ + 1) % objCount]
  /\ filling' = NoSlot
  /\ UNCHANGED <<object, working>>

\* The thread of stage s: nextStage, the object is used, doneStage.
usedInStageBehind(s) == RQ_USED(stage_indices[0], stage_indices[s + 1])
usedInStage(s)       == RQ_USED(stage_indices[s], stage_indices[s + 1])

nextStage(s) ==
  /\ working[s] = NoSlot
  /\ usedInStage(s) > 0
  /\ working' = [working EXCEPT ![s] = stage_indices[s + 1]]
  /\ UNCHANGED <<stage_indices, object, filling>>

doneStage(s) ==
  /\ working[s] # NoSlot
  /\ stage_indices' = [stage_indices EXCEPT ![s + 1] = (@ + 1) % objCount]
  /\ working' = [working EXCEPT ![s] = NoSlot]
  /\ UNCHANGED <<object, filling>>

\* reset is called when no thread uses the buffer.
reset ==
  /\ filling = NoSlot /\ \A s \in Stage : working[s] = NoSlot
  /\ stage_indices' = [i \in 0 .. numStages |-> 0]
  /\ UNCHANGED <<object, filling, working>>

SbNext ==
  \/ nextIn \/ (\E v \in Val : fill(v)) \/ doneIn
  \/ \E s \in Stage : nextStage(s) \/ doneStage(s)
  \/ reset

SbSpec == SbInit /\ [][SbNext]_sbVars

-----------------------------------------------------------------------------
\* The objects of stage s, the oldest first (peekStage with growing
\* peekAhead).
peekStage(s) ==
  [k \in 1 .. usedInStage(s) |-> object[(stage_indices[s + 1] + (k - 1)) % objCount]]

Ring == INSTANCE Pipeline WITH
  Stages <- numStages, Capacity <- count, Value <- Val,
  line <- [s \in Stage |-> peekStage(s)]

\* The stages are consecutive arcs of the ring, and the object being filled
\* lies outside all of them.
StagedTypeOK ==
  /\ stage_indices \in [0 .. numStages -> 0 .. objCount - 1]
  /\ \A s \in Stage :
       /\ usedInStage(s) <= RQ_USED(stage_indices[0], stage_indices[numStages])
       /\ working[s] # NoSlot => /\ working[s] = stage_indices[s + 1]
                                 /\ usedInStage(s) > 0
  /\ filling # NoSlot =>
       /\ filling = stage_indices[0]
       /\ RQ_FREE(stage_indices[0], stage_indices[numStages]) > 0

\* An object is not written to while a stage works on it or it waits for
\* one.
WorkUndisturbed ==
  [][\A s \in Stage : working[s] # NoSlot => object'[working[s]] = object[working[s]]]_sbVars

\* The ring is the pipeline it is used as.
RingIsPipeline == Ring!PipeSpec

\* The ring implements a line of queues, its stages are arcs that do not
\* overlap, and nobody writes to what another one works on.
RingImplements == RingIsPipeline /\ WorkUndisturbed /\ []StagedTypeOK
=============================================================================
