------------------------------ MODULE MCParts -------------------------------
(***************************************************************************)
(* The parts that work for themselves, in one model: a behaviour is one of  *)
(* a copy or dump, a staged buffer, the accumulators, a pair of time slots, *)
(* a frame source, two runs of Msender, a clock, or one exchange of         *)
(* datagrams.  The others rest in one of their initial states.              *)
(***************************************************************************)
EXTENDS Transfer, StagedBuffer, Stokes, MCTimeSlots, FrameSource, Commander,
        Calendar, Messages

VARIABLE part

slotVars  == <<slotA, slotB>>
partsVars == <<part, trVars, sbVars, stVars, slotVars, srcVars, cmVars, calVars, msgVars>>

-----------------------------------------------------------------------------
(* Requests *)

\* Whole and broken last chunks, nothing at all, with and without bytes of
\* the file behind the range.
MCJobs == {[kind |-> k, size |-> z, chunk |-> 2, offset |-> 1, len |-> l] :
             k \in {"copy", "dump"}, z \in {0, 3, 4}, l \in {5, 6}}

Sample(s, i, f) == <<((f * s + i) % 5) - 2, ((f + s * i * 3) % 7) - 3>>
MCInputs == {<<[i \in 1 .. L |-> [f \in 0 .. K - 1 |-> Sample(1, i, f)]],
               [i \in 1 .. L |-> [f \in 0 .. K - 1 |-> Sample(3, i + 1, f)]]>>}

\* Leap days, ends of months and of years, centuries.
MCDates == {[year |-> yr, month |-> md[1], day |-> md[2]] :
              yr \in {1970, 1999, 2000, 2024, 2026, 2099, 2100},
              md \in {<<2, 27>>, <<6, 29>>, <<12, 30>>}}

Plain == [type |-> "PNG", reference |-> 0, expect |-> {}, accepted |-> "none",
          timeout |-> TRUE, noListen |-> FALSE, text |-> "consistent", destination |-> "mine"]
Get   == [Plain EXCEPT !.type = "GET", !.reference = 1, !.expect = {"reference", "type"}, !.timeout = FALSE]
Rec   == [Plain EXCEPT !.type = "REC", !.reference = 2, !.expect = {"reference"}, !.destination = "ALL"]
Again == [Rec EXCEPT !.reference = 3, !.timeout = FALSE]
Odd   == [Plain EXCEPT !.accepted = "A", !.timeout = FALSE, !.text = "inconsistent"]
Ext   == [Plain EXCEPT !.type = "EXT", !.reference = 6, !.expect = {"reference"}, !.timeout = FALSE]
Sht   == [Plain EXCEPT !.type = "SHT", !.reference = 5, !.expect = {"type"}, !.timeout = FALSE]
MCCommandLines ==
  {[r \in Run |-> IF r = "first" THEN p[1] ELSE p[2]] :
     p \in {<<Get, Rec>>, <<Again, Rec>>, <<Sht, Rec>>, <<Ext, Get>>, <<[Plain EXCEPT !.noListen = TRUE], Get>>,
            <<Odd, [Plain EXCEPT !.type = "BAD"]>>,
            <<[Plain EXCEPT !.text = "invalid"], [Plain EXCEPT !.destination = "other"]>>,
            <<[Plain EXCEPT !.accepted = "Accepted"], Get>>}}

\* Short and full fields; no data, all that fits, and one byte more; a
\* day number that fills its field.
MCWidth == [ref |-> 4, len |-> 3, mjd |-> 3, mpm |-> 4]
Telling(ref, mjdNow, n) ==
  [to |-> 20, from |-> 21, type |-> 22, ref |-> ref, mjd |-> mjdNow, mpm |-> 15 - ref,
   data |-> Of(Letter, n)]
MCSendings == {Telling(r, d, n) : r \in {0, 1, 5, 15}, d \in {0, 1, 3, 7}, n \in {0, 1, 3, 6, 7}}
Replying(n, bin) ==
  [accept |-> n % 2 = 0, status |-> Of(30, 1 + (n % 3)), mjd |-> 3, mpm |-> 2 * n,
   comment |-> Of(Letter, n), binary |-> bin]
MCReplies == {Replying(n, bin) : n \in {0, 1, 3, 4}, bin \in BOOLEAN}

-----------------------------------------------------------------------------
RestSlot == TimeSlot(TimeStamp(1, 0), 0)

PartsInit ==
  /\ part \in {"transfer", "buffer", "stokes", "slots", "source", "commander", "clock", "message"}
  /\ TrInit
  /\ part # "transfer" => job = [kind |-> "copy", size |-> 3, chunk |-> 2, offset |-> 1, len |-> 5]
  /\ SbInit
  /\ part # "buffer" => object = [i \in DOMAIN object |-> CHOOSE v \in Val : TRUE]
  /\ StInit
  /\ part # "stokes" => mode = "I"
  /\ IF part = "slots" THEN MCInit ELSE slotA = RestSlot /\ slotB = RestSlot
  /\ SrcInit
  /\ part # "source" => srcMode = "DRX" /\ numFrames = 2 /\ duration = 0
  /\ CmInit
  /\ part # "commander" => opts = [r \in Run |-> IF r = "first" THEN Get ELSE Rec]
  /\ CalInit
  /\ part # "clock" => date = [year |-> 1970, month |-> 2, day |-> 27] /\ tod = 0
  /\ MsgInit
  /\ part # "message" => sending = Telling(0, 1, 0) /\ reply = Replying(0, FALSE)

PartsNext ==
  \/ part = "transfer" /\ TrNext /\ UNCHANGED <<part, sbVars, stVars, slotVars, srcVars, cmVars, calVars, msgVars>>
  \/ part = "buffer" /\ SbNext /\ UNCHANGED <<part, trVars, stVars, slotVars, srcVars, cmVars, calVars, msgVars>>
  \/ part = "stokes" /\ StNext /\ UNCHANGED <<part, trVars, sbVars, slotVars, srcVars, cmVars, calVars, msgVars>>
  \/ part = "source" /\ SrcNext /\ UNCHANGED <<part, trVars, sbVars, stVars, slotVars, cmVars, calVars, msgVars>>
  \/ part = "commander" /\ CmNext /\ UNCHANGED <<part, trVars, sbVars, stVars, slotVars, srcVars, calVars, msgVars>>
  \/ part = "clock" /\ CalNext /\ UNCHANGED <<part, trVars, sbVars, stVars, slotVars, srcVars, cmVars, msgVars>>
  \/ part = "message" /\ MsgNext /\ UNCHANGED <<part, trVars, sbVars, stVars, slotVars, srcVars, cmVars, calVars>>

\* Nothing of a resting Commander is enabled.
PartsSpec ==
  /\ PartsInit /\ [][PartsNext]_partsVars
  /\ CmFairness /\ WF_trVars(part = "transfer" /\ trThread)

\* What was begun comes to an end: a transfer, a run with a timeout, and a run
\* without one whose datagrams arrive.
PartsEnd == TransferEnds /\ ClientEnds /\ AnswerArrives
=============================================================================
