---------------------------- MODULE FrameSource ----------------------------
(***************************************************************************)
(* DataSource2: the program that stands in for the telescope.  It fills a   *)
(* table of frames once, then sends one frame after the other, with the     *)
(* header completed for the occasion, no faster than the mode's data rate   *)
(* and until its duration has passed.                                       *)
(*                                                                          *)
(* Time is counted in ticks and data in frames.  The samples of a frame are *)
(* left out; a frame is its time tag and what identifies it among the       *)
(* frames of that tag: tuning and polarisation, channel, or channel and     *)
(* baseline.                                                                *)
(***************************************************************************)
EXTENDS Naturals, Sequences, FiniteSets

CONSTANTS
  SourceModes,  \* of "DRX", "DRX8", "TBS", "TBT", "COR", "RAW": those the run may use
  TableSizes,   \* numFrames: -N
  BandCount,    \* channels of a TBS or TBT time tag (128)
  CorBands,     \* channels of a COR time tag (10)
  StandCount,   \* stands of a COR time tag (256)
  SourceRate,   \* frames per tick
  Durations,    \* -Duration in ticks, 0 for no end
  MaxSent,      \* bound on the frames sent
  NoFrame

ASSUME FrameSourceAssumption ==
  /\ {BandCount, CorBands, StandCount, SourceRate, MaxSent} \subseteq Nat \ {0}
  /\ TableSizes \cup Durations \subseteq Nat

VARIABLES
  srcMode, numFrames, duration,
  gen,        \* the static counters of next()
  frame,      \* the frame last sent
  group,      \* the frames sent with the time tag of that frame
  totalSent, runtime,
  srcPc       \* "loop", "govern", "end" or "failed"

srcVars == <<srcMode, numFrames, duration, gen, frame, group, totalSent, runtime, srcPc>>

-----------------------------------------------------------------------------
\* generate(): the polarisation a frame of the table is labelled with.
generatedPol(index) == index % 2

Zero == [tuning |-> 0, pol |-> 0, index |-> 0, curFrame |-> 0,
         band |-> 0, i |-> 1, j |-> 1, cur_frame |-> 0]

\* DrxFrameGenerator::next and Drx8FrameGenerator::next.
drxIndexPlain == (2 * gen.index) % numFrames
drxIndex == (2 * gen.index + gen.pol) % numFrames
drxFrame == [tag |-> gen.curFrame \div 4, key |-> <<gen.tuning, generatedPol(drxIndex)>>]

drxAdvance ==
  LET pol    == (gen.pol + 1) % 2
      tuning == IF pol = 0 THEN (gen.tuning + 1) % 2 ELSE gen.tuning
      index  == IF ~(pol = 0 /\ tuning = 0) THEN gen.index
                ELSE IF gen.index + 1 = numFrames \div 2 THEN 0 ELSE gen.index + 1
  IN  [gen EXCEPT !.pol = pol, !.tuning = tuning, !.index = index, !.curFrame = @ + 1]

\* The frame number goes round: the time tags begin again.
nextFrameNumberOn == gen.cur_frame + 1
nextFrameNumber == (gen.cur_frame + 1) % (numFrames \div 2 + 1)

\* TbsFrameGenerator::next and TbtFrameGenerator::next.
tbsFrame == [tag |-> gen.cur_frame, key |-> <<gen.band>>]
tbsAdvanceShort ==
  LET band == (gen.band + 1) % (BandCount - 1)
  IN  [gen EXCEPT !.band = band, !.cur_frame = IF band = 0 THEN nextFrameNumber ELSE @]
tbsAdvance ==
  LET band == (gen.band + 1) % BandCount
  IN  [gen EXCEPT !.band = band, !.cur_frame = IF band = 0 THEN nextFrameNumber ELSE @]

\* CorFrameGenerator::next.
corFrame == [tag |-> gen.cur_frame, key |-> <<gen.band, gen.i, gen.j>>]
corAdvance ==
  LET j    == IF gen.j = StandCount THEN 1 ELSE gen.j + 1
      i    == IF j # 1 THEN gen.i ELSE IF gen.i = StandCount THEN 1 ELSE gen.i + 1
      band == IF j = 1 /\ i = 1 THEN (gen.band + 1) % CorBands ELSE gen.band
  IN  [gen EXCEPT !.j = j, !.i = i, !.band = band,
                  !.cur_frame = IF j = 1 /\ i = 1 /\ band = 0 THEN nextFrameNumber ELSE @]

-----------------------------------------------------------------------------
\* What the command line may ask for.
Options ==
  /\ srcMode \in SourceModes
  /\ numFrames \in TableSizes
  /\ duration \in Durations

SrcInit ==
  /\ Options
  /\ gen = Zero
  /\ frame = NoFrame
  /\ group = <<>>
  /\ totalSent = 0 /\ runtime = 0
  /\ srcPc = "loop"

\* The head of the loop: the duration is over.
durationOver == duration # 0 /\ runtime >= duration
finish ==
  /\ srcPc = "loop" /\ durationOver
  /\ srcPc' = "end"
  /\ UNCHANGED <<srcMode, numFrames, duration, gen, frame, group, totalSent, runtime>>

Goes == srcPc = "loop" /\ ~durationOver /\ totalSent < MaxSent

\* next() takes an index modulo the size of the table: with one of no frames
\* (-N 0) that is a division by zero.
noTable ==
  /\ Goes /\ srcMode # "RAW" /\ numFrames = 0
  /\ srcPc' = "failed"
  /\ UNCHANGED <<srcMode, numFrames, duration, gen, frame, group, totalSent, runtime>>

Generates == Goes /\ numFrames # 0

\* Socket::send: the datagram leaves, or the attempts are used up, which
\* ends the program.
sendFrame(f) ==
  \/ /\ frame' = f
     /\ group' = IF frame # NoFrame /\ frame.tag = f.tag THEN Append(group, f.key) ELSE <<f.key>>
     /\ totalSent' = totalSent + 1
     /\ srcPc' = "govern"
  \/ srcPc' = "failed" /\ UNCHANGED <<frame, group, totalSent>>

sendDrx ==
  /\ Generates /\ srcMode = "DRX"
  /\ gen' = drxAdvance
  /\ sendFrame(drxFrame)
  /\ UNCHANGED <<srcMode, numFrames, duration, runtime>>

\* In 8-bit mode the generated frame is not the one that is sent: f_drx was
\* never set.  The program dies or sends whatever the pointer leads to.
sendDrx8 ==
  /\ Generates /\ srcMode = "DRX8"
  /\ gen' = drxAdvance
  /\ srcPc' \in {"failed", "govern"}
  /\ totalSent' = IF srcPc' = "govern" THEN totalSent + 1 ELSE totalSent
  /\ frame' = NoFrame
  /\ UNCHANGED <<srcMode, numFrames, duration, runtime, group>>

sendTbs ==
  /\ Generates /\ srcMode \in {"TBS", "TBT"}
  /\ gen' = tbsAdvance
  /\ sendFrame(tbsFrame)
  /\ UNCHANGED <<srcMode, numFrames, duration, runtime>>

sendCor ==
  /\ Generates /\ srcMode = "COR"
  /\ gen' = corAdvance
  /\ sendFrame(corFrame)
  /\ UNCHANGED <<srcMode, numFrames, duration, runtime>>

\* A raw packet: time of day, serial number and key; a short send is not
\* noticed.
sendRaw ==
  /\ Goes /\ srcMode = "RAW"
  /\ totalSent' \in {totalSent, totalSent + 1}
  /\ srcPc' = "govern"
  /\ UNCHANGED <<srcMode, numFrames, duration, gen, frame, group, runtime>>

\* The busy loop at the end of a turn.
aboveRateOne == totalSent > SourceRate * (runtime + 1)
aboveRate    == runtime = 0 \/ totalSent > SourceRate * runtime
govern ==
  /\ srcPc = "govern" /\ ~aboveRate
  /\ srcPc' = "loop"
  /\ UNCHANGED <<srcMode, numFrames, duration, gen, frame, group, totalSent, runtime>>

srcTick ==
  /\ srcPc \in {"loop", "govern"}
  /\ runtime <= MaxSent
  /\ runtime' = runtime + 1
  /\ UNCHANGED <<srcMode, numFrames, duration, gen, frame, group, totalSent, srcPc>>

srcStep == finish \/ noTable \/ sendDrx \/ sendDrx8 \/ sendTbs \/ sendCor \/ sendRaw \/ govern
SrcNext == srcStep \/ srcTick
SrcSpec == SrcInit /\ [][SrcNext]_srcVars

-----------------------------------------------------------------------------
\* What a receiver expects with every time tag, in the order of sending.
Keys ==
  CASE srcMode \in {"DRX", "DRX8", "RAW"} -> {0, 1} \X {0, 1}
    [] srcMode \in {"TBS", "TBT"} -> {<<b>> : b \in 0 .. BandCount - 1}
    [] srcMode = "COR" -> (0 .. CorBands - 1) \X (1 .. StandCount) \X (1 .. StandCount)

\* Type invariant: the counters of next() stay within the table and the
\* channels, and next() never indexes past the frames generated.  With a table
\* of one frame the index of a DRX time tag is never reset.
SourceTypeOK ==
  /\ srcMode \in SourceModes /\ srcPc \in {"loop", "govern", "end", "failed"}
  /\ numFrames # 0 => drxIndex < numFrames /\ gen.cur_frame < numFrames
  /\ numFrames > 1 => gen.index < numFrames \div 2
  /\ {gen.tuning, gen.pol} \subseteq {0, 1}
  /\ gen.band \in 0 .. BandCount + CorBands /\ {gen.i, gen.j} \subseteq 1 .. StandCount
  /\ totalSent <= MaxSent

\* No frame of a time tag is sent twice, and a time tag gives way to the next
\* only when every tuning, polarisation, channel and baseline of it has been
\* sent.  The spectrometer counts frames without looking at which they are:
\* what it makes of this source relies on both.  Two frames are the least it
\* takes: with -N 1 both polarisations of DRX are the one frame, and the other
\* modes never leave their first time tag (OneFrameIsEnough).
TagsAreWhole ==
  /\ Cardinality({group[k] : k \in DOMAIN group}) = Len(group)
  /\ frame # NoFrame => {group[k] : k \in DOMAIN group} \subseteq Keys
WholeBeforeNext ==
  [][frame # NoFrame /\ frame' # NoFrame /\ frame'.tag # frame.tag
       => Len(group) = Cardinality(Keys)]_srcVars

\* The source is never more than one frame ahead of its data rate.
RateHeld == totalSent <= SourceRate * runtime + 1

\* The source sends whole time tags, one after the other, at its rate.
SourceSound ==
  [](SourceTypeOK /\ (numFrames > 1 => TagsAreWhole) /\ RateHeld) /\ WholeBeforeNext

\* The usage text takes any positive -N: the same of a table of one frame.
OneFrameIsEnough == numFrames = 1 => TagsAreWhole

\* The guide sends 8-bit data with "DataSource2 -DRX8": a frame that leaves is
\* the one the generator made for it.
SendsGenerated == srcPc = "govern" /\ srcMode # "RAW" => frame # NoFrame
=============================================================================
