------------------------------ MODULE Transfer ------------------------------
(***************************************************************************)
(* CopyOperation and DumpOperation (Operations/CopyOperation.h and         *)
(* DumpOperation.h): the thread that copies a range of a tag file to one   *)
(* external file, or to several in chunks.                                 *)
(*                                                                         *)
(* A byte is its position in the tag file.  read() and write() may move    *)
(* less than they were asked to, say "try again", or fail; read() gives 0  *)
(* at the end of the file, which the code takes for "try again".           *)
(* DumpOperation's constructor leaves extfile and current_file             *)
(* uninitialized: they start with whatever the memory held.                *)
(***************************************************************************)
EXTENDS Integers, Sequences, SequencesExt

CONSTANTS
  Jobs,            \* [kind, size, chunk, offset, len]: the request, and the file's length
  TRANSFER_SIZE,
  Garbage          \* what an uninitialized size_t may hold

Tag  == 0
Null == 0
Wild == -1   \* a pointer that was never set

VARIABLES
  job,
  extfiles,        \* output files still to be written (their numbers, from 1)
  extfile,         \* output file being written
  current_file, fresh,   \* chunk counter, and the value it began with
  limit, written,  \* bytes of this chunk: wanted and written
  curTagOffset,
  out,             \* what each output file holds
  puts,            \* times each file was returned to its Storage
  interrupted, failed,
  where

trVars == <<job, extfiles, extfile, current_file, fresh, limit, written,
            curTagOffset, out, puts, interrupted, failed, where>>

\* The number of files the DMP handler makes for a request.
NumChunks(j) ==
  IF j.kind = "copy" THEN 1
  ELSE (j.size \div j.chunk) + (IF j.size % j.chunk = 0 THEN 0 ELSE 1)

ASSUME TransferAssumption ==
  /\ TRANSFER_SIZE \in Nat \ {0}
  /\ Jobs \subseteq [kind : {"copy", "dump"}, size : Nat, chunk : Nat \ {0},
                     offset : Nat, len : Nat]
  /\ \A j \in Jobs : j.offset + j.size <= j.len
  /\ Garbage \subseteq Nat

num_files == NumChunks(job)
Copying   == job.kind = "copy"

TrInit ==
  /\ job \in Jobs
  /\ extfiles = [i \in 1 .. num_files |-> i]
  /\ extfile \in IF Copying THEN {Null} ELSE {Null, Wild}
  /\ current_file \in IF Copying THEN {0} ELSE Garbage
  /\ fresh = current_file
  /\ limit = 0 /\ written = 0
  /\ curTagOffset = job.offset
  /\ out = [i \in 1 .. num_files |-> <<>>]
  /\ puts = [i \in 0 .. num_files |-> 0]
  /\ interrupted = FALSE /\ failed = FALSE
  /\ where = "start"

\* threadOpRun begins; without a buffer it goes straight to the cleanup.
trBegin ==
  /\ where = "start"
  /\ \/ where' = "next" /\ UNCHANGED failed
     \/ where' = "close" /\ failed' = TRUE
  /\ UNCHANGED <<job, extfiles, extfile, current_file, fresh, limit, written,
                 curTagOffset, out, puts, interrupted>>

sizeForThisChunkAll == job.chunk
sizeForThisChunk ==
  IF Copying THEN job.size
  ELSE IF current_file # num_files - 1 THEN job.chunk
  ELSE job.size - (num_files - 1) * job.chunk

\* The counter of a chunk starts again.
resetWrittenNot == UNCHANGED written
resetWritten    == written' = 0

nextChunk ==
  /\ where = "next"
  /\ extfiles # <<>>
  /\ Copying \/ ~interrupted
  /\ extfile' = Head(extfiles)
  /\ extfiles' = Tail(extfiles)
  /\ limit' = sizeForThisChunk
  /\ resetWritten
  /\ where' = "move"
  /\ UNCHANGED <<job, current_file, fresh, curTagOffset, out, puts, interrupted,
                 failed>>

Moving == where = "move" /\ ~interrupted /\ written < limit

\* How far the read position advances when got bytes were read and put of
\* them written.
advanceRead(got, put) == got
advance(got, put)     == put

\* One turn of the loop that moved something.  The position sought before it
\* is one of an open regular file, where lseek has no reason to fail: a
\* copy would only log that and read on from where it is (a dump gives up,
\* as in moveFails).
move ==
  /\ Moving
  /\ \E got \in 1 .. TRANSFER_SIZE :
       /\ got <= limit - written
       /\ curTagOffset + got <= job.len
       /\ \E put \in 1 .. got :
            /\ out' = [out EXCEPT ![extfile] =
                         @ \o [i \in 1 .. put |-> curTagOffset + i]]
            /\ written' = written + put
            /\ curTagOffset' = curTagOffset + advance(got, put)
  /\ UNCHANGED <<job, extfiles, extfile, current_file, fresh, limit, puts,
                 interrupted, failed, where>>

\* EAGAIN, an empty write, or the end of the file.
moveNothing == Moving /\ UNCHANGED trVars

Put(files) == puts' = [f \in DOMAIN puts |-> IF f \in files THEN puts[f] + 1
                                                            ELSE puts[f]]

\* A failed read or write: what is open and what is left is put back.
moveFails ==
  /\ Moving
  /\ failed' = TRUE
  /\ Put({extfile} \cup ToSet(extfiles))
  /\ extfile' = Null /\ extfiles' = <<>>
  /\ where' = "close"
  /\ UNCHANGED <<job, current_file, fresh, limit, written, curTagOffset, out,
                 interrupted>>

\* The file just put back is forgotten, or the cleanup would put it again.
forgetExtfileNot == UNCHANGED extfile
forgetExtfile    == extfile' = Null

chunkDoneFull == written >= limit
chunkDone     == interrupted \/ written >= limit

endChunk ==
  /\ where = "move"
  /\ chunkDone
  /\ Put({extfile})
  /\ forgetExtfile
  /\ current_file' = current_file + 1
  /\ where' = "next"
  /\ UNCHANGED <<job, extfiles, fresh, limit, written, curTagOffset, out,
                 interrupted, failed>>

\* The output file that may still be open comes first, so that a pointer
\* that was never set is followed before anything is returned.
cleanup ==
  /\ \/ where = "close"
     \/ where = "next" /\ extfiles = <<>>
     \/ where = "next" /\ ~Copying /\ interrupted
  /\ IF extfile = Wild
     THEN where' = "crash" /\ UNCHANGED <<extfiles, puts>>
     ELSE /\ where' = "done"
          /\ Put({Tag, extfile} \cup ToSet(extfiles))
          /\ extfiles' = <<>>
  /\ UNCHANGED <<job, extfile, current_file, fresh, limit, written,
                 curTagOffset, out, interrupted, failed>>

\* STP, or the shutdown of the scheduler.
threadOpCancel ==
  /\ where \notin {"done", "crash"} /\ ~interrupted
  /\ interrupted' = TRUE
  /\ UNCHANGED <<job, extfiles, extfile, current_file, fresh, limit, written,
                 curTagOffset, out, puts, failed, where>>

trThread == trBegin \/ nextChunk \/ move \/ moveFails \/ endChunk \/ cleanup

TrNext == trThread \/ moveNothing \/ threadOpCancel

TrSpec == TrInit /\ [][TrNext]_trVars

\* The thread runs, and a read or write that can move something does so
\* eventually.
TrFairness == WF_trVars(trThread)

-----------------------------------------------------------------------------
Copied == FlattenSeq(out)

\* The counters agree with the files.
TransferTypeOK ==
  /\ extfile \in {Null, Wild} \cup 1 .. num_files
  /\ where = "move" => Len(out[extfile]) = written
  /\ Len(Copied) <= job.len - job.offset
  /\ DOMAIN puts = 0 .. num_files

\* The files together hold the bytes from the offset on, in order, with no
\* byte lost or copied twice: a short write is taken up where it stopped.
CopiesInOrder == \A i \in 1 .. Len(Copied) : Copied[i] = job.offset + i

\* A transfer that ended by itself has copied the whole range, each file up
\* to its size, provided current_file happened to begin at zero.
CopiesAll ==
  where = "done" /\ ~interrupted /\ ~failed /\ fresh = 0
    => /\ Len(Copied) = job.size
       /\ \A i \in 1 .. num_files - 1 : Len(out[i]) = job.chunk

\* However it ended, every file was returned to its Storage exactly once.
\* Only a dump that never began a chunk (stopped at once, without memory, or
\* of no bytes at all) follows the pointer that was not set, with all its
\* files still its own.
ReturnsAllFiles ==
  /\ where = "done"  => \A f \in DOMAIN puts : puts[f] = 1
  /\ where = "crash" => \A f \in 1 .. num_files : out[f] = <<>> /\ puts[f] = 0

\* A transfer that has begun ends.  If current_file began with garbage a chunk may be longer
\* than what is left of the file, and the end of the file is taken for "try
\* again" until STP is sent.
TransferEnds ==
  where # "start" /\ (interrupted \/ fresh = 0) ~> where \in {"done", "crash"}

\* A transfer copies its range, in order, and gives back what it was given.
TransferSound == TransferTypeOK /\ CopiesInOrder /\ CopiesAll /\ ReturnsAllFiles
=============================================================================
