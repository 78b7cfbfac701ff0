----------------------------- MODULE Commander -----------------------------
(***************************************************************************)
(* Commanding the recorder over UDP.  Msender sends one command and waits   *)
(* for one answer on a port it shares with the runs before and after it;    *)
(* the recorder's MessageListener validates and queues commands, its        *)
(* MessageProcessor answers them, its ResponseSender sends the answers.     *)
(* Datagrams are lost, duplicated and overtaken, runs give up early, and an *)
(* answer may find another run at the port than the one that asked.         *)
(*                                                                          *)
(* A command is named by the run that sent it, an answer by that run and a  *)
(* serial number.  The fields of a message are reduced to those Msender can *)
(* be told to test.  What the commands do inside the recorder is the        *)
(* subject of Control and Schedule; here a recording takes the one free     *)
(* slot, and a shutdown ends all answers; INI, which restarts the recorder,  *)
(* and the signals that stop it are left to Control.                        *)
(***************************************************************************)
EXTENDS Naturals, Sequences, FiniteSets

CONSTANTS
  Run,        \* the runs of Msender
  CommandLines, \* what they may be started with, one command line for each
  Patience,   \* -Timeout
  MaxLost,    \* bound on the datagrams lost or not sent
  MaxDup,     \* bound on the datagrams duplicated
  NoRun

ASSUME CommanderAssumption ==
  Patience \in Nat /\ {MaxLost, MaxDup} \subseteq Nat /\ NoRun \notin Run

VARIABLES
  prog,       \* prog[r]: where main() of run r is
  opts,       \* opts[r]: its command line
  waited,     \* waited[r]: the time since its command was sent
  result,     \* result[r]: how it ended
  got,        \* got[r]: the answer it read, or NoRun
  port,       \* the run that has the response port, or NoRun
  toDR,       \* commands on their way
  toClient,   \* answers on their way
  queue,      \* of the MessageProcessor
  responses,  \* queue of the ResponseSender
  recording,  \* the run whose REC has the slot, or NoRun
  processed,  \* runs whose command the recorder has acted on
  answered,   \* runs for which an answer has left the recorder
  shutdownRequested, \* SHT or EXT has been answered
  down,       \* the recorder has shut down
  missing,    \* runs one of whose datagrams was lost
  losses, copies

clientVars == <<prog, opts, waited, result, got, port>>
drVars     == <<queue, responses, recording, processed, answered, shutdownRequested, down>>
netVars    == <<toDR, toClient, missing, losses, copies>>
cmVars     == <<clientVars, drVars, netVars>>

CmInit ==
  /\ prog = [r \in Run |-> "off"]
  /\ opts \in CommandLines
  /\ waited = [r \in Run |-> 0]
  /\ result = [r \in Run |-> "none"]
  /\ got = [r \in Run |-> NoRun]
  /\ port = NoRun
  /\ toDR = {} /\ toClient = {}
  /\ queue = <<>> /\ responses = <<>>
  /\ recording = NoRun /\ processed = {} /\ answered = {}
  /\ shutdownRequested = FALSE /\ down = FALSE
  /\ missing = {} /\ losses = 0 /\ copies = 0

-----------------------------------------------------------------------------
(* Msender *)

\* The longest value -expectedAccepted may have.
MaxLen == 1
LengthOf(value) == CASE value = "none" -> 0 [] value \in {"A", "R"} -> 1 [] OTHER -> 8

exits(r, how) ==
  /\ prog' = [prog EXCEPT ![r] = "end"]
  /\ result' = [result EXCEPT ![r] = how]
  /\ port' = IF port = r THEN NoRun ELSE port

\* The command line is refused: a value is too long.
usage(r) ==
  /\ prog[r] = "off" /\ LengthOf(opts[r].accepted) > MaxLen
  /\ exits(r, "usage")
  /\ UNCHANGED <<opts, waited, got, drVars, netVars>>

\* openInbound binds the port, or finds it bound.
bindsAnyway == TRUE
binds == port = NoRun
openInbound(r) ==
  /\ prog[r] = "off" /\ LengthOf(opts[r].accepted) <= MaxLen
  /\ \/ ~binds /\ exits(r, "noport")
     \/ /\ binds
        /\ port' = r /\ prog' = [prog EXCEPT ![r] = "open"] /\ UNCHANGED result
  /\ UNCHANGED <<opts, waited, got, drVars, netVars>>

\* What was not sent is not noticed.
send(r) ==
  /\ prog[r] = "open"
  /\ \/ toDR' = toDR \cup {r} /\ UNCHANGED <<missing, losses>>
     \/ losses < MaxLost /\ losses' = losses + 1 /\ missing' = missing \cup {r} /\ UNCHANGED toDR
  /\ IF opts[r].noListen THEN exits(r, "sent")
                         ELSE prog' = [prog EXCEPT ![r] = "wait"] /\ UNCHANGED <<result, port>>
  /\ UNCHANGED <<opts, waited, got, drVars, toClient, copies>>

tick(r) ==
  /\ prog[r] = "wait" /\ waited[r] < Patience
  /\ waited' = [waited EXCEPT ![r] = @ + 1]
  /\ UNCHANGED <<prog, opts, result, got, port, drVars, netVars>>

expiredAfter(r) == opts[r].timeout /\ waited[r] > Patience
expired(r)      == opts[r].timeout /\ waited[r] >= Patience
timeout(r) ==
  /\ prog[r] = "wait" /\ expired(r)
  /\ exits(r, "timeout")
  /\ UNCHANGED <<opts, waited, got, drVars, netVars>>

\* Response::getAcceptReject spells the letter out.
getAcceptReject(a) == IF a.accept THEN "Accepted" ELSE "Rejected"

\* The fields that do not have the expected values.
mismatchedAny(r, a) ==
  {f \in opts[r].expect : f = "type" /\ opts[a.run].type # opts[r].type}
    \cup (IF opts[r].accepted # "none" /\ opts[r].accepted # getAcceptReject(a) THEN {"accepted"} ELSE {})
mismatched(r, a) ==
  {f \in opts[r].expect :
     \/ f = "reference" /\ opts[a.run].reference # opts[r].reference
     \/ f = "type" /\ opts[a.run].type # opts[r].type}
    \cup (IF opts[r].accepted # "none" /\ opts[r].accepted # getAcceptReject(a) THEN {"accepted"} ELSE {})

verdict(r, a) ==
  IF opts[r].expect = {} /\ opts[r].accepted = "none" THEN "printed"
  ELSE IF mismatched(r, a) = {} THEN "pass" ELSE "fail"

\* The first datagram that arrives is the answer, whoever asked for it.
receive(r) ==
  \E a \in toClient :
    /\ prog[r] = "wait"
    /\ got' = [got EXCEPT ![r] = a]
    /\ toClient' = toClient \ {a}
    /\ exits(r, verdict(r, a))
    /\ UNCHANGED <<opts, waited, drVars, toDR, missing, losses, copies>>

-----------------------------------------------------------------------------
(* The network *)

loseCommand(r) ==
  /\ r \in toDR /\ (losses < MaxLost \/ down)
  /\ toDR' = toDR \ {r}
  /\ losses' = IF down THEN losses ELSE losses + 1
  /\ missing' = missing \cup {r}
  /\ UNCHANGED <<clientVars, drVars, toClient, copies>>

\* An answer is lost, or comes to a port nobody has.
loseAnswer(a) ==
  /\ a \in toClient /\ (port = NoRun \/ losses < MaxLost)
  /\ toClient' = toClient \ {a}
  /\ losses' = IF port = NoRun THEN losses ELSE losses + 1
  /\ missing' = missing \cup {a.run}
  /\ UNCHANGED <<clientVars, drVars, toDR, copies>>

\* A second copy of a command that is no longer on its way.
duplicate(r) ==
  /\ r \in processed \ toDR /\ copies < MaxDup /\ ~down
  /\ copies' = copies + 1
  /\ toDR' = toDR \cup {r}
  /\ UNCHANGED <<clientVars, drVars, toClient, missing, losses>>

-----------------------------------------------------------------------------
(* The recorder *)

\* Answers to one command differ in their serial number.
Answer(r, accept, k) == [run |-> r, accept |-> accept, n |-> 2 * copies + k]

\* MessageListener::run: an invalid message, and one for another subsystem, is
\* dropped without a word; one whose length field is wrong is answered.
answerInconsistentNot(r) == UNCHANGED responses
answerInconsistent(r) == responses' = Append(responses, Answer(r, FALSE, 1))
listen(r) ==
  /\ ~down /\ r \in toDR
  /\ toDR' = toDR \ {r}
  /\ \/ /\ opts[r].text = "invalid" \/ opts[r].destination = "other"
        /\ UNCHANGED <<queue, responses>>
     \/ /\ opts[r].text = "inconsistent" /\ opts[r].destination # "other"
        /\ answerInconsistent(r) /\ UNCHANGED queue
     \/ /\ opts[r].text = "consistent" /\ opts[r].destination # "other"
        /\ queue' = Append(queue, r) /\ UNCHANGED responses
  /\ UNCHANGED <<clientVars, recording, processed, answered, shutdownRequested, down, toClient,
                 missing, losses, copies>>

\* MessageProcessor::onDoReceive.  A GET that succeeds is answered twice: with
\* the bytes and, where the branch ends without a return, with nothing.
replies(r) ==
  \/ opts[r].type = "BAD" /\ responses' = Append(responses, Answer(r, FALSE, 1)) /\ UNCHANGED recording
  \/ opts[r].type \in {"PNG", "SHT", "EXT"} /\ responses' = Append(responses, Answer(r, TRUE, 1)) /\ UNCHANGED recording
  \/ /\ opts[r].type = "REC"
     /\ recording' = IF recording = NoRun THEN r ELSE recording
     /\ responses' = Append(responses, Answer(r, recording = NoRun, 1))
  \/ /\ opts[r].type = "GET"
     /\ \E n \in {<<Answer(r, FALSE, 1)>>, <<Answer(r, TRUE, 1), Answer(r, TRUE, 2)>>} :
          responses' = responses \o n
     /\ UNCHANGED recording
process ==
  /\ ~down /\ queue # <<>>
  /\ replies(Head(queue))
  /\ queue' = Tail(queue)
  /\ processed' = processed \cup {Head(queue)}
  /\ UNCHANGED <<clientVars, netVars, answered, shutdownRequested, down>>

\* ResponseSender::onDoReceive.  A shutdown is requested when its answer has
\* been sent; an answer that cannot be sent in eleven attempts is given up.
carriesOutAlways(sent, a) == a.accept /\ opts[a.run].type \in {"SHT", "EXT"}
carriesOut(sent, a) == sent /\ a.accept /\ opts[a.run].type \in {"SHT", "EXT"}
respond ==
  \E sent \in BOOLEAN :
    LET a == Head(responses)
    IN  /\ ~down /\ responses # <<>>
        /\ responses' = Tail(responses)
        /\ IF sent THEN /\ toClient' = toClient \cup {a}
                        /\ answered' = answered \cup {a.run}
                        /\ UNCHANGED <<missing, losses>>
                   ELSE /\ losses < MaxLost /\ losses' = losses + 1
                        /\ missing' = missing \cup {a.run}
                        /\ UNCHANGED <<toClient, answered>>
        /\ shutdownRequested' = (shutdownRequested \/ carriesOut(sent, a))
        /\ UNCHANGED <<clientVars, queue, recording, processed, down, toDR, copies>>

\* System::__run looks for a request ten times a second; until it has seen one
\* the other threads go on answering.
shutdown ==
  /\ shutdownRequested /\ ~down
  /\ down' = TRUE
  /\ UNCHANGED <<clientVars, netVars, queue, responses, recording, processed, answered,
                 shutdownRequested>>

-----------------------------------------------------------------------------
CmNext ==
  \/ \E r \in Run : usage(r)
  \/ \E r \in Run : openInbound(r)
  \/ \E r \in Run : send(r)
  \/ \E r \in Run : tick(r)
  \/ \E r \in Run : timeout(r)
  \/ \E r \in Run : receive(r)
  \/ \E r \in Run : loseCommand(r)
  \/ \E a \in toClient : loseAnswer(a)
  \/ \E r \in Run : duplicate(r)
  \/ \E r \in Run : listen(r)
  \/ process
  \/ respond
  \/ shutdown

\* The threads of the recorder and the loop of Msender run, and a datagram
\* that is not lost arrives.  Runs need never be started.
CmFairness ==
  /\ \A r \in Run : WF_cmVars(send(r)) /\ WF_cmVars(tick(r)) /\ WF_cmVars(timeout(r))
                      /\ WF_cmVars(receive(r)) /\ WF_cmVars(listen(r))
  /\ WF_cmVars(process) /\ WF_cmVars(respond) /\ WF_cmVars(shutdown)
CmSpec == CmInit /\ [][CmNext]_cmVars /\ CmFairness

-----------------------------------------------------------------------------
\* Type invariant.  The run that waits has the port, and no two do.
CommanderTypeOK ==
  /\ \A r \in Run : /\ prog[r] \in {"off", "open", "wait", "end"}
                    /\ prog[r] \in {"open", "wait"} <=> port = r
                    /\ waited[r] \in 0 .. Patience
                    /\ prog[r] = "end" <=> result[r] # "none"
  /\ \A a \in toClient : a.run \in answered
  /\ losses <= MaxLost /\ copies <= MaxDup

\* A run that tests the reference number and reports PASS read the answer to
\* its own command, and the recorder has acted on that command or refused its
\* length: neither the second answer to an earlier GET nor the late answer to
\* a run that gave up passes for it.  This is what the reference number is
\* for, and it needs one that no other run uses.
OwnReference(r) == \A q \in Run \ {r} : opts[q].reference # opts[r].reference
PassIsMine ==
  \A r \in Run : result[r] = "pass" /\ "reference" \in opts[r].expect /\ OwnReference(r)
    => got[r].run = r /\ (r \in processed \/ opts[r].text = "inconsistent")

\* The recorder never takes a command to shut down, nor goes down for it,
\* without an answer to such a command having left: SHT and EXT are carried out
\* by the ResponseSender, after the answer is sent.
DownIsAnnounced ==
  shutdownRequested \/ down => \E r \in answered : opts[r].type \in {"SHT", "EXT"}

\* A run with a timeout ends, whatever becomes of its datagrams.
ClientEnds == \A r \in Run : prog[r] = "wait" /\ opts[r].timeout ~> prog[r] = "end"

\* A run also ends without a timeout unless a datagram is lost, the recorder
\* goes down, or the command is one the listener drops without a word.
AnswerArrives ==
  \A r \in Run : prog[r] = "wait"
    ~> \/ prog[r] = "end" \/ r \in missing \/ down
       \/ opts[r].text = "invalid" \/ opts[r].destination = "other"

\* The port has one owner, a verdict is about the command it is given for, and
\* the recorder does not vanish unannounced.
VerdictSound == CommanderTypeOK /\ PassIsMine /\ DownIsAnnounced

\* Msender/readme.txt has -expectedAccepted "Accepted" or "Rejected" test the
\* answer for A or R: a run told to expect acceptance, and nothing else, that
\* reads an acceptance passes.
AcceptedIsTested ==
  \A r \in Run : opts[r].accepted \in {"A", "Accepted"} /\ opts[r].expect = {}
                   => /\ result[r] # "usage"
                      /\ got[r] # NoRun => (result[r] = "pass" <=> got[r].accept)
=============================================================================
