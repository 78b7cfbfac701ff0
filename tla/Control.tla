------------------------------- MODULE Control -------------------------------
(***************************************************************************)
(* The life of a DROS2 process: System (boot, run, shutdown, restart), the *)
(* three messaging threads (MessageListener, MessageProcessor and          *)
(* ResponseSender) with the queues between them, the storage subsystem     *)
(* they command, and the operations they schedule.                         *)
(*                                                                         *)
(* A command is handled in one action: the message processor is the only   *)
(* thread that schedules operations or sends storage up and down, and      *)
(* every storage query holds the storage lock.  Shutdown is one action for *)
(* every thread it joins.  Of an operation this module keeps whether it is *)
(* queued or running, the files it holds open and the Storage objects it   *)
(* points to; what the scheduler does in time is module Schedule.  Whether *)
(* a time slot is free, a request fits a file or a drive has room is a     *)
(* choice.                                                                 *)
(*                                                                         *)
(* UDP loses, repeats and reorders commands: any command may be received   *)
(* at any time, any number of times.                                       *)
(***************************************************************************)
EXTENDS Storage, Sequences

CONSTANTS
  Cmds,       \* the commands that may be received
  Before,     \* the contents the drives may have when the process starts
  Rare,       \* the commands that come first or not at all
  MaxInputs,  \* bound: commands, signals and crashes in one behaviour
  QueueMax    \* bound: messages in a queue

\* The command types; LEN is a message whose length is wrong, BAD one that
\* cannot be understood.
Types == {"PNG", "ECH", "SHT", "EXT", "INI", "RPT", "SEL", "DVN", "DWN", "UP",
          "SYN", "TST", "FMT", "REC", "SPC", "GET", "CPY", "DMP", "DEL", "STP",
          "BAD", "LEN"}

ASSUME ControlAssumption ==
  /\ MaxInputs \in Nat /\ QueueMax \in Nat \ {0} /\ Rare \subseteq Cmds
  /\ Cmds \subseteq [type : Types, ref : Nat, on : Nat, arg : Nat, to : Nat,
                     out : SUBSET Nat, ok : BOOLEAN]
  /\ \A c \in Cmds : c.type = "DVN" => c.arg \in Label
  /\ Disk \subseteq Label
  /\ Before \subseteq [Drive -> SUBSET Nat]

VARIABLES
  phase,        \* where the System thread is
  asked,        \* _shutdownRequested, _restartRequested, _iniRequested, _iniFlushData
  fatal,        \* _fatal_error
  scan,         \* the static flags of System about storage scans
  defaultDRSU,
  select,       \* ArraySelect of the configuration
  saved,        \* ArraySelect in the configuration file
  buf,          \* the receive buffer
  mpq, rsq,     \* the queues of MessageProcessor and ResponseSender
  ops,          \* operations queued or running
  inputs,       \* commands, signals and crashes so far
  downUnder,    \* storage went down under an operation
  dangling,     \* an operation used a deleted Storage or File
  leaked,       \* files left open with an operation that STP dropped
  twins,        \* two drives have had one volume name
  wiped         \* outputs a format removed while they were being written

lifeVars == <<phase, asked, fatal, buf, saved, inputs>>
selVars  == <<defaultDRSU, select>>
histVars == <<downUnder, dangling, leaked, twins, wiped>>
ctlVars  == <<lifeVars, scan, selVars, mpq, rsq, ops, histVars>>
vars     == <<storageVars, ctlVars>>

NoObject == [disk |-> None, gen |-> 0]
ByIndex(i) == [by |-> "index", at |-> i]
Idle == ops = {}

NotAsked == [shut |-> FALSE, restart |-> FALSE, ini |-> FALSE, flush |-> FALSE]
NoScan   == [initial |-> FALSE, reboot |-> FALSE, asynchFull |-> FALSE]

-----------------------------------------------------------------------------
\* The default storage device.

HasInternal == Usable /\ internal # {}
HasExternal == Usable /\ external # {}

chosen == IF resolveArraySelect(select) = None THEN ByIndex(1) ELSE select

getDefaultStorage ==
  IF defaultDRSU # NoObject THEN defaultDRSU
  ELSE Object(resolveArraySelect(chosen))

\* What a successful getDefaultStorage leaves behind.
keepDefault ==
  /\ defaultDRSU' = getDefaultStorage
  /\ select' = IF defaultDRSU = NoObject THEN chosen ELSE select

getAlternateStorage(as) ==
  IF HasInternal /\ resolveArraySelect(as) # None
  THEN Object(resolveArraySelect(as)) ELSE NoObject

-----------------------------------------------------------------------------
\* Messages.

Input == inputs < MaxInputs /\ inputs' = inputs + 1

\* WaitQueue: the queues of the message processor and the response sender.
enqueue(q, c) == q' = Append(q, c)
dequeue(q)    == q # <<>> /\ q' = Tail(q)

\* A message whose length is wrong is answered by the listener itself.
listen(c) ==
  /\ Input
  /\ phase = "run" /\ ~fatal
  /\ c \in Rare => inputs = 0
  /\ IF c.type = "LEN"
     THEN Len(rsq) < QueueMax /\ enqueue(rsq, c) /\ UNCHANGED mpq
     ELSE Len(mpq) < QueueMax /\ enqueue(mpq, c) /\ UNCHANGED rsq
  /\ UNCHANGED <<storageVars, phase, asked, fatal, buf, saved, scan,
                 selVars, ops, histVars>>

m == Head(mpq)

\* The message processor takes a message of one of these types.
Takes(types) ==
  /\ phase \in {"run", "stop_mp"}
  /\ dequeue(mpq)
  /\ m.type \in types
  /\ UNCHANGED lifeVars

Answer(ok) == enqueue(rsq, [m EXCEPT !.ok = ok])

Refuse ==
  /\ Answer(FALSE)
  /\ UNCHANGED <<storageVars, scan, selVars, ops, histVars>>

\* Commands with an unknown name, or data its pattern does not match.
IllFormed == {"BAD"}
onBad     == Takes(IllFormed) /\ Refuse

\* The commands whose work is left to the response sender.
onInstant ==
  /\ Takes({"PNG", "ECH", "SHT", "EXT", "INI"})
  /\ Answer(TRUE)
  /\ UNCHANGED <<storageVars, scan, selVars, ops, histVars>>

\* RPT only reads, but what is asked about the default drive looks it up.
reportDefault == HasInternal /\ keepDefault
reportOther   == UNCHANGED selVars
getMib ==
  /\ Takes({"RPT"})
  /\ \E ok \in BOOLEAN : Answer(ok)
  /\ reportDefault \/ reportOther
  /\ UNCHANGED <<storageVars, scan, ops, histVars>>

\* SEL answers R even when it succeeds.
setDefaultStorage ==
  /\ Takes({"SEL"})
  /\ Answer(FALSE)
  /\ LET as == [by |-> IF m.on = 0 THEN "name" ELSE "index",
                at |-> IF m.on = 0 THEN m.arg ELSE m.on]
         o  == getAlternateStorage(as)
     IN IF Idle /\ o # NoObject /\ o # defaultDRSU
        THEN defaultDRSU' = o /\ select' = as
        ELSE UNCHANGED selVars
  /\ UNCHANGED <<storageVars, scan, ops, histVars>>

\* DVN: the array select follows the drive to its new name.
setVolumeNameAlone(d, name) == UNCHANGED select
setVolumeName(d, name) ==
  select' = IF resolveArraySelect(chosen) = d
            THEN [by |-> "name", at |-> name] ELSE chosen

onDvn ==
  /\ Takes({"DVN"})
  /\ \/ ~HasInternal /\ Refuse
     \/ LET s == getDefaultStorage.disk
        IN /\ HasInternal
           /\ defaultDRSU' = getDefaultStorage
           /\ \/ /\ label[s] = m.arg
                 /\ Answer(FALSE)
                 /\ select' = IF defaultDRSU = NoObject THEN chosen ELSE select
                 /\ UNCHANGED <<label, twins>>
              \/ /\ label[s] # m.arg
                 /\ Answer(TRUE)
                 /\ setVolumeName(s, m.arg)
                 /\ label' = [label EXCEPT ![s] = m.arg]
                 /\ twins' = (twins \/ \E d \in Disk \ {s} : label[d] = m.arg)
           /\ UNCHANGED <<mounted, isUp, asynch, internal, external, gen,
                          contents, listing, watch, active, scan, ops,
                          downUnder, dangling, leaked, wiped>>

\* DWN: nothing is asked of the storage or of the schedule.
forgetDefaultNot == UNCHANGED defaultDRSU
forgetDefault    == defaultDRSU' = NoObject

requestDown ==
  /\ Takes({"DWN"})
  /\ forgetDefault
  /\ scan' = [scan EXCEPT !.asynchFull = (m.arg = 1)]
  /\ Answer(CanDownAsynch)
  /\ asynch' = IF ~CanDownAsynch THEN asynch
               ELSE IF ~scan.initial \/ m.arg = 1 THEN "downFull" ELSE "down"
  /\ downUnder' = (downUnder \/ (CanDownAsynch /\ ~Idle))
  /\ UNCHANGED <<mounted, isUp, internal, external, gen, contents, listing,
                 watch, active, label, select, ops, dangling, leaked, twins,
                 wiped>>

requestUp ==
  /\ Takes({"UP"})
  /\ \/ StorageState # "Down" /\ Refuse
     \/ StorageState = "Down" /\ ~CanUpAsynch /\ Refuse
     \/ /\ CanUpAsynch
        /\ asynch' = IF ~scan.initial \/ scan.reboot \/ scan.asynchFull
                     THEN "upFull" ELSE "up"
        /\ scan' = [initial |-> TRUE, reboot |-> FALSE, asynchFull |-> FALSE]
        /\ Answer(TRUE)
        /\ UNCHANGED <<mounted, isUp, internal, external, gen, contents,
                       listing, watch, active, label, selVars, ops, histVars>>

-----------------------------------------------------------------------------
\* Commands that schedule.  Only an operation that waits can conflict.

slotTaken == \E o \in ops : o.st = "wait"

openIn(o, n)    == CanOpen(o, n)
openOut(o, ns) == \A n \in ns : CanCreate(o, n)

Op(o, files) == [kind |-> m.type, ref |-> m.ref, arg |-> m.arg, st |-> "wait",
                 obj |-> o, files |-> files]

\* s is the internal drive the command is for.
Chosen == IF m.on = 0 THEN IF HasInternal THEN getDefaultStorage ELSE NoObject
          ELSE getAlternateStorage(ByIndex(m.on))
keepChosen == IF m.on = 0 /\ HasInternal THEN keepDefault ELSE UNCHANGED selVars

\* Nothing but the answer, and a default drive that may have been looked up.
Decline ==
  /\ Answer(FALSE)
  /\ keepChosen
  /\ UNCHANGED <<storageVars, scan, ops, histVars>>

Accepted(o, files) ==
  /\ ops' = ops \cup {Op(o, files)}
  /\ Answer(TRUE)
  /\ keepChosen
  /\ UNCHANGED <<scan, histVars>>

onSynTst ==
  /\ Takes({"SYN", "TST"})
  /\ \/ slotTaken /\ Refuse
     \/ /\ ops' = ops \cup {Op(NoObject, {})}
        /\ Answer(TRUE)
        /\ UNCHANGED <<storageVars, scan, selVars, histVars>>

onFmt ==
  /\ Takes({"FMT"})
  /\ \/ ~Idle /\ Refuse
     \/ /\ Idle
        /\ LET o == IF m.to = None THEN Chosen
                    ELSE IF HasExternal /\ m.to \in external
                    THEN Object(m.to) ELSE NoObject
           IN /\ Answer(o # NoObject)
              /\ ops' = IF o = NoObject THEN ops ELSE ops \cup {Op(o, {})}
        /\ IF m.to = None THEN keepChosen ELSE UNCHANGED selVars
        /\ UNCHANGED <<storageVars, scan, histVars>>

\* The file is made now, so that it is there when the recording starts.  The
\* slot was checked without its padding: when the padded one is taken, the
\* command is refused and an empty file is left.
recordInto(f) ==
  /\ Chosen # NoObject
  /\ openOut(Chosen, {m.ref})
  /\ contents' = [contents EXCEPT ![Chosen.disk] = @ \cup {m.ref}]
  /\ \/ active' = active \cup {f} /\ Accepted(Chosen, {f})
     \/ /\ slotTaken
        /\ Answer(FALSE)
        /\ keepChosen
        /\ UNCHANGED <<active, scan, ops, histVars>>
  /\ UNCHANGED <<mounted, isUp, asynch, internal, external, gen, listing, watch,
                 label>>

recorded ==
  \/ Chosen = NoObject /\ Refuse
  \/ Chosen # NoObject /\ Decline    \* slot taken, no room, bad geometry
  \/ recordInto(File(Chosen, m.ref, m))

onRec == Takes({"REC"}) /\ recorded
onSpc == Takes({"SPC"}) /\ recorded

\* A GET that succeeds is answered twice; one that asks for more than the
\* file has leaves the file open.
onGet ==
  /\ Takes({"GET"})
  /\ \/ Chosen = NoObject /\ Refuse
     \/ Chosen # NoObject /\ ~(Idle /\ openIn(Chosen, m.arg)) /\ Decline
     \/ /\ Chosen # NoObject /\ Idle /\ openIn(Chosen, m.arg)
        /\ keepChosen
        /\ \/ /\ rsq' = rsq \o <<[m EXCEPT !.ok = TRUE], [m EXCEPT !.ok = TRUE]>>
              /\ UNCHANGED active
           \/ /\ Answer(FALSE)
              /\ active' = active \cup {File(Chosen, m.arg, m)}
        /\ UNCHANGED <<mounted, isUp, asynch, internal, external, gen, contents,
                       listing, watch, label, scan, ops, histVars>>

\* CPY and DMP differ in how many files they make: m.out.
transfer(in, out) ==
  /\ Chosen # NoObject /\ Idle
  /\ openIn(Chosen, m.arg)
  /\ HasExternal /\ m.to \in external
  /\ openOut(Object(m.to), m.out)
  /\ contents' = [contents EXCEPT ![m.to] = @ \cup m.out]
  /\ active' = active \cup {in} \cup out
  /\ Accepted(Chosen, {in} \cup out)
  /\ UNCHANGED <<mounted, isUp, asynch, internal, external, gen, listing, watch,
                 label>>

\* The clean-up of a transfer that is refused with files open: the input is
\* put back, the outputs that were made are closed, removed and put back.
cleanedUpInput(in, made) == {in}
cleanedUp(in, made)      == {in} \cup made

cleanUp(in, made) ==
  LET left == ({in} \cup made) \ cleanedUp(in, made)
  IN  /\ active' = active \cup left
      /\ contents' = [contents EXCEPT ![m.to] = @ \cup {f.name : f \in left}]

\* Refused once the input is open: the request does not fit the file or the
\* drive, there is no such drive, or output n, there already or for an error
\* of the drive, cannot be made, with the ones before it made.
transferFails(in, out) ==
  /\ Chosen # NoObject /\ Idle
  /\ openIn(Chosen, m.arg)
  /\ \E n \in m.out :
       LET made == {f \in out : f.name < n}
       IN  /\ made # {} => /\ HasExternal /\ m.to \in external
                          /\ openOut(Object(m.to), {f.name : f \in made})
           /\ cleanUp(in, made)
  /\ Answer(FALSE)
  /\ keepChosen
  /\ UNCHANGED <<mounted, isUp, asynch, internal, external, gen, listing, watch,
                 label, scan, ops, histVars>>

transferred ==
  LET in  == File(Chosen, m.arg, m)
      out == {File(Object(m.to), n, m) : n \in m.out}
  IN  \/ Chosen = NoObject /\ Refuse
      \/ Chosen # NoObject /\ Decline    \* before a file is open
      \/ transferFails(in, out)
      \/ transfer(in, out)

onCpy == Takes({"CPY"}) /\ transferred
onDmp == Takes({"DMP"}) /\ transferred

\* The path is all that is kept of the file to delete.  The query file of an
\* unknown name is never returned.
onDel ==
  /\ Takes({"DEL"})
  /\ \/ Chosen = NoObject /\ Refuse
     \/ Chosen # NoObject /\ ~Idle /\ Decline
     \/ /\ Chosen # NoObject /\ Idle /\ ~CanOpen(Chosen, m.arg)
        /\ active' = active \cup {File(Chosen, m.arg, m)}
        /\ Answer(FALSE)
        /\ keepChosen
        /\ UNCHANGED <<mounted, isUp, asynch, internal, external, gen, contents,
                       listing, watch, label, scan, ops, histVars>>
     \/ /\ Chosen # NoObject /\ Idle /\ CanOpen(Chosen, m.arg)
        /\ Accepted(Chosen, {})
        /\ UNCHANGED storageVars

\* STP: what waits is dropped with its files open; a recording or transfer
\* that runs is told to stop, and nothing else can be.
onStp ==
  /\ Takes({"STP"})
  /\ \/ /\ \A o \in ops : o.ref = m.arg =>
             o.st = "run" /\ o.kind \in {"FMT", "DEL", "SYN"}
        /\ Refuse
     \/ \E o \in ops :
          /\ o.ref = m.arg
          /\ \/ o.st = "wait"
             \/ o.kind \in {"REC", "SPC", "TST", "CPY", "DMP"}
          /\ ops' = IF o.st = "run" /\ o.kind \in {"CPY", "DMP"}
                    THEN ops ELSE ops \ {o}
          /\ leaked' = IF o.st = "wait" THEN leaked \cup o.files ELSE leaked
          /\ Answer(TRUE)
          /\ UNCHANGED <<storageVars, scan, selVars, downUnder, dangling, twins,
                         wiped>>

onDoReceive ==
  \/ onBad \/ onInstant \/ getMib \/ setDefaultStorage \/ onDvn \/ requestDown
  \/ requestUp \/ onSynTst \/ onFmt \/ onRec \/ onSpc \/ onGet \/ onCpy \/ onDmp
  \/ onDel \/ onStp

requestShutdown(r) ==
  /\ asked' = [asked EXCEPT !.shut = TRUE,
                            !.restart = r.type = "SHT" /\ r.arg # 0]
  /\ scan' = [scan EXCEPT !.reboot = r.type = "SHT" /\ r.arg = 2]
requestIni(r) ==
  /\ asked' = [asked EXCEPT !.ini = TRUE, !.flush = (r.arg = 1)]
  /\ scan' = [scan EXCEPT !.reboot = (r.arg = 2)]

\* ResponseSender: eleven attempts, then the answer and what it would have
\* brought about are lost.
onRespond ==
  /\ phase \in {"run", "stop_mp", "stop_rs"}
  /\ dequeue(rsq)
  /\ LET r == Head(rsq)
     IN \/ UNCHANGED <<asked, scan>>
        \/ r.ok /\ r.type \in {"SHT", "EXT"} /\ requestShutdown(r)
        \/ r.ok /\ r.type = "INI" /\ requestIni(r)
  /\ UNCHANGED <<storageVars, phase, fatal, buf, saved, inputs,
                 selVars, mpq, ops, histVars>>

-----------------------------------------------------------------------------
\* Operations, as far as they touch storage.

SchedulerRuns == phase \in {"run", "stop_mp", "stop_rs", "stop_rx", "stop_sch"}

opStart(o) ==
  /\ SchedulerRuns
  /\ o.st = "wait"
  /\ \A p \in ops : p.st = "wait"
  /\ ops' = (ops \ {o}) \cup {[o EXCEPT !.st = "run"]}
  /\ UNCHANGED <<storageVars, lifeVars, scan, selVars, mpq, rsq, histVars>>

Timed == {"REC", "SPC", "TST"}   \* ended by the scheduler, not by themselves

Alive(o) == /\ \A f \in o.files : f.gen = gen /\ f.disk \in internal \cup external
            /\ o.kind = "FMT" => Exists(o.obj)

\* putFile for what CPY and DMP opened; a recording keeps its file.
putFilesNot(o) == UNCHANGED active
putFiles(o) ==
  active' = IF o.kind \in {"CPY", "DMP"} THEN active \ o.files ELSE active

\* The paths an operation writes.
Outputs(o) == {<<f.disk, f.name>> : f \in {g \in o.files :
                 o.kind \in {"REC", "SPC"} \/ g.disk \in Ext}}

\* FMT empties the drive; DEL removes a path, whatever is mounted there.
formatDevice(o) == [contents EXCEPT ![o.obj.disk] = {}]

opFinish(o) ==
  /\ o.st = "run"
  /\ o.kind \in Timed => SchedulerRuns
  /\ ops' = ops \ {o}
  /\ putFiles(o)
  /\ dangling' = (dangling \/ ~Alive(o))
  /\ contents' =
       CASE o.kind = "FMT" /\ Alive(o) -> formatDevice(o)
         [] o.kind = "DEL" /\ o.obj.disk \in mounted ->
              [contents EXCEPT ![o.obj.disk] = @ \ {o.arg}]
         [] OTHER -> contents
  /\ wiped' = IF o.kind = "FMT" /\ Alive(o)
              THEN wiped \cup {x \in UNION {Outputs(p) : p \in ops} :
                                x[1] = o.obj.disk}
              ELSE wiped
  /\ UNCHANGED <<mounted, isUp, asynch, internal, external, gen, listing, watch,
                 label, lifeVars, scan, selVars, mpq, rsq, downUnder, leaked,
                 twins>>

-----------------------------------------------------------------------------
\* The System thread.

Enter(p) == phase' = p /\ UNCHANGED <<asked, fatal, saved, inputs>>

bootStorage ==
  /\ phase = "boot"
  /\ phase' = "boot2"
  /\ IF StorageState = "Down" /\ asynch = "no" /\ ~isUp
     THEN __doUp(~scan.initial \/ scan.reboot) /\ UNCHANGED asynch
     ELSE UNCHANGED storageVars
  /\ scan' = [scan EXCEPT !.initial = scan.initial \/ StorageState = "Down"]
  /\ UNCHANGED <<asked, fatal, buf, saved, inputs, selVars, mpq, rsq,
                 ops, histVars>>

\* The receiver may fail to start; then no messaging thread is started.
bootServices ==
  /\ phase = "boot2"
  /\ phase' = "run"
  /\ buf' = "live"
  /\ fatal' \in BOOLEAN
  /\ IF HasInternal THEN keepDefault ELSE UNCHANGED selVars
  /\ UNCHANGED <<storageVars, asked, saved, inputs, scan, mpq, rsq,
                 ops, histVars>>

handleSignal ==
  /\ Input
  /\ phase = "run"
  /\ asked' = [asked EXCEPT !.shut = TRUE]
  /\ UNCHANGED <<storageVars, phase, fatal, buf, saved, scan,
                 selVars, mpq, rsq, ops, histVars>>

leaveRun ==
  /\ phase = "run"
  /\ fatal \/ asked.shut \/ asked.ini
  /\ Enter("stop_mp")
  /\ UNCHANGED <<storageVars, buf, scan, selVars, mpq, rsq, ops, histVars>>

stopProcessor ==
  /\ phase = "stop_mp"
  /\ Enter("stop_rs")
  /\ mpq' = <<>>
  /\ UNCHANGED <<storageVars, buf, scan, selVars, rsq, ops, histVars>>

\* With INI -D the default drive is emptied on the way.
stopResponder ==
  /\ phase = "stop_rs"
  /\ Enter("stop_rx")
  /\ rsq' = <<>>
  /\ contents' = IF asked.ini /\ asked.flush /\ Usable /\ defaultDRSU # NoObject
                 THEN [contents EXCEPT ![defaultDRSU.disk] = {}]
                 ELSE contents
  /\ UNCHANGED <<mounted, isUp, asynch, internal, external, gen, listing, watch,
                 active, label, buf, scan, selVars, mpq, ops, histVars>>

stopReceiver ==
  /\ phase = "stop_rx"
  /\ Enter("stop_sch")
  /\ buf' = "freed"
  /\ UNCHANGED <<storageVars, scan, selVars, mpq, rsq, ops, histVars>>

\* Schedule::doAbort ends the recordings; the scheduler stops, and what is
\* left of the operations must end by itself.
abortScheduleKeep == Enter("stop_ops") /\ UNCHANGED ops
abortSchedule ==
  /\ Enter("stop_ops")
  /\ ops' = {o \in ops : o.kind \notin {"REC", "SPC"}}

stopSchedule ==
  /\ phase = "stop_sch"
  /\ abortSchedule
  /\ dangling' = (dangling \/ \E o \in ops :
                              o.kind \in {"REC", "SPC"} /\ ~Alive(o))
  /\ UNCHANGED <<storageVars, buf, scan, selVars, mpq, rsq, downUnder, leaked,
                 twins, wiped>>

scheduleJoinedNot == TRUE
scheduleJoined == ops = {}

killSchedule ==
  /\ phase = "stop_ops"
  /\ scheduleJoined
  /\ IF StorageState = "Down"
     THEN Enter("exit") /\ UNCHANGED storageVars
     ELSE Enter("stop_sto") /\ __doDown /\ UNCHANGED <<mounted, asynch>>
  /\ UNCHANGED <<buf, scan, selVars, mpq, rsq, ops, histVars>>

stopStorage ==
  /\ phase = "stop_sto"
  /\ Enter("exit")
  /\ finishDown(~scan.initial \/ scan.reboot)
  /\ UNCHANGED <<asynch, buf, scan, selVars, mpq, rsq, ops, histVars>>

\* Config is saved, System deleted; main makes a new one if it was asked to.
restart ==
  /\ phase = "exit"
  /\ saved' = select
  /\ phase' = IF asked.ini \/ asked.restart THEN "boot" ELSE "halt"
  /\ asked' = NotAsked
  /\ fatal' = FALSE
  /\ buf' = "none"
  /\ defaultDRSU' = NoObject
  /\ UNCHANGED <<storageVars, inputs, scan, select, mpq, rsq, ops,
                 histVars>>

\* The process is killed and started again by systemd.
crash ==
  /\ Input
  /\ phase # "halt"
  /\ phase' = "boot" /\ asked' = NotAsked /\ fatal' = FALSE /\ buf' = "none"
  /\ scan' = NoScan
  /\ defaultDRSU' = NoObject /\ select' = saved
  /\ mpq' = <<>> /\ rsq' = <<>> /\ ops' = {}
  /\ isUp' = FALSE /\ asynch' = "no" /\ internal' = {} /\ external' = {}
  /\ active' = {} /\ watch' = "off"
  /\ downUnder' = FALSE /\ dangling' = FALSE /\ leaked' = {} /\ wiped' = {}
  /\ UNCHANGED <<mounted, gen, contents, listing, label, saved, twins>>

-----------------------------------------------------------------------------
Init ==
  /\ mounted = {} /\ isUp = FALSE /\ asynch = "no"
  /\ internal = {} /\ external = {} /\ gen = 0
  /\ contents \in Before
  /\ listing = [d \in Drive |-> {}]
  /\ watch = "off" /\ active = {}
  /\ label = [d \in Disk |-> d]
  /\ phase = "boot" /\ asked = NotAsked /\ fatal = FALSE /\ buf = "none"
  /\ scan = NoScan
  /\ defaultDRSU = NoObject
  /\ saved \in {ByIndex(0), ByIndex(2)} /\ select = saved
  /\ mpq = <<>> /\ rsq = <<>> /\ ops = {}
  /\ inputs = 0
  /\ downUnder = FALSE /\ dangling = FALSE /\ leaked = {} /\ twins = FALSE
  /\ wiped = {}

systemThread ==
  \/ bootStorage \/ bootServices \/ leaveRun \/ stopProcessor \/ stopResponder
  \/ stopReceiver \/ stopSchedule \/ killSchedule \/ stopStorage \/ restart

storageThread == upThread \/ downThread

Stay == UNCHANGED ctlVars

Halted == phase = "halt" /\ UNCHANGED vars

Next ==
  \/ systemThread
  \/ storageThread /\ Stay
  \/ watchStart /\ Stay
  \/ \E d \in Drive : __readContent(d) /\ Stay
  \/ onDoReceive
  \/ onRespond
  \/ \E c \in Cmds : listen(c)
  \/ \E o \in ops : opStart(o) \/ opFinish(o)
  \/ handleSignal
  \/ crash
  \/ Halted

\* Every thread runs; messages, signals and crashes need not come.
Fairness ==
  /\ WF_vars(systemThread)
  /\ WF_vars(storageThread /\ Stay)
  /\ WF_vars(watchStart /\ Stay)
  /\ WF_vars(\E d \in Drive : __readContent(d) /\ Stay)
  /\ WF_vars(onDoReceive)
  /\ WF_vars(onRespond)
  /\ WF_vars(\E o \in ops : opStart(o) \/ opFinish(o))

Spec     == Init /\ [][Next]_vars
FairSpec == Spec /\ Fairness

-----------------------------------------------------------------------------
\* Properties.

Going == phase \in {"boot2", "run", "stop_mp", "stop_rs", "stop_rx", "stop_sch",
                    "stop_ops"}

\* The storage state has its type, and there are operations and queued
\* messages only while the threads that own them live.
ControlTypeOK ==
  /\ StorageTypeOK
  /\ asked \in [shut : BOOLEAN, restart : BOOLEAN, ini : BOOLEAN, flush : BOOLEAN]
  /\ scan \in [initial : BOOLEAN, reboot : BOOLEAN, asynchFull : BOOLEAN]
  /\ inputs \in 0 .. MaxInputs
  /\ phase \in {"boot", "boot2", "stop_sto", "exit", "halt"}
       => ops = {} /\ mpq = <<>> /\ rsq = <<>>
  /\ buf = "live" => Going

\* The default drive System remembers is never a deleted Storage object,
\* whatever DWN, UP, SEL, DVN and restarts came before.
DefaultIsLive == Going /\ defaultDRSU # NoObject => Exists(defaultDRSU)

\* As long as volume names have been unique, the array select that will be
\* saved names the drive that is the default now: an INI changes nothing.
DefaultIsSelected ==
  Going /\ Usable /\ ~twins /\ defaultDRSU # NoObject
    => resolveArraySelect(select) = defaultDRSU.disk

\* Two operations never write one path, even when a command is repeated,
\* unless a format that was still running removed the first one's file.
NoSharedOutput ==
  \A o, p \in ops : o # p => Outputs(o) \cap Outputs(p) \subseteq wiped

\* The files a CPY or DMP opened are returned, by the clean-up when it is
\* refused and by the operation when it ends, but for the files of one that
\* STP dropped while it waited.
TransferFilesReturned ==
  \A f \in active :
    f.by \in {"CPY", "DMP"} => f \in leaked \/ \E o \in ops : f \in o.files

\* Only a DWN accepted while operations were scheduled takes the storage
\* away from under one: shutdown ends the operations first.
StorageOutlivesOps == dangling => downUnder

\* "Subscribers are still responsible for returning tickets and
\* unsubscribing" (TicketBuffer.h:286-287) when the buffer comes to its end, so
\* it outlives the recordings.  It does not hold: stopReceiver deletes the
\* receive buffer before stopSchedule ends the recordings that subscribe to it.
BufferOutlivesRecordings ==
  buf = "freed" => \A o \in ops : ~(o.kind \in {"REC", "SPC"} /\ o.st = "run")

\* A thread operation that waits, or a test, keeps the scheduler's shutdown
\* from ending; a folder thread that began too late is never joined.
Stuck ==
  \/ watch = "lost"
  \/ phase = "stop_ops" /\ \E o \in ops : o.st = "wait" \/ o.kind = "TST"

\* A shutdown that was asked for gets to its end.
ShutdownCompletes ==
  (phase = "run" /\ (fatal \/ asked.shut \/ asked.ini))
    ~> (phase \in {"boot", "halt"} \/ Stuck)

\* DWN and UP come to an end, so that storage can be used again.
StorageSettles == (asynch # "no") ~> (asynch = "no" \/ Stuck)

\* The file listing a report is made from catches up with the drive.
ListingCatchesUp ==
  (Usable /\ \E d \in internal \cup external : listing[d] # contents[d])
    ~> (~Usable \/ Stuck
        \/ \A d \in internal \cup external : listing[d] = contents[d])

\* The drive that System remembers exists and is the one it will remember.
DefaultDrive == DefaultIsLive /\ DefaultIsSelected

\* Every output file has one owner, and a file of a transfer is given back.
FilesAccounted == NoSharedOutput /\ TransferFilesReturned

\* Operations, threads and storage end in an order that leaves none behind.
LifeSound == ControlTypeOK /\ StorageOutlivesOps

\* What was asked for comes to its end: shutdown, DWN and UP, the listing.
ControlProgress == ShutdownCompletes /\ StorageSettles /\ ListingCatchesUp

\* INI restores the state of a first boot: the drives are there.
IniRestores ==
  [][phase = "boot2" /\ phase' = "run" /\ asynch = "no" => internal # {}]_vars
=============================================================================
