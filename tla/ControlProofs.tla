---------------------------- MODULE ControlProofs ----------------------------
(***************************************************************************)
(* Safety of the process: the default drive, the files of the operations   *)
(* and the life of storage, for any set of drives and of commands.         *)
(*                                                                         *)
(* The inductive invariant CtlInv has a part for each of them.  The        *)
(* default drive exists because DWN forgets it and only storage that is up *)
(* can make it; two operations share no output because an output stays on  *)
(* the drive while its operation lives, which needs that at most one       *)
(* operation can be a transfer, a deletion or a format; storage outlives   *)
(* the operations because an operation that holds a Storage or a File was  *)
(* accepted while storage was up and only DWN takes that back.             *)
(***************************************************************************)
EXTENDS Control, FiniteSetTheorems, SequenceTheorems, WellFoundedInduction, TLAPS

-----------------------------------------------------------------------------
(* The inductive invariant.                                                *)

FileSet == [disk : Drive, gen : Nat, name : Nat, by : Types, ref : Nat]
ObjSet  == [disk : Drive \cup {None}, gen : Nat]
OpSet   == [kind : Types, ref : Nat, arg : Nat, st : {"wait", "run"},
            obj : ObjSet, files : SUBSET FileSet]

Phases == {"boot", "boot2", "run", "stop_mp", "stop_rs", "stop_rx", "stop_sch",
           "stop_ops", "stop_sto", "exit", "halt"}

\* The operations accepted only when nothing else is scheduled.
Sole == {"CPY", "DMP", "DEL", "FMT"}

IsOutput(o, f) == o.kind \in {"REC", "SPC"} \/ f.disk \in Ext

Accepting == phase \in {"run", "stop_mp"}

\* Storage, the configuration and the operations have their types.
TypeInv ==
  /\ StorageTypeOK
  /\ contents \in [Drive -> SUBSET Nat]
  /\ active \subseteq FileSet
  /\ isUp => gen # 0
  /\ defaultDRSU \in ObjSet
  /\ mpq \in Seq(Cmds)
  /\ ops \subseteq OpSet

FlagInv ==
  /\ asked \in [shut : BOOLEAN, restart : BOOLEAN, ini : BOOLEAN, flush : BOOLEAN]
  /\ scan \in [initial : BOOLEAN, reboot : BOOLEAN, asynchFull : BOOLEAN]
  /\ inputs \in 0 .. MaxInputs

\* What is left when each thread has ended.
PhaseInv ==
  /\ phase \in Phases
  /\ phase \notin {"run", "stop_mp"} => mpq = <<>>
  /\ phase \notin {"run", "stop_mp", "stop_rs"} => rsq = <<>>
  /\ phase \in {"boot", "boot2", "stop_sto", "exit", "halt"} => ops = {}
  /\ buf = "live" => phase \in {"run", "stop_mp", "stop_rs", "stop_rx"}

\* The default drive is one of the drives that are up, and the selected one.
DefaultInv ==
  /\ phase = "boot" => defaultDRSU = NoObject
  /\ Going /\ defaultDRSU # NoObject =>
       /\ Usable
       /\ defaultDRSU.gen = gen /\ defaultDRSU.disk \in internal
       /\ ~twins => resolveArraySelect(select) = defaultDRSU.disk

\* At most one operation is a transfer, a deletion or a format.
SoleInv ==
  \A o, p \in ops : o.kind \in Sole /\ p.kind \in Sole => o = p

\* As long as commands are handled, the output of an operation is on the drive
\* unless a format removed it.
PresentInv ==
  Accepting =>
    \A o \in ops : \A f \in o.files : IsOutput(o, f) =>
      f.name \in contents[f.disk] \/ <<f.disk, f.name>> \in wiped

\* As long as commands are handled, what a deletion will remove is on the
\* drive, and nobody's output.
DelInv ==
  Accepting =>
    \A d \in ops : d.kind = "DEL" =>
      /\ d.obj.disk \in Drive
      /\ d.arg \in contents[d.obj.disk]
      /\ \A o \in ops : \A f \in o.files :
           IsOutput(o, f) => f.disk # d.obj.disk \/ f.name # d.arg

\* Two operations write one path only if a format removed it.
SharedInv ==
  \A o, p \in ops : \A f \in o.files : \A g \in p.files :
    o # p /\ IsOutput(o, f) /\ IsOutput(p, g) /\ f.disk = g.disk /\ f.name = g.name
      => <<f.disk, f.name>> \in wiped

\* A file names the operation that holds it.
OwnerInv ==
  \A o \in ops : \A f \in o.files : f.by = o.kind /\ f.ref = o.ref

\* Without a DWN, an operation that needs storage has it.
Needs(o) == o.files # {} \/ o.kind = "FMT"

AliveInv ==
  ~downUnder => /\ ~dangling
                /\ \A o \in ops : Needs(o) => Usable /\ Alive(o)

CtlInv ==
  /\ TypeInv
  /\ FlagInv
  /\ PhaseInv
  /\ DefaultInv
  /\ SoleInv
  /\ PresentInv
  /\ DelInv
  /\ SharedInv
  /\ OwnerInv
  /\ TransferFilesReturned
  /\ AliveInv

-----------------------------------------------------------------------------
(* Looking up a drive.                                                     *)

\* Every set of naturals that is not empty has a least element.
LEMMA LeastDrive ==
  ASSUME NEW T, T \subseteq Nat, T # {}
  PROVE  Min(T) \in T /\ \A y \in T : Min(T) <= y
<1>1. PICK x \in T : \A y \in T : ~(<<y, x>> \in OpToRel(<, Nat))
  BY NatLessThanWellFounded, WFMin
<1>2. \A y \in T : ~(y < x)
  BY <1>1 DEF OpToRel
<1>3. \E z \in T : \A y \in T : z <= y
  BY <1>2
<1> QED
  BY <1>3 DEF Min

\* An array select finds a drive that is up, or nothing.
LEMMA ResolveIn ==
  ASSUME TypeInv, NEW as
  PROVE  resolveArraySelect(as) \in internal \cup {None}
<1> DEFINE found == {d \in internal :
                       IF as.by = "name" THEN label[d] = as.at
                       ELSE Cardinality({e \in internal : e <= d}) = as.at}
<1>1. found \subseteq internal /\ internal \subseteq Nat
  BY StorageAssumption DEF TypeInv, StorageTypeOK
<1>2. resolveArraySelect(as) = IF found = {} THEN None ELSE Min(found)
  BY DEF resolveArraySelect
<1> HIDE DEF found
<1>3. found # {} => Min(found) \in found
  BY <1>1, LeastDrive
<1> QED
  BY <1>1, <1>2, <1>3

\* No drive has the number None.
LEMMA NoneInternal ==
  ASSUME TypeInv
  PROVE  None \notin internal /\ internal \subseteq Drive /\ external \subseteq Drive
BY StorageAssumption DEF TypeInv, StorageTypeOK, None, Drive

\* The first place is taken when there is an internal drive.
LEMMA ResolveFirst ==
  ASSUME TypeInv, internal # {}
  PROVE  resolveArraySelect(ByIndex(1)) \in internal
<1> DEFINE found == {d \in internal : Cardinality({e \in internal : e <= d}) = 1}
<1>1. internal \subseteq Nat
  BY StorageAssumption DEF TypeInv, StorageTypeOK
<1>2. Min(internal) \in internal /\ \A y \in internal : Min(internal) <= y
  BY <1>1, LeastDrive
<1>3. {e \in internal : e <= Min(internal)} = {Min(internal)}
  <2>1. PICK x : x = Min(internal)
    OBVIOUS
  <2>2. x \in Nat /\ x \in internal /\ \A y \in internal : y \in Nat /\ x <= y
    BY <1>1, <1>2, <2>1
  <2>3. \A e \in internal : e <= x <=> e = x
    BY <2>2
  <2> QED
    BY <2>1, <2>2, <2>3
<1>4. Cardinality({e \in internal : e <= Min(internal)}) = 1
  BY <1>3, FS_Singleton
<1>5. Min(internal) \in found
  BY <1>2, <1>4
<1>6. resolveArraySelect(ByIndex(1)) = IF found = {} THEN None ELSE Min(found)
  BY DEF resolveArraySelect, ByIndex
<1>7. found \subseteq internal
  OBVIOUS
<1> HIDE DEF found
<1>8. Min(found) \in found
  BY <1>1, <1>5, <1>7, LeastDrive
<1> QED
  BY <1>5, <1>6, <1>7, <1>8

\* The select that getDefaultStorage goes by finds a drive.
LEMMA ChosenFinds ==
  ASSUME TypeInv, internal # {}
  PROVE  resolveArraySelect(chosen) \in internal
<1>1. CASE resolveArraySelect(select) = None
  BY <1>1, ResolveFirst DEF chosen
<1>2. CASE resolveArraySelect(select) # None
  BY <1>2, ResolveIn DEF chosen
<1> QED
  BY <1>1, <1>2

\* A Storage object of a drive that is up now.
Up(o) == /\ HasInternal
         /\ o \in ObjSet /\ o # NoObject
         /\ o.gen = gen /\ o.disk \in internal

\* The object of an internal drive that is up.
LEMMA ObjectUp ==
  ASSUME TypeInv, HasInternal, NEW d \in internal
  PROVE  Up(Object(d))
<1>1. gen \in Nat /\ d \in Drive /\ d # None
  BY NoneInternal DEF TypeInv, StorageTypeOK
<1> QED
  BY <1>1 DEF Up, Object, ObjSet, NoObject

\* getDefaultStorage finds a drive that is up.
LEMMA DefaultUp ==
  ASSUME TypeInv, DefaultInv, Going, HasInternal
  PROVE  Up(getDefaultStorage)
<1>1. CASE defaultDRSU # NoObject
  BY <1>1 DEF Up, getDefaultStorage, DefaultInv, TypeInv
<1>2. CASE defaultDRSU = NoObject
  <2>1. internal # {}
    BY DEF HasInternal
  <2>2. getDefaultStorage = Object(resolveArraySelect(chosen))
    BY <1>2 DEF getDefaultStorage
  <2> QED
    BY <2>1, <2>2, ChosenFinds, ObjectUp
<1> QED
  BY <1>1, <1>2

\* So does a command that names another drive, or it finds nothing.
LEMMA AlternateUp ==
  ASSUME TypeInv, NEW as
  PROVE  getAlternateStorage(as) = NoObject \/ Up(getAlternateStorage(as))
<1>1. CASE HasInternal /\ resolveArraySelect(as) # None
  <2>1. resolveArraySelect(as) \in internal
    BY <1>1, ResolveIn
  <2> QED
    BY <1>1, <2>1, ObjectUp DEF getAlternateStorage
<1> QED
  BY <1>1 DEF getAlternateStorage

\* The drive a command is for is up.
LEMMA ChosenUp ==
  ASSUME TypeInv, DefaultInv, Going
  PROVE  Chosen = NoObject \/ Up(Chosen)
<1>1. CASE m.on = 0
  BY <1>1, DefaultUp DEF Chosen
<1>2. CASE m.on # 0
  BY <1>2, AlternateUp DEF Chosen
<1> QED
  BY <1>1, <1>2
-----------------------------------------------------------------------------
(* What a step does to the operations and their files, and why that keeps  *)
(* the parts of the invariant about them.                                  *)

OpsInv == /\ SoleInv /\ PresentInv /\ DelInv /\ SharedInv /\ OwnerInv
          /\ TransferFilesReturned

\* Commands begin to be handled when there are no operations.
Gate == Accepting' => Accepting \/ ops' = {}

\* Nothing is removed from a drive.
Grows == Accepting' => \A d \in Drive : contents[d] \subseteq contents'[d]

\* No operation comes or goes; a file may be opened, but not by a transfer.
Quiet ==
  /\ Grows
  /\ ops' = ops /\ wiped' = wiped /\ leaked' = leaked
  /\ \A f \in active' : f \in active \/ f.by \notin {"CPY", "DMP"}

\* Operation o is accepted.
Adds(o) ==
  /\ Grows /\ Accepting
  /\ o \in OpSet /\ ops' = ops \cup {o} /\ wiped' = wiped /\ leaked' = leaked
  /\ active' = active \cup o.files
  /\ \A f \in o.files : f.by = o.kind /\ f.ref = o.ref
  /\ o.kind \in Sole => ops = {}
  /\ \A f \in o.files : IsOutput(o, f) =>
       f.name \notin contents[f.disk] /\ f.name \in contents'[f.disk]
  /\ o.kind = "DEL" =>
       o.files = {} /\ o.obj.disk \in Drive /\ o.arg \in contents[o.obj.disk]
  /\ Needs(o) => Usable /\ Alive(o)

\* Operations in S end; of the transfers, only those whose files are on record.
Drops(S) ==
  /\ Grows
  /\ ops' = ops \ S /\ wiped' = wiped /\ active' \subseteq active
  /\ leaked \subseteq leaked'
  /\ \A o \in S \cap ops : o.kind \in {"CPY", "DMP"} => o.files \subseteq leaked'

\* A step that opens no file of a transfer keeps them all accounted for.
LEMMA QuietKeeps ==
  ASSUME TypeInv, OpsInv, Gate, Quiet
  PROVE  OpsInv'
<1> USE DEF Quiet
<1>1. SoleInv'
  BY DEF OpsInv, SoleInv
<1>2. \A o \in ops : \A f \in o.files : f.disk \in Drive
  BY DEF TypeInv, OpSet, FileSet
<1>3. PresentInv'
  <2> SUFFICES ASSUME Accepting', NEW o \in ops', NEW f \in o.files, IsOutput(o, f)
               PROVE  f.name \in contents'[f.disk] \/ <<f.disk, f.name>> \in wiped'
    BY DEF PresentInv, IsOutput
  <2> QED
    BY <1>2 DEF OpsInv, PresentInv, Gate, Grows
<1>4. DelInv'
  <2> SUFFICES ASSUME Accepting', NEW d \in ops', d.kind = "DEL"
               PROVE  /\ d.obj.disk \in Drive
                      /\ d.arg \in contents'[d.obj.disk]
                      /\ \A o \in ops' : \A f \in o.files :
                           IsOutput(o, f) => f.disk # d.obj.disk \/ f.name # d.arg
    BY DEF DelInv, IsOutput, Drive
  <2> QED
    BY DEF OpsInv, DelInv, Gate, Grows
<1>5. SharedInv'
  BY DEF OpsInv, SharedInv, IsOutput
<1>6. OwnerInv'
  BY DEF OpsInv, OwnerInv
<1>7. TransferFilesReturned'
  BY DEF OpsInv, TransferFilesReturned
<1> QED
  BY <1>1, <1>3, <1>4, <1>5, <1>6, <1>7 DEF OpsInv

\* What an operation that is accepted writes is new.
LEMMA AddsKeeps ==
  ASSUME TypeInv, OpsInv, NEW n, Adds(n)
  PROVE  OpsInv'
<1> USE DEF Adds
<1>1. SoleInv'
  BY DEF OpsInv, SoleInv
<1>2. \A o \in ops' : \A f \in o.files : f.disk \in Drive
  BY DEF TypeInv, OpSet, FileSet
<1>3. PresentInv'
  <2> SUFFICES ASSUME Accepting', NEW o \in ops', NEW f \in o.files, IsOutput(o, f)
               PROVE  f.name \in contents'[f.disk] \/ <<f.disk, f.name>> \in wiped'
    BY DEF PresentInv, IsOutput
  <2> QED
    BY <1>2 DEF OpsInv, PresentInv, Grows
<1>4. DelInv'
  <2> SUFFICES ASSUME Accepting', NEW d \in ops', d.kind = "DEL"
               PROVE  /\ d.obj.disk \in Drive
                      /\ d.arg \in contents'[d.obj.disk]
                      /\ \A o \in ops' : \A f \in o.files :
                           IsOutput(o, f) => f.disk # d.obj.disk \/ f.name # d.arg
    BY DEF DelInv, IsOutput, Drive
  <2>1. CASE d = n
    BY <2>1 DEF Sole, Grows
  <2>2. CASE d # n
    <3>1. d \in ops /\ d.obj.disk \in Drive /\ d.arg \in contents[d.obj.disk]
      BY <2>2 DEF OpsInv, DelInv
    <3>2. d.arg \in contents'[d.obj.disk]
      BY <3>1 DEF Grows
    <3>3. \A f \in n.files : IsOutput(n, f) => f.disk # d.obj.disk \/ f.name # d.arg
      BY <3>1
    <3>4. \A o \in ops : \A f \in o.files :
            IsOutput(o, f) => f.disk # d.obj.disk \/ f.name # d.arg
      BY <3>1 DEF OpsInv, DelInv
    <3> QED
      BY <3>1, <3>2, <3>3, <3>4
  <2> QED
    BY <2>1, <2>2
<1>5. SharedInv'
  <2> SUFFICES ASSUME NEW o \in ops', NEW p \in ops', NEW f \in o.files, NEW g \in p.files,
                      o # p, IsOutput(o, f), IsOutput(p, g),
                      f.disk = g.disk, f.name = g.name
               PROVE  <<f.disk, f.name>> \in wiped
    BY DEF SharedInv, IsOutput
  <2>1. CASE o \in ops /\ p \in ops
    BY <2>1 DEF OpsInv, SharedInv
  <2>2. CASE o \notin ops
    BY <2>2 DEF OpsInv, PresentInv
  <2>3. CASE p \notin ops
    BY <2>3 DEF OpsInv, PresentInv
  <2> QED
    BY <2>1, <2>2, <2>3
<1>6. OwnerInv'
  BY DEF OpsInv, OwnerInv
<1>7. TransferFilesReturned'
  <2> SUFFICES ASSUME NEW f \in active', f.by \in {"CPY", "DMP"}
               PROVE  f \in leaked' \/ \E o \in ops' : f \in o.files
    BY DEF TransferFilesReturned
  <2> QED
    BY DEF OpsInv, TransferFilesReturned
<1> QED
  BY <1>1, <1>3, <1>4, <1>5, <1>6, <1>7 DEF OpsInv

\* A transfer that is dropped while it waits leaves its files to its
\* reference.
LEMMA DropsKeeps ==
  ASSUME TypeInv, OpsInv, Gate, NEW S, Drops(S)
  PROVE  OpsInv'
<1> USE DEF Drops
<1>1. SoleInv'
  BY DEF OpsInv, SoleInv
<1>2. \A o \in ops : \A f \in o.files : f.disk \in Drive
  BY DEF TypeInv, OpSet, FileSet
<1>3. PresentInv'
  <2> SUFFICES ASSUME Accepting', NEW o \in ops', NEW f \in o.files, IsOutput(o, f)
               PROVE  f.name \in contents'[f.disk] \/ <<f.disk, f.name>> \in wiped'
    BY DEF PresentInv, IsOutput
  <2> QED
    BY <1>2 DEF OpsInv, PresentInv, Gate, Grows
<1>4. DelInv'
  <2> SUFFICES ASSUME Accepting', NEW d \in ops', d.kind = "DEL"
               PROVE  /\ d.obj.disk \in Drive
                      /\ d.arg \in contents'[d.obj.disk]
                      /\ \A o \in ops' : \A f \in o.files :
                           IsOutput(o, f) => f.disk # d.obj.disk \/ f.name # d.arg
    BY DEF DelInv, IsOutput, Drive
  <2> QED
    BY DEF OpsInv, DelInv, Gate, Grows
<1>5. SharedInv'
  BY DEF OpsInv, SharedInv, IsOutput
<1>6. OwnerInv'
  BY DEF OpsInv, OwnerInv
<1>7. TransferFilesReturned'
  <2> SUFFICES ASSUME NEW f \in active', f.by \in {"CPY", "DMP"}
               PROVE  f \in leaked' \/ \E o \in ops' : f \in o.files
    BY DEF TransferFilesReturned
  <2>1. f \in leaked \/ \E o \in ops : f \in o.files
    BY DEF OpsInv, TransferFilesReturned
  <2>2. \A o \in ops : f \in o.files => f.by = o.kind /\ f.ref = o.ref
    BY DEF OpsInv, OwnerInv
  <2> QED
    BY <2>1, <2>2
<1> QED
  BY <1>1, <1>3, <1>4, <1>5, <1>6, <1>7 DEF OpsInv
\* An operation that starts is the one that waited, in another state.
LEMMA StartKeeps ==
  ASSUME TypeInv, OpsInv, NEW o \in ops, opStart(o)
  PROVE  OpsInv' /\ ops' \subseteq OpSet
<1>1. PICK n : n = [o EXCEPT !.st = "run"]
  OBVIOUS
<1>2. /\ ops' = (ops \ {o}) \cup {n}
      /\ UNCHANGED <<contents, active, wiped, leaked, phase>>
  BY <1>1 DEF opStart, storageVars, lifeVars, histVars
<1>3. o \in OpSet
  BY DEF TypeInv
<1>4. /\ n \in OpSet /\ n.kind = o.kind /\ n.files = o.files /\ n.obj = o.obj
      /\ n.arg = o.arg /\ n.ref = o.ref
  BY <1>1, <1>3 DEF OpSet
<1>5. \A f : IsOutput(n, f) <=> IsOutput(o, f)
  BY <1>4 DEF IsOutput
<1>6. SoleInv'
  BY <1>2, <1>4 DEF OpsInv, SoleInv
<1>7. PresentInv'
  <2> SUFFICES ASSUME Accepting', NEW p \in ops', NEW f \in p.files, IsOutput(p, f)
               PROVE  f.name \in contents'[f.disk] \/ <<f.disk, f.name>> \in wiped'
    BY DEF PresentInv, IsOutput
  <2>1. Accepting /\ contents' = contents /\ wiped' = wiped
    BY <1>2 DEF Accepting
  <2> QED
    BY <1>2, <1>4, <1>5, <2>1 DEF OpsInv, PresentInv
<1>8. DelInv'
  <2> SUFFICES ASSUME Accepting', NEW d \in ops', d.kind = "DEL"
               PROVE  /\ d.obj.disk \in Drive
                      /\ d.arg \in contents'[d.obj.disk]
                      /\ \A p \in ops' : \A f \in p.files :
                           IsOutput(p, f) => f.disk # d.obj.disk \/ f.name # d.arg
    BY DEF DelInv, IsOutput, Drive
  <2>1. Accepting /\ contents' = contents
    BY <1>2 DEF Accepting
  <2>2. PICK e \in ops : e.kind = "DEL" /\ e.obj = d.obj /\ e.arg = d.arg
    BY <1>2, <1>4
  <2>3. /\ e.obj.disk \in Drive
        /\ e.arg \in contents[e.obj.disk]
        /\ \A p \in ops : \A f \in p.files :
             IsOutput(p, f) => f.disk # e.obj.disk \/ f.name # e.arg
    BY <2>1, <2>2 DEF OpsInv, DelInv
  <2> QED
    BY <1>2, <1>4, <1>5, <2>1, <2>2, <2>3
<1>9. SharedInv'
  <2> SUFFICES ASSUME NEW p \in ops', NEW q \in ops', NEW f \in p.files, NEW g \in q.files,
                      p # q, IsOutput(p, f), IsOutput(q, g),
                      f.disk = g.disk, f.name = g.name
               PROVE  <<f.disk, f.name>> \in wiped'
    BY DEF SharedInv, IsOutput
  <2>1. PICK a \in ops : f \in a.files /\ IsOutput(a, f) /\ a = (IF p = n THEN o ELSE p)
    BY <1>2, <1>4, <1>5
  <2>2. PICK b \in ops : g \in b.files /\ IsOutput(b, g) /\ b = (IF q = n THEN o ELSE q)
    BY <1>2, <1>4, <1>5
  <2>3. a # b
    BY <1>2, <2>1, <2>2
  <2>4. <<f.disk, f.name>> \in wiped
    BY <2>1, <2>2, <2>3 DEF OpsInv, SharedInv
  <2> QED
    BY <1>2, <2>4
<1>10. OwnerInv'
  BY <1>2, <1>4 DEF OpsInv, OwnerInv
<1>11. TransferFilesReturned'
  <2> SUFFICES ASSUME NEW f \in active', f.by \in {"CPY", "DMP"}
               PROVE  f \in leaked' \/ \E p \in ops' : f \in p.files
    BY DEF TransferFilesReturned
  <2>1. f \in leaked \/ \E p \in ops : f \in p.files
    BY <1>2 DEF OpsInv, TransferFilesReturned
  <2> QED
    BY <1>2, <1>4, <2>1
<1>12. ops' \subseteq OpSet
  BY <1>2, <1>4 DEF TypeInv
<1> QED
  BY <1>6, <1>7, <1>8, <1>9, <1>10, <1>11, <1>12 DEF OpsInv

\* What a format removes is on record in wiped.
LEMMA WipedHas ==
  ASSUME NEW o, opFinish(o), o.kind = "FMT", Alive(o),
         NEW p \in ops, NEW f \in p.files, IsOutput(p, f), f.disk = o.obj.disk
  PROVE  <<f.disk, f.name>> \in wiped'
<1>1. <<f.disk, f.name>> \in Outputs(p)
  BY DEF Outputs, IsOutput
<1>2. PICK x : x = <<f.disk, f.name>>
  OBVIOUS
<1>3. x[1] = o.obj.disk
  BY <1>2
<1>4. x \in UNION {Outputs(q) : q \in ops}
  BY <1>1, <1>2
<1>5. wiped' = wiped \cup {y \in UNION {Outputs(q) : q \in ops} : y[1] = o.obj.disk}
  BY DEF opFinish
<1> QED
  BY <1>2, <1>3, <1>4, <1>5

\* The only operation that can remove files of a drive is the one of its kind.
LEMMA FinishKeeps ==
  ASSUME TypeInv, OpsInv, NEW o \in ops, opFinish(o)
  PROVE  OpsInv' /\ contents' \in [Drive -> SUBSET Nat]
<1>1. /\ ops' = ops \ {o} /\ leaked' = leaked /\ phase' = phase
      /\ active' = IF o.kind \in {"CPY", "DMP"} THEN active \ o.files ELSE active
  BY DEF opFinish, lifeVars, putFiles
<1>2. wiped \subseteq wiped'
  BY DEF opFinish
<1>3. o \in OpSet /\ contents \in [Drive -> SUBSET Nat]
  BY DEF TypeInv
<1>4. SoleInv'
  BY <1>1 DEF OpsInv, SoleInv
<1>5. SharedInv'
  BY <1>1, <1>2 DEF OpsInv, SharedInv, IsOutput
<1>6. OwnerInv'
  BY <1>1 DEF OpsInv, OwnerInv
<1>7. TransferFilesReturned'
  <2> SUFFICES ASSUME NEW f \in active', f.by \in {"CPY", "DMP"}
               PROVE  f \in leaked' \/ \E p \in ops' : f \in p.files
    BY DEF TransferFilesReturned
  <2>1. f \in active
    BY <1>1
  <2>2. f \in leaked \/ \E p \in ops : f \in p.files
    BY <2>1 DEF OpsInv, TransferFilesReturned
  <2>3. f \in o.files => o.kind = f.by
    BY DEF OpsInv, OwnerInv
  <2> QED
    BY <1>1, <2>2, <2>3
<1>8. CASE o.kind = "FMT" /\ Alive(o)
  <2>1. contents' = [contents EXCEPT ![o.obj.disk] = {}]
    BY <1>8 DEF opFinish, formatDevice
  <2>2. PresentInv'
    <3> SUFFICES ASSUME Accepting', NEW p \in ops', NEW f \in p.files, IsOutput(p, f)
                 PROVE  f.name \in contents'[f.disk] \/ <<f.disk, f.name>> \in wiped'
      BY DEF PresentInv, IsOutput
    <3>1. Accepting /\ p \in ops
      BY <1>1 DEF Accepting
    <3>2. CASE f.disk = o.obj.disk
      BY <1>8, <3>1, <3>2, WipedHas
    <3>3. CASE f.disk # o.obj.disk
      <4>1. f.disk \in Drive
        BY <3>1 DEF TypeInv, OpSet, FileSet
      <4>2. contents'[f.disk] = contents[f.disk]
        BY <1>3, <2>1, <3>3, <4>1
      <4> QED
        BY <1>2, <3>1, <4>2 DEF OpsInv, PresentInv
    <3> QED
      BY <3>2, <3>3
  <2>3. DelInv'
    BY <1>1, <1>8 DEF OpsInv, SoleInv, DelInv, Sole
  <2>4. contents' \in [Drive -> SUBSET Nat]
    BY <1>3, <2>1
  <2> QED
    BY <1>4, <1>5, <1>6, <1>7, <2>2, <2>3, <2>4 DEF OpsInv
<1>9. CASE o.kind = "DEL" /\ o.obj.disk \in mounted
  <2>1. contents' = [contents EXCEPT ![o.obj.disk] = @ \ {o.arg}]
    BY <1>9 DEF opFinish
  <2>2. PresentInv'
    <3> SUFFICES ASSUME Accepting', NEW p \in ops', NEW f \in p.files, IsOutput(p, f)
                 PROVE  f.name \in contents'[f.disk] \/ <<f.disk, f.name>> \in wiped'
      BY DEF PresentInv, IsOutput
    <3>1. Accepting /\ p \in ops
      BY <1>1 DEF Accepting
    <3>2. f.disk # o.obj.disk \/ f.name # o.arg
      BY <1>9, <3>1 DEF OpsInv, DelInv
    <3>3. f.disk \in Drive
      BY <3>1 DEF TypeInv, OpSet, FileSet
    <3>4. f.name \in contents[f.disk] => f.name \in contents'[f.disk]
      BY <1>3, <2>1, <3>2, <3>3
    <3> QED
      BY <1>2, <3>1, <3>4 DEF OpsInv, PresentInv
  <2>3. DelInv'
    BY <1>1, <1>9 DEF OpsInv, SoleInv, DelInv, Sole
  <2>4. contents' \in [Drive -> SUBSET Nat]
    BY <1>3, <2>1
  <2> QED
    BY <1>4, <1>5, <1>6, <1>7, <2>2, <2>3, <2>4 DEF OpsInv
<1>10. CASE /\ ~(o.kind = "FMT" /\ Alive(o))
            /\ ~(o.kind = "DEL" /\ o.obj.disk \in mounted)
  <2>1. contents' = contents
    BY <1>10 DEF opFinish
  <2>2. PresentInv'
    BY <1>1, <1>2, <2>1 DEF OpsInv, PresentInv, Accepting, IsOutput
  <2>3. DelInv'
    BY <1>1, <2>1 DEF OpsInv, DelInv, Accepting, IsOutput
  <2> QED
    BY <1>3, <1>4, <1>5, <1>6, <1>7, <2>1, <2>2, <2>3 DEF OpsInv
<1> QED
  BY <1>8, <1>9, <1>10
-----------------------------------------------------------------------------
(* Commands that leave storage as it is.                                   *)

StorageSame ==
  UNCHANGED <<mounted, isUp, asynch, internal, external, gen, listing, watch>>

\* The default drive is left alone, or looked up.
SelEffect == UNCHANGED selVars \/ (HasInternal /\ keepDefault)

FileOK(f) == f \in FileSet /\ f.gen \in 1 .. gen

CmdEffect ==
  /\ \/ Quiet
     \/ \E o : Adds(o)
     \/ \E S : Drops(S)
  /\ \A f \in active' : f \in active \/ FileOK(f)
  /\ contents' \in [Drive -> SUBSET Nat]
  /\ StorageSame
  /\ SelEffect
  /\ UNCHANGED <<label, twins, downUnder, dangling, scan>>

\* The message that is handled is one that was received.
Handling ==
  /\ Accepting /\ Accepting' /\ phase' = phase
  /\ UNCHANGED lifeVars
  /\ mpq' \in Seq(Cmds)
  /\ m \in [type : Types, ref : Nat, on : Nat, arg : Nat, to : Nat,
            out : SUBSET Nat, ok : BOOLEAN]
  /\ m \in Cmds

\* A message is taken while commands are handled.
LEMMA TakesHandles ==
  ASSUME TypeInv, NEW types, Takes(types)
  PROVE  Handling /\ m.type \in types
<1>1. Accepting /\ Accepting' /\ phase' = phase /\ UNCHANGED lifeVars
  BY DEF Takes, Accepting, lifeVars
<1>2. mpq \in Seq(Cmds) /\ mpq # <<>> /\ mpq' = Tail(mpq)
  BY DEF Takes, dequeue, TypeInv
<1>3. m \in Cmds /\ mpq' \in Seq(Cmds)
  BY <1>2 DEF m
<1>4. m \in [type : Types, ref : Nat, on : Nat, arg : Nat, to : Nat,
             out : SUBSET Nat, ok : BOOLEAN]
  BY <1>3, ControlAssumption
<1>5. m.type \in types
  BY DEF Takes
<1> QED
  BY <1>1, <1>3, <1>4, <1>5 DEF Handling

\* While commands are handled, the System thread runs.
LEMMA AcceptingGoes ==
  ASSUME Accepting
  PROVE  Going
BY DEF Accepting, Going

\* Looking up the default drive is all keepChosen does.
LEMMA KeepChosenSel ==
  ASSUME keepChosen
  PROVE  SelEffect
BY DEF keepChosen, SelEffect

\* A command that is refused changes nothing but the queues.
LEMMA RefuseEffect ==
  ASSUME TypeInv, Refuse
  PROVE  CmdEffect
<1>1. UNCHANGED <<storageVars, scan, selVars, ops, histVars>>
  BY DEF Refuse
<1>2. Quiet
  BY <1>1 DEF Quiet, Grows, storageVars, histVars
<1>3. StorageSame /\ SelEffect /\ UNCHANGED <<label, twins, downUnder, dangling, scan>>
  BY <1>1 DEF StorageSame, SelEffect, storageVars, histVars
<1>4. contents' \in [Drive -> SUBSET Nat] /\ active' = active
  BY <1>1 DEF TypeInv, storageVars
<1> QED
  BY <1>2, <1>3, <1>4 DEF CmdEffect

\* Nor does one that is declined, apart from the default drive.
LEMMA DeclineEffect ==
  ASSUME TypeInv, Decline
  PROVE  CmdEffect
<1>1. UNCHANGED <<storageVars, scan, ops, histVars>> /\ SelEffect
  BY KeepChosenSel DEF Decline
<1>2. Quiet
  BY <1>1 DEF Quiet, Grows, storageVars, histVars
<1>3. StorageSame /\ UNCHANGED <<label, twins, downUnder, dangling, scan>>
  BY <1>1 DEF StorageSame, storageVars, histVars
<1>4. contents' \in [Drive -> SUBSET Nat] /\ active' = active
  BY <1>1 DEF TypeInv, storageVars
<1> QED
  BY <1>1, <1>2, <1>3, <1>4 DEF CmdEffect

\* Commands with no work in the message processor, and reports.
LEMMA PlainEffect ==
  ASSUME TypeInv, onBad \/ onInstant \/ getMib
  PROVE  CmdEffect
<1>1. CASE onBad
  BY <1>1, RefuseEffect DEF onBad
<1>2. CASE onInstant \/ getMib
  <2>1. UNCHANGED <<storageVars, scan, ops, histVars>> /\ SelEffect
    BY <1>2 DEF onInstant, getMib, SelEffect, reportDefault, reportOther
  <2>2. Quiet
    BY <2>1 DEF Quiet, Grows, storageVars, histVars
  <2>3. StorageSame /\ UNCHANGED <<label, twins, downUnder, dangling, scan>>
    BY <2>1 DEF StorageSame, storageVars, histVars
  <2>4. contents' \in [Drive -> SUBSET Nat] /\ active' = active
    BY <2>1 DEF TypeInv, storageVars
  <2> QED
    BY <2>1, <2>2, <2>3, <2>4 DEF CmdEffect
<1> QED
  BY <1>1, <1>2

\* What Op makes of a message.
LEMMA OpShape ==
  ASSUME Handling, NEW o \in ObjSet, NEW fs \in SUBSET FileSet
  PROVE  /\ Op(o, fs) \in OpSet
         /\ Op(o, fs).kind = m.type /\ Op(o, fs).ref = m.ref
         /\ Op(o, fs).arg = m.arg /\ Op(o, fs).obj = o /\ Op(o, fs).files = fs
<1>1. m.type \in Types /\ m.ref \in Nat /\ m.arg \in Nat
  BY DEF Handling
<1> QED
  BY <1>1 DEF Op, OpSet

\* SYN and TST hold nothing of storage.
LEMMA SynTstEffect ==
  ASSUME TypeInv, onSynTst
  PROVE  CmdEffect
<1>1. Handling /\ m.type \in {"SYN", "TST"}
  BY TakesHandles DEF onSynTst
<1>2. CASE Refuse
  BY <1>2, RefuseEffect
<1>3. CASE /\ ops' = ops \cup {Op(NoObject, {})}
           /\ UNCHANGED <<storageVars, scan, selVars, histVars>>
  <2>1. NoObject \in ObjSet
    BY DEF NoObject, ObjSet
  <2>2. PICK o : o = Op(NoObject, {})
    OBVIOUS
  <2>3. o \in OpSet /\ o.kind = m.type /\ o.files = {}
    BY <1>1, <2>1, <2>2, OpShape
  <2>4. Adds(o)
    <3>1. Grows /\ Accepting
      BY <1>1, <1>3 DEF Grows, Handling, storageVars
    <3>2. wiped' = wiped /\ leaked' = leaked /\ active' = active \cup o.files
      BY <1>3, <2>3 DEF storageVars, histVars
    <3>3. o.kind \notin Sole /\ o.kind # "DEL" /\ ~Needs(o)
      BY <1>1, <2>3 DEF Sole, Needs
    <3> QED
      BY <1>3, <2>2, <2>3, <3>1, <3>2, <3>3 DEF Adds
  <2>5. StorageSame /\ SelEffect /\ UNCHANGED <<label, twins, downUnder, dangling, scan>>
    BY <1>3 DEF StorageSame, SelEffect, storageVars, histVars
  <2>6. contents' \in [Drive -> SUBSET Nat] /\ active' = active
    BY <1>3 DEF TypeInv, storageVars
  <2> QED
    BY <2>4, <2>5, <2>6 DEF CmdEffect
<1> QED
  BY <1>2, <1>3 DEF onSynTst

\* A format is accepted when nothing is scheduled and its drive is up.
LEMMA FmtEffect ==
  ASSUME TypeInv, DefaultInv, onFmt
  PROVE  CmdEffect
<1>1. Handling /\ m.type = "FMT"
  BY TakesHandles DEF onFmt
<1>2. CASE Refuse
  BY <1>2, RefuseEffect
<1>3. CASE ~Refuse
  <2> DEFINE ob == IF m.to = None THEN Chosen
                   ELSE IF HasExternal /\ m.to \in external
                   THEN Object(m.to) ELSE NoObject
  <2>1. /\ Idle
        /\ ops' = IF ob = NoObject THEN ops ELSE ops \cup {Op(ob, {})}
        /\ SelEffect
        /\ UNCHANGED <<storageVars, scan, histVars>>
    BY <1>3, KeepChosenSel DEF onFmt, SelEffect
  <2>2. ob = NoObject \/ (ob \in ObjSet /\ Usable /\ Exists(ob))
    <3>1. CASE m.to = None
      BY <1>1, <3>1, ChosenUp, AcceptingGoes DEF Up, HasInternal, Exists, Handling
    <3>2. CASE m.to # None
      <4>1. gen \in Nat
        BY DEF TypeInv, StorageTypeOK
      <4> QED
        BY <3>2, <4>1, NoneInternal DEF ObjSet, Object, HasExternal, Exists
    <3> QED
      BY <3>1, <3>2
  <2>3. StorageSame /\ UNCHANGED <<label, twins, downUnder, dangling, scan>>
    BY <2>1 DEF StorageSame, storageVars, histVars
  <2>4. contents' \in [Drive -> SUBSET Nat] /\ active' = active
    BY <2>1 DEF TypeInv, storageVars
  <2>5. Grows /\ wiped' = wiped /\ leaked' = leaked
    BY <2>1 DEF Grows, storageVars, histVars
  <2> HIDE DEF ob
  <2>6. CASE ob = NoObject
    <3>1. Quiet
      BY <2>1, <2>4, <2>5, <2>6 DEF Quiet
    <3> QED
      BY <2>1, <2>3, <2>4, <3>1 DEF CmdEffect
  <2>7. CASE ob # NoObject
    <3>1. PICK o : o = Op(ob, {})
      OBVIOUS
    <3>2. o \in OpSet /\ o.kind = "FMT" /\ o.files = {} /\ o.obj = ob
      BY <1>1, <2>2, <2>7, <3>1, OpShape
    <3>3. Usable /\ Alive(o)
      BY <2>2, <2>7, <3>2 DEF Alive
    <3>4. Adds(o)
      <4>1. Accepting /\ ops = {} /\ ops' = ops \cup {o} /\ active' = active \cup o.files
        BY <1>1, <2>1, <2>4, <2>7, <3>1, <3>2 DEF Handling, Idle
      <4> QED
        BY <2>5, <3>2, <3>3, <4>1 DEF Adds
    <3> QED
      BY <2>1, <2>3, <2>4, <3>4 DEF CmdEffect
  <2> QED
    BY <2>6, <2>7
<1> QED
  BY <1>2, <1>3
\* A file opened through an object that is up.
LEMMA FileUp ==
  ASSUME TypeInv, Handling, NEW o, o \in ObjSet, o.gen = gen, isUp,
         o.disk \in internal \cup external, NEW n \in Nat
  PROVE  /\ FileOK(File(o, n, m))
         /\ File(o, n, m).disk = o.disk /\ File(o, n, m).gen = gen
         /\ File(o, n, m).name = n
         /\ File(o, n, m).by = m.type /\ File(o, n, m).ref = m.ref
<1>1. m.type \in Types /\ m.ref \in Nat
  BY DEF Handling
<1>2. gen \in Nat /\ gen # 0 /\ o.disk \in Drive
  BY NoneInternal DEF TypeInv, StorageTypeOK
<1> QED
  BY <1>1, <1>2 DEF File, FileOK, FileSet

\* A recording makes a file that was not there.
LEMMA RecordIntoEffect ==
  ASSUME TypeInv, DefaultInv, Handling, m.type \in {"REC", "SPC"},
         NEW f, f = File(Chosen, m.ref, m), recordInto(f)
  PROVE  CmdEffect
<1>1. /\ Up(Chosen)
      /\ m.ref \notin contents[Chosen.disk]
      /\ contents' = [contents EXCEPT ![Chosen.disk] = @ \cup {m.ref}]
      /\ keepChosen /\ UNCHANGED <<scan, histVars>>
      /\ UNCHANGED <<mounted, isUp, asynch, internal, external, gen, listing, watch, label>>
  BY ChosenUp, AcceptingGoes
     DEF recordInto, openOut, CanCreate, Accepted, Handling
<1>2. PICK c : c = Chosen
  OBVIOUS
<1>3. c \in ObjSet /\ c.gen = gen /\ c.disk \in internal /\ c.disk \in Drive /\ Usable /\ isUp
  BY <1>1, <1>2, NoneInternal DEF Up, HasInternal, Usable
<1>4. /\ FileOK(f) /\ f.disk = c.disk /\ f.gen = gen /\ f.name = m.ref
      /\ f.by = m.type /\ f.ref = m.ref
  <2>1. m.ref \in Nat
    BY DEF Handling
  <2> QED
    BY <1>2, <1>3, <2>1, FileUp
<1>5. contents' \in [Drive -> SUBSET Nat] /\ Grows /\ m.ref \in contents'[c.disk]
  <2>1. contents \in [Drive -> SUBSET Nat] /\ m.ref \in Nat
    BY DEF TypeInv, Handling
  <2>2. contents' = [contents EXCEPT ![c.disk] = @ \cup {m.ref}]
    BY <1>1, <1>2
  <2>3. contents' \in [Drive -> SUBSET Nat] /\ m.ref \in contents'[c.disk]
    BY <1>3, <2>1, <2>2
  <2>4. \A d \in Drive : contents[d] \subseteq contents'[d]
    BY <1>3, <2>1, <2>2
  <2> QED
    BY <2>3, <2>4 DEF Grows
<1>6. StorageSame /\ SelEffect /\ UNCHANGED <<label, twins, downUnder, dangling, scan>>
  BY <1>1, KeepChosenSel DEF StorageSame, histVars
<1>7. CASE active' = active \cup {f} /\ Accepted(Chosen, {f})
  <2>1. PICK o : o = Op(c, {f})
    OBVIOUS
  <2>2. /\ o \in OpSet /\ o.kind = m.type /\ o.ref = m.ref /\ o.files = {f}
        /\ ops' = ops \cup {o}
    BY <1>2, <1>3, <1>4, <1>7, <2>1, OpShape DEF Accepted, FileOK
  <2>3. Alive(o)
    BY <1>3, <1>4, <2>2 DEF Alive
  <2>4. Adds(o)
    <3>1. Accepting /\ active' = active \cup o.files /\ wiped' = wiped /\ leaked' = leaked
      BY <1>1, <1>7, <2>2 DEF Handling, histVars
    <3>2. o.kind \notin Sole /\ o.kind # "DEL"
      BY <2>2 DEF Sole
    <3> QED
      BY <1>1, <1>2, <1>3, <1>4, <1>5, <2>2, <2>3, <3>1, <3>2 DEF Adds
  <2> QED
    BY <1>4, <1>5, <1>6, <1>7, <2>4 DEF CmdEffect
<1>8. CASE active' = active /\ ops' = ops
  <2>1. Quiet
    BY <1>1, <1>5, <1>8 DEF Quiet, histVars
  <2> QED
    BY <1>5, <1>6, <1>8, <2>1 DEF CmdEffect
<1> QED
  BY <1>7, <1>8 DEF recordInto

\* REC and SPC.
LEMMA RecEffect ==
  ASSUME TypeInv, DefaultInv, onRec \/ onSpc
  PROVE  CmdEffect
<1>1. Handling /\ m.type \in {"REC", "SPC"} /\ recorded
  BY TakesHandles DEF onRec, onSpc
<1>2. CASE Refuse
  BY <1>2, RefuseEffect
<1>3. CASE Decline
  BY <1>3, DeclineEffect
<1>4. CASE recordInto(File(Chosen, m.ref, m))
  BY <1>1, <1>4, RecordIntoEffect
<1> QED
  BY <1>1, <1>2, <1>3, <1>4 DEF recorded

\* A file that is left open, and not by a transfer.
LEMMA LeftOpenEffect ==
  ASSUME TypeInv, DefaultInv, Handling, m.type \notin {"CPY", "DMP"},
         Chosen # NoObject, keepChosen,
         active' = active \/ active' = active \cup {File(Chosen, m.arg, m)},
         UNCHANGED <<mounted, isUp, asynch, internal, external, gen, contents,
                     listing, watch, label, scan, ops, histVars>>
  PROVE  CmdEffect
<1>1. PICK c : c = Chosen
  OBVIOUS
<1>2. c \in ObjSet /\ c.gen = gen /\ c.disk \in internal /\ isUp
  BY <1>1, ChosenUp, AcceptingGoes DEF Up, HasInternal, Usable, Handling
<1>3. PICK f : f = File(c, m.arg, m)
  OBVIOUS
<1>4. FileOK(f) /\ f.by = m.type
  <2>1. m.arg \in Nat
    BY DEF Handling
  <2> QED
    BY <1>2, <1>3, <2>1, FileUp
<1>5. \A g \in active' : g \in active \/ g = f
  BY <1>1, <1>3
<1>6. Quiet
  BY <1>4, <1>5 DEF Quiet, Grows, histVars
<1>7. StorageSame /\ SelEffect /\ UNCHANGED <<label, twins, downUnder, dangling, scan>>
  BY KeepChosenSel DEF StorageSame, histVars
<1>8. contents' \in [Drive -> SUBSET Nat]
  BY DEF TypeInv
<1> QED
  BY <1>4, <1>5, <1>6, <1>7, <1>8 DEF CmdEffect

\* GET.
LEMMA GetEffect ==
  ASSUME TypeInv, DefaultInv, onGet
  PROVE  CmdEffect
<1>1. Handling /\ m.type = "GET"
  BY TakesHandles DEF onGet
<1>2. CASE Refuse
  BY <1>2, RefuseEffect
<1>3. CASE Decline
  BY <1>3, DeclineEffect
<1>4. CASE ~Refuse /\ ~Decline
  BY <1>1, <1>4, LeftOpenEffect DEF onGet
<1> QED
  BY <1>2, <1>3, <1>4

\* DEL keeps the path of a file that is there.
LEMMA DelEffect ==
  ASSUME TypeInv, DefaultInv, onDel
  PROVE  CmdEffect
<1>1. Handling /\ m.type = "DEL"
  BY TakesHandles DEF onDel
<1>2. CASE Refuse
  BY <1>2, RefuseEffect
<1>3. CASE Decline
  BY <1>3, DeclineEffect
<1>4. CASE /\ Chosen # NoObject /\ keepChosen
           /\ active' = active \cup {File(Chosen, m.arg, m)}
           /\ UNCHANGED <<mounted, isUp, asynch, internal, external, gen, contents,
                          listing, watch, label, scan, ops, histVars>>
  BY <1>1, <1>4, LeftOpenEffect
<1>5. CASE /\ Chosen # NoObject /\ Idle /\ CanOpen(Chosen, m.arg)
           /\ Accepted(Chosen, {})
           /\ UNCHANGED storageVars
  <2>1. PICK c : c = Chosen
    OBVIOUS
  <2>2. c \in ObjSet /\ c.disk \in Drive /\ m.arg \in contents[c.disk]
    BY <1>1, <1>5, <2>1, ChosenUp, AcceptingGoes, NoneInternal
       DEF Up, Handling, CanOpen
  <2>3. PICK o : o = Op(c, {})
    OBVIOUS
  <2>4. /\ o \in OpSet /\ o.kind = "DEL" /\ o.files = {} /\ o.obj = c /\ o.arg = m.arg
        /\ ops' = ops \cup {o}
    BY <1>1, <1>5, <2>1, <2>2, <2>3, OpShape DEF Accepted
  <2>5. StorageSame /\ SelEffect /\ UNCHANGED <<label, twins, downUnder, dangling, scan>>
    BY <1>5, KeepChosenSel DEF StorageSame, histVars, storageVars, Accepted
  <2>6. contents' \in [Drive -> SUBSET Nat] /\ active' = active
    BY <1>5 DEF TypeInv, storageVars
  <2>7. Adds(o)
    <3>1. Grows /\ Accepting /\ wiped' = wiped /\ leaked' = leaked /\ ops = {}
      BY <1>1, <1>5 DEF Grows, Handling, storageVars, histVars, Accepted, Idle
    <3>2. ~Needs(o) /\ active' = active \cup o.files
      BY <2>4, <2>6 DEF Needs
    <3> QED
      BY <2>2, <2>4, <3>1, <3>2 DEF Adds
  <2> QED
    BY <2>5, <2>6, <2>7 DEF CmdEffect
<1> QED
  BY <1>2, <1>3, <1>4, <1>5 DEF onDel

\* CPY and DMP make files on the external drive that were not there.
LEMMA TransferEffect ==
  ASSUME TypeInv, DefaultInv, Handling, m.type \in {"CPY", "DMP"},
         NEW in, in = File(Chosen, m.arg, m),
         NEW out, out = {File(Object(m.to), n, m) : n \in m.out},
         transfer(in, out)
  PROVE  CmdEffect
<1>1. /\ Up(Chosen) /\ Idle
      /\ m.to \in external
      /\ \A n \in m.out : n \notin contents[Object(m.to).disk]
      /\ contents' = [contents EXCEPT ![m.to] = @ \cup m.out]
      /\ active' = active \cup {in} \cup out
      /\ Accepted(Chosen, {in} \cup out)
      /\ UNCHANGED <<mounted, isUp, asynch, internal, external, gen, listing, watch, label>>
  BY ChosenUp, AcceptingGoes DEF transfer, openOut, CanCreate, Handling
<1>2. keepChosen /\ UNCHANGED <<scan, histVars>>
  BY <1>1 DEF Accepted
<1>3. PICK c : c = Chosen
  OBVIOUS
<1>4. PICK t : t = Object(m.to)
  OBVIOUS
<1>5. m.arg \in Nat /\ m.out \subseteq Nat
  BY DEF Handling
<1>6. /\ c \in ObjSet /\ c.gen = gen /\ c.disk \in internal /\ c.disk \notin Ext
      /\ Usable /\ isUp
  BY <1>1, <1>3, StorageAssumption DEF Up, HasInternal, Usable, TypeInv, StorageTypeOK
<1>7. t \in ObjSet /\ t.gen = gen /\ t.disk = m.to /\ m.to \in Drive
  BY <1>1, <1>4, NoneInternal DEF Object, ObjSet, TypeInv, StorageTypeOK
<1>8. /\ FileOK(in) /\ in.disk = c.disk /\ in.gen = gen
      /\ in.by = m.type /\ in.ref = m.ref
  BY <1>3, <1>5, <1>6, FileUp
<1>9. \A f \in out : /\ FileOK(f) /\ f.disk = m.to /\ f.gen = gen /\ f.name \in m.out
                     /\ f.by = m.type /\ f.ref = m.ref
  <2> SUFFICES ASSUME NEW n \in m.out
               PROVE  LET f == File(t, n, m)
                      IN /\ FileOK(f) /\ f.disk = m.to /\ f.gen = gen /\ f.name \in m.out
                         /\ f.by = m.type /\ f.ref = m.ref
    BY <1>4
  <2> QED
    BY <1>1, <1>5, <1>6, <1>7, FileUp
<1>10. contents' \in [Drive -> SUBSET Nat] /\ Grows /\ m.out \subseteq contents'[m.to]
  <2>1. contents \in [Drive -> SUBSET Nat]
    BY DEF TypeInv
  <2>2. contents' \in [Drive -> SUBSET Nat] /\ m.out \subseteq contents'[m.to]
    BY <1>1, <1>5, <1>7, <2>1
  <2>3. \A d \in Drive : contents[d] \subseteq contents'[d]
    BY <1>1, <1>7, <2>1
  <2> QED
    BY <2>2, <2>3 DEF Grows
<1>11. StorageSame /\ SelEffect /\ UNCHANGED <<label, twins, downUnder, dangling, scan>>
  BY <1>1, <1>2, KeepChosenSel DEF StorageSame, histVars
<1>12. PICK fs : fs = {in} \cup out
  OBVIOUS
<1>13. fs \subseteq FileSet
  BY <1>8, <1>9, <1>12 DEF FileOK
<1>14. PICK o : o = Op(c, fs)
  OBVIOUS
<1>15. /\ o \in OpSet /\ o.kind = m.type /\ o.ref = m.ref /\ o.files = fs
       /\ ops' = ops \cup {o}
  BY <1>1, <1>3, <1>6, <1>12, <1>13, <1>14, OpShape DEF Accepted
<1>16. Alive(o)
  BY <1>1, <1>6, <1>8, <1>9, <1>12, <1>15 DEF Alive
<1>17. Adds(o)
  <2>1. /\ Accepting /\ ops = {} /\ wiped' = wiped /\ leaked' = leaked
        /\ active' = active \cup o.files
    BY <1>1, <1>2, <1>12, <1>15 DEF Handling, histVars, Idle
  <2>2. \A f \in o.files : IsOutput(o, f) =>
          f.name \notin contents[f.disk] /\ f.name \in contents'[f.disk]
    <3> SUFFICES ASSUME NEW f \in o.files, IsOutput(o, f)
                 PROVE  f.name \notin contents[f.disk] /\ f.name \in contents'[f.disk]
      OBVIOUS
    <3>1. f \in out
      BY <1>6, <1>8, <1>12, <1>15 DEF IsOutput
    <3> QED
      BY <1>1, <1>4, <1>7, <1>9, <1>10, <3>1
  <2>3. \A f \in o.files : f.by = o.kind /\ f.ref = o.ref
    BY <1>8, <1>9, <1>12, <1>15
  <2>4. o.kind # "DEL"
    BY <1>15
  <2> QED
    BY <1>6, <1>10, <1>15, <1>16, <2>1, <2>2, <2>3, <2>4 DEF Adds
<1>18. \A f \in active' : f \in active \/ FileOK(f)
  BY <1>1, <1>8, <1>9
<1> QED
  BY <1>10, <1>11, <1>17, <1>18 DEF CmdEffect

\* A transfer that fails with files open has put them all back.
LEMMA TransferFailsEffect ==
  ASSUME TypeInv, NEW in, NEW out, transferFails(in, out)
  PROVE  Decline
<1>1. PICK n \in m.out : cleanUp(in, {f \in out : f.name < n})
  BY DEF transferFails
<1>2. /\ active' = active \cup {}
      /\ contents' = [contents EXCEPT ![m.to] = @ \cup {f.name : f \in {}}]
  BY <1>1 DEF cleanUp, cleanedUp
<1>3. contents' = contents
  BY <1>2 DEF TypeInv
<1> QED
  BY <1>2, <1>3 DEF transferFails, Decline, storageVars

\* CPY and DMP.
LEMMA CpyEffect ==
  ASSUME TypeInv, DefaultInv, onCpy \/ onDmp
  PROVE  CmdEffect
<1>1. Handling /\ m.type \in {"CPY", "DMP"} /\ transferred
  BY TakesHandles DEF onCpy, onDmp
<1>2. CASE Refuse
  BY <1>2, RefuseEffect
<1>3. CASE Decline
  BY <1>3, DeclineEffect
<1>4. CASE transfer(File(Chosen, m.arg, m), {File(Object(m.to), n, m) : n \in m.out})
  BY <1>1, <1>4, TransferEffect
<1>5. CASE transferFails(File(Chosen, m.arg, m), {File(Object(m.to), n, m) : n \in m.out})
  BY <1>5, TransferFailsEffect, DeclineEffect
<1> QED
  BY <1>1, <1>2, <1>3, <1>4, <1>5 DEF transferred

\* STP: the files of a transfer that goes away are on record in leaked.
LEMMA StpEffect ==
  ASSUME TypeInv, onStp
  PROVE  CmdEffect
<1>1. CASE Refuse
  BY <1>1, RefuseEffect
<1>2. CASE ~Refuse
  <2>1. PICK o \in ops :
          /\ ops' = IF o.st = "run" /\ o.kind \in {"CPY", "DMP"} THEN ops ELSE ops \ {o}
          /\ leaked' = IF o.st = "wait" THEN leaked \cup o.files ELSE leaked
          /\ UNCHANGED <<storageVars, scan, selVars, downUnder, dangling, twins, wiped>>
    BY <1>2 DEF onStp
  <2>2. PICK S : S = IF o.st = "run" /\ o.kind \in {"CPY", "DMP"} THEN {} ELSE {o}
    OBVIOUS
  <2>3. Drops(S)
    <3>1. o.st \in {"wait", "run"}
      BY DEF TypeInv, OpSet
    <3>2. \A p \in S \cap ops : p.kind \in {"CPY", "DMP"} => p.files \subseteq leaked'
      BY <2>1, <2>2, <3>1
    <3> QED
      BY <2>1, <2>2, <3>2 DEF Drops, Grows, storageVars
  <2>4. StorageSame /\ SelEffect /\ UNCHANGED <<label, twins, downUnder, dangling, scan>>
    BY <2>1 DEF StorageSame, SelEffect, storageVars
  <2>5. contents' \in [Drive -> SUBSET Nat] /\ active' = active
    BY <2>1 DEF TypeInv, storageVars
  <2> QED
    BY <2>3, <2>4, <2>5 DEF CmdEffect
<1> QED
  BY <1>1, <1>2
-----------------------------------------------------------------------------
(* The invariant after a step.                                             *)

\* With the same drives and names an array select finds the same drive.
LEMMA ResolveSame ==
  ASSUME internal' = internal, label' = label
  PROVE  resolveArraySelect(select)' = resolveArraySelect(select')
BY DEF resolveArraySelect

\* Looking up the default drive keeps it selected.
LEMMA SelKeeps ==
  ASSUME TypeInv, DefaultInv, Going, phase' = phase,
         StorageSame, SelEffect, UNCHANGED <<label, twins>>
  PROVE  DefaultInv' /\ defaultDRSU' \in ObjSet
<1>1. internal' = internal /\ gen' = gen /\ label' = label /\ twins' = twins
      /\ (Usable' <=> Usable)
  BY DEF StorageSame, Usable
<1>2. Going' /\ phase' # "boot"
  BY DEF Going
<1>3. resolveArraySelect(select)' = resolveArraySelect(select')
  BY <1>1, ResolveSame
<1>4. CASE UNCHANGED selVars
  <2>1. defaultDRSU' = defaultDRSU /\ select' = select
    BY <1>4 DEF selVars
  <2> QED
    BY <1>1, <1>2, <1>3, <2>1 DEF DefaultInv, NoObject, TypeInv, ObjSet, None, Drive
<1>5. CASE HasInternal /\ keepDefault
  <2>1. Up(getDefaultStorage) /\ defaultDRSU' = getDefaultStorage /\ Usable
    BY <1>5, DefaultUp DEF keepDefault, HasInternal
  <2>2. ~twins => resolveArraySelect(select') = getDefaultStorage.disk
    <3>1. CASE defaultDRSU = NoObject
      BY <1>5, <3>1 DEF keepDefault, getDefaultStorage, Object
    <3>2. CASE defaultDRSU # NoObject
      BY <1>5, <3>2 DEF keepDefault, getDefaultStorage, DefaultInv
    <3> QED
      BY <3>1, <3>2
  <2> QED
    BY <1>1, <1>2, <1>3, <2>1, <2>2 DEF DefaultInv, Up, ObjSet, Drive, None
<1> QED
  BY <1>4, <1>5 DEF SelEffect

\* Operations that need storage have it as long as it stays.
LEMMA AliveSame ==
  ASSUME StorageSame, NEW o
  PROVE  (Alive(o)' <=> Alive(o)) /\ (Usable' <=> Usable)
BY DEF StorageSame, Alive, Usable, Exists

\* Accepting or dropping operations leaves the others their storage.
LEMMA AliveKeeps ==
  ASSUME AliveInv, StorageSame, UNCHANGED <<downUnder, dangling>>,
         \A o \in ops' : o \in ops \/ (Needs(o) => Usable /\ Alive(o))
  PROVE  AliveInv'
<1> SUFFICES ASSUME ~downUnder
             PROVE  ~dangling /\ \A o \in ops' : Needs(o) => Usable' /\ Alive(o)'
  BY DEF AliveInv, Needs, Usable, Alive, Exists
<1>1. \A o : (Alive(o)' <=> Alive(o)) /\ (Usable' <=> Usable)
  BY AliveSame
<1> QED
  BY <1>1 DEF AliveInv
\* The types of storage after a step that leaves it as it is.
LEMMA StorageSameType ==
  ASSUME TypeInv, StorageSame, contents' \in [Drive -> SUBSET Nat],
         \A f \in active' : f \in active \/ FileOK(f), label' \in [Disk -> Label]
  PROVE  StorageTypeOK' /\ active' \subseteq FileSet /\ (isUp' => gen' # 0)
<1>1. \A f \in active' : f \in FileSet /\ f.disk \in Drive /\ f.gen \in 1 .. gen
  BY DEF TypeInv, StorageTypeOK, FileOK, FileSet
<1>2. /\ mounted' \subseteq Drive /\ isUp' \in BOOLEAN
      /\ asynch' \in {"no", "up", "upFull", "down", "downFull"}
      /\ internal' \subseteq Disk /\ external' \subseteq Ext
      /\ gen' = gen /\ gen \in Nat /\ DOMAIN listing' = Drive
      /\ watch' \in {"off", "new", "on", "lost"}
  BY DEF TypeInv, StorageTypeOK, StorageSame
<1>3. isUp' => gen' # 0
  BY DEF TypeInv, StorageSame
<1>4. DOMAIN contents' = Drive
  OBVIOUS
<1>5. StorageTypeOK'
  BY <1>1, <1>2, <1>4 DEF StorageTypeOK, Drive
<1> QED
  BY <1>1, <1>3, <1>5

\* A command that leaves storage as it is keeps the invariant.
LEMMA CmdKeeps ==
  ASSUME CtlInv, Handling, CmdEffect
  PROVE  CtlInv'
<1>1. TypeInv /\ OpsInv /\ DefaultInv /\ AliveInv /\ StorageSame
      /\ SelEffect /\ UNCHANGED <<label, twins, downUnder, dangling, scan>>
  BY DEF CtlInv, OpsInv, CmdEffect
<1>2. Going /\ phase' = phase /\ Gate
  BY AcceptingGoes DEF Handling, Gate
<1>3. DefaultInv' /\ defaultDRSU' \in ObjSet
  BY <1>1, <1>2, SelKeeps
<1>4. OpsInv'
  BY <1>1, <1>2, QuietKeeps, AddsKeeps, DropsKeeps DEF CmdEffect
<1>5. \A o \in ops' : o \in ops \/ (o \in OpSet /\ (Needs(o) => Usable /\ Alive(o)))
  BY DEF CmdEffect, Quiet, Adds, Drops
<1>6. AliveInv'
  BY <1>1, <1>5, AliveKeeps
<1>7. label' \in [Disk -> Label]
  BY <1>1 DEF TypeInv, StorageTypeOK
<1>8. TypeInv'
  <2>1. StorageTypeOK' /\ active' \subseteq FileSet /\ (isUp' => gen' # 0)
    BY <1>1, <1>7, StorageSameType DEF CmdEffect
  <2>2. ops' \subseteq OpSet
    BY <1>1, <1>5 DEF TypeInv
  <2>3. contents' \in [Drive -> SUBSET Nat] /\ mpq' \in Seq(Cmds)
    BY DEF CmdEffect, Handling
  <2> QED
    BY <1>3, <2>1, <2>2, <2>3 DEF TypeInv, ObjSet, FileSet, OpSet, Drive, None
<1>9. FlagInv'
  BY <1>1 DEF CtlInv, FlagInv, Handling, lifeVars
<1>10. PhaseInv'
  BY DEF CtlInv, PhaseInv, Handling, Accepting, lifeVars, Phases
<1> QED
  BY <1>3, <1>4, <1>6, <1>8, <1>9, <1>10 DEF CtlInv, OpsInv

\* The same for a command that only changes the default drive.
LEMMA QuietCommand ==
  ASSUME CtlInv, Handling, Quiet, StorageSame, contents' = contents, active' = active,
         UNCHANGED <<downUnder, dangling, scan>>, label' \in [Disk -> Label],
         DefaultInv', defaultDRSU' \in ObjSet
  PROVE  CtlInv'
<1>1. TypeInv /\ OpsInv /\ AliveInv /\ Gate
  BY DEF CtlInv, OpsInv, Gate, Handling
<1>2. OpsInv'
  BY <1>1, QuietKeeps
<1>3. AliveInv'
  BY <1>1, AliveKeeps DEF Quiet
<1>4. contents' \in [Drive -> SUBSET Nat] /\ ops' \subseteq OpSet /\ mpq' \in Seq(Cmds)
  BY <1>1 DEF TypeInv, Quiet, Handling
<1>5. StorageTypeOK' /\ active' \subseteq FileSet /\ (isUp' => gen' # 0)
  BY <1>1, <1>4, StorageSameType
<1>6. TypeInv'
  BY <1>4, <1>5 DEF TypeInv, ObjSet, FileSet, OpSet, Drive, None
<1>7. FlagInv' /\ PhaseInv'
  BY DEF CtlInv, FlagInv, PhaseInv, Handling, Accepting, lifeVars, Phases
<1> QED
  BY <1>2, <1>3, <1>6, <1>7 DEF CtlInv, OpsInv

\* SEL: the new default drive is the one selected.
LEMMA SelCommand ==
  ASSUME CtlInv, setDefaultStorage
  PROVE  CtlInv'
<1>1. TypeInv /\ DefaultInv
  BY DEF CtlInv
<1>2. Handling
  BY <1>1, TakesHandles DEF setDefaultStorage
<1>3. UNCHANGED <<storageVars, scan, ops, histVars>>
  BY DEF setDefaultStorage
<1>4. /\ Quiet /\ StorageSame /\ contents' = contents /\ active' = active
      /\ UNCHANGED <<label, twins, downUnder, dangling, scan>>
      /\ label' \in [Disk -> Label]
  BY <1>1, <1>3 DEF Quiet, Grows, StorageSame, storageVars, histVars, TypeInv, StorageTypeOK
<1>5. DefaultInv' /\ defaultDRSU' \in ObjSet
  <2>1. CASE UNCHANGED selVars
    <3>1. Going /\ phase' = phase /\ SelEffect
      BY <1>2, <2>1, AcceptingGoes DEF Handling, SelEffect
    <3> QED
      BY <1>1, <1>4, <3>1, SelKeeps
  <2>2. CASE ~UNCHANGED selVars
    <3>1. PICK as : /\ getAlternateStorage(as) # NoObject
                    /\ defaultDRSU' = getAlternateStorage(as) /\ select' = as
      BY <2>2 DEF setDefaultStorage
    <3>2. Up(defaultDRSU')
      BY <1>1, <3>1, AlternateUp
    <3>3. resolveArraySelect(select') = defaultDRSU'.disk
      BY <3>1 DEF getAlternateStorage, Object
    <3>4. resolveArraySelect(select)' = resolveArraySelect(select')
      BY <1>4, ResolveSame DEF StorageSame
    <3>5. Usable' /\ gen' = gen /\ internal' = internal
      BY <1>4, <3>2 DEF StorageSame, Usable, Up, HasInternal
    <3>6. phase' # "boot"
      BY <1>2 DEF Handling, Accepting
    <3> QED
      BY <3>2, <3>3, <3>4, <3>5, <3>6 DEF DefaultInv, Up, ObjSet, Drive, None
  <2> QED
    BY <2>1, <2>2
<1> QED
  BY <1>2, <1>4, <1>5, QuietCommand

\* DVN: the array select follows the drive to its new name.
LEMMA DvnCommand ==
  ASSUME CtlInv, onDvn
  PROVE  CtlInv'
<1>1. TypeInv /\ DefaultInv
  BY DEF CtlInv
<1>2. Handling /\ m.type = "DVN" /\ Going
  BY <1>1, TakesHandles, AcceptingGoes DEF onDvn, Handling
<1>3. CASE Refuse
  BY <1>1, <1>2, <1>3, RefuseEffect, CmdKeeps
<1>4. CASE ~Refuse
  <2>1. PICK s : s = getDefaultStorage.disk
    OBVIOUS
  <2>2. /\ HasInternal
        /\ defaultDRSU' = getDefaultStorage
        /\ \/ /\ select' = IF defaultDRSU = NoObject THEN chosen ELSE select
              /\ UNCHANGED <<label, twins>>
           \/ /\ setVolumeName(s, m.arg)
              /\ label' = [label EXCEPT ![s] = m.arg]
              /\ twins' = (twins \/ \E d \in Disk \ {s} : label[d] = m.arg)
        /\ UNCHANGED <<mounted, isUp, asynch, internal, external, gen, contents, listing,
                       watch, active, scan, ops, downUnder, dangling, leaked, wiped>>
    BY <1>4, <2>1 DEF onDvn
  <2>3. Quiet /\ StorageSame
    BY <2>2 DEF Quiet, Grows, StorageSame
  <2>4. Up(getDefaultStorage) /\ s \in internal /\ Usable
    BY <1>1, <1>2, <2>1, <2>2, DefaultUp DEF Up, HasInternal
  <2>5. CASE /\ select' = IF defaultDRSU = NoObject THEN chosen ELSE select
             /\ UNCHANGED <<label, twins>>
    <3>1. SelEffect /\ phase' = phase
      BY <1>2, <2>2, <2>5 DEF SelEffect, keepDefault, Handling
    <3>2. DefaultInv' /\ defaultDRSU' \in ObjSet
      BY <1>1, <1>2, <2>3, <2>5, <3>1, SelKeeps
    <3>3. label' \in [Disk -> Label]
      BY <1>1, <2>5 DEF TypeInv, StorageTypeOK
    <3> QED
      BY <1>2, <2>2, <2>3, <3>2, <3>3, QuietCommand
  <2>6. CASE /\ setVolumeName(s, m.arg)
             /\ label' = [label EXCEPT ![s] = m.arg]
             /\ twins' = (twins \/ \E d \in Disk \ {s} : label[d] = m.arg)
    <3>1. label \in [Disk -> Label] /\ internal \subseteq Disk /\ internal \subseteq Nat
      BY <1>1, StorageAssumption DEF TypeInv, StorageTypeOK
    <3>2. m.arg \in Label
      BY <1>2, ControlAssumption DEF Handling
    <3>3. label' \in [Disk -> Label]
      BY <2>6, <3>1, <3>2
    <3>4. ASSUME ~twins' PROVE resolveArraySelect(select)' = s
      <4>1. ~twins /\ \A d \in Disk : d # s => label[d] # m.arg
        BY <2>6, <3>4
      <4>2. resolveArraySelect(chosen) = s
        <5>1. CASE defaultDRSU = NoObject
          BY <2>1, <5>1 DEF getDefaultStorage, Object
        <5>2. CASE defaultDRSU # NoObject
          <6>1. resolveArraySelect(select) = s
            BY <1>1, <1>2, <2>1, <4>1, <5>2 DEF getDefaultStorage, DefaultInv
          <6>2. s # None
            BY <1>1, <2>4, NoneInternal
          <6> QED
            BY <6>1, <6>2 DEF chosen
        <5> QED
          BY <5>1, <5>2
      <4>3. select' = [by |-> "name", at |-> m.arg]
        BY <2>6, <4>2 DEF setVolumeName
      <4>4. \A d \in internal : label'[d] = m.arg <=> d = s
        BY <2>4, <2>6, <3>1, <4>1
      <4>5. {d \in internal : label'[d] = m.arg} = {s}
        BY <2>4, <4>4
      <4>6. internal' = internal
        BY <2>2
      <4>7. resolveArraySelect(select)' = IF {s} = {} THEN None ELSE Min({s})
        BY <4>3, <4>5, <4>6 DEF resolveArraySelect
      <4>8. Min({s}) = s
        BY <2>4, <3>1, LeastDrive
      <4> QED
        BY <4>7, <4>8
    <3>5. Usable' /\ gen' = gen /\ internal' = internal
      BY <2>2, <2>4 DEF Usable
    <3>6. phase' # "boot"
      BY <1>2 DEF Handling, Accepting
    <3>7. DefaultInv' /\ defaultDRSU' \in ObjSet
      BY <2>1, <2>2, <2>4, <3>4, <3>5, <3>6 DEF DefaultInv, Up, ObjSet, Drive, None
    <3> QED
      BY <1>2, <2>2, <2>3, <3>3, <3>7, QuietCommand
  <2> QED
    BY <2>2, <2>5, <2>6
<1> QED
  BY <1>3, <1>4

\* DWN forgets the default drive; operations that were accepted are on record.
LEMMA DwnCommand ==
  ASSUME CtlInv, requestDown
  PROVE  CtlInv'
<1>1. TypeInv /\ OpsInv /\ AliveInv
  BY DEF CtlInv, OpsInv
<1>2. Handling
  BY <1>1, TakesHandles DEF requestDown
<1>3. /\ defaultDRSU' = NoObject
      /\ scan' = [scan EXCEPT !.asynchFull = (m.arg = 1)]
      /\ asynch' = IF ~CanDownAsynch THEN asynch
                   ELSE IF ~scan.initial \/ m.arg = 1 THEN "downFull" ELSE "down"
      /\ downUnder' = (downUnder \/ (CanDownAsynch /\ ~Idle))
      /\ UNCHANGED <<mounted, isUp, internal, external, gen, contents, listing, watch,
                     active, label, ops, dangling, leaked, wiped>>
  BY DEF requestDown, forgetDefault
<1>4. OpsInv'
  <2>1. Quiet /\ Gate
    BY <1>2, <1>3 DEF Quiet, Grows, Gate, Handling
  <2> QED
    BY <1>1, <2>1, QuietKeeps
<1>5. AliveInv'
  <2> SUFFICES ASSUME ~downUnder'
               PROVE  ~dangling' /\ \A o \in ops' : Needs(o) => Usable' /\ Alive(o)'
    BY DEF AliveInv, Needs, Usable, Alive, Exists
  <2>1. ~downUnder /\ (CanDownAsynch => ops = {})
    BY <1>3 DEF Idle
  <2>2. ~CanDownAsynch => StorageSame
    BY <1>3 DEF StorageSame
  <2>3. ~CanDownAsynch => \A o : (Alive(o)' <=> Alive(o)) /\ (Usable' <=> Usable)
    BY <2>2, AliveSame
  <2> QED
    BY <1>1, <1>3, <2>1, <2>3 DEF AliveInv
<1>6. DefaultInv'
  BY <1>3 DEF DefaultInv, NoObject, None
<1>7. StorageTypeOK'
  BY <1>1, <1>3 DEF TypeInv, StorageTypeOK, Drive
<1>8. TypeInv'
  <2>1. mpq' \in Seq(Cmds) /\ NoObject \in ObjSet
    BY <1>2 DEF Handling, NoObject, ObjSet
  <2> QED
    BY <1>1, <1>3, <1>7, <2>1 DEF TypeInv, ObjSet, FileSet, OpSet, Drive, None
<1>9. FlagInv'
  BY <1>2, <1>3 DEF CtlInv, FlagInv, Handling, lifeVars
<1>10. PhaseInv'
  BY <1>2 DEF CtlInv, PhaseInv, Handling, Accepting, lifeVars, Phases
<1> QED
  BY <1>4, <1>5, <1>6, <1>8, <1>9, <1>10 DEF CtlInv, OpsInv

\* UP is accepted when storage is down, so nothing depends on it.
LEMMA UpCommand ==
  ASSUME CtlInv, requestUp
  PROVE  CtlInv'
<1>1. TypeInv /\ OpsInv /\ AliveInv /\ DefaultInv
  BY DEF CtlInv, OpsInv
<1>2. Handling /\ Going
  BY <1>1, TakesHandles, AcceptingGoes DEF requestUp, Handling
<1>3. CASE Refuse
  BY <1>1, <1>2, <1>3, RefuseEffect, CmdKeeps
<1>4. CASE ~Refuse
  <2>1. /\ CanUpAsynch
        /\ asynch' \in {"upFull", "up"}
        /\ scan' = [initial |-> TRUE, reboot |-> FALSE, asynchFull |-> FALSE]
        /\ UNCHANGED <<mounted, isUp, internal, external, gen, contents, listing, watch,
                       active, label, selVars, ops, histVars>>
    BY <1>4 DEF requestUp
  <2>2. ~Usable /\ defaultDRSU = NoObject /\ defaultDRSU' = NoObject
    BY <1>1, <1>2, <2>1 DEF CanUpAsynch, Usable, DefaultInv, selVars
  <2>3. OpsInv'
    <3>1. Quiet /\ Gate
      BY <1>2, <2>1 DEF Quiet, Grows, Gate, Handling, histVars
    <3> QED
      BY <1>1, <3>1, QuietKeeps
  <2>4. AliveInv'
    <3> SUFFICES ASSUME ~downUnder'
                 PROVE  ~dangling' /\ \A o \in ops' : Needs(o) => Usable' /\ Alive(o)'
      BY DEF AliveInv, Needs, Usable, Alive, Exists
    <3> QED
      BY <1>1, <2>1, <2>2 DEF AliveInv, histVars
  <2>5. DefaultInv'
    BY <2>2 DEF DefaultInv, NoObject, None
  <2>6. StorageTypeOK'
    BY <1>1, <2>1 DEF TypeInv, StorageTypeOK, Drive
  <2>7. TypeInv'
    <3>1. mpq' \in Seq(Cmds) /\ NoObject \in ObjSet
      BY <1>2 DEF Handling, NoObject, ObjSet
    <3> QED
      BY <1>1, <2>1, <2>2, <2>6, <3>1 DEF TypeInv, ObjSet, FileSet, OpSet, Drive, None
  <2>8. FlagInv'
    BY <1>2, <2>1 DEF CtlInv, FlagInv, Handling, lifeVars
  <2>9. PhaseInv'
    BY <1>2 DEF CtlInv, PhaseInv, Handling, Accepting, lifeVars, Phases
  <2> QED
    BY <2>3, <2>4, <2>5, <2>7, <2>8, <2>9 DEF CtlInv, OpsInv
<1> QED
  BY <1>3, <1>4

\* Every command keeps the invariant.
LEMMA CommandKeeps ==
  ASSUME CtlInv, onDoReceive
  PROVE  CtlInv'
<1>1. TypeInv /\ DefaultInv
  BY DEF CtlInv
<1>2. CASE setDefaultStorage
  BY <1>2, SelCommand
<1>3. CASE onDvn
  BY <1>3, DvnCommand
<1>4. CASE requestDown
  BY <1>4, DwnCommand
<1>5. CASE requestUp
  BY <1>5, UpCommand
<1>6. CASE ~(setDefaultStorage \/ onDvn \/ requestDown \/ requestUp)
  <2>1. Handling
    BY <1>1, <1>6, TakesHandles
       DEF onDoReceive, onBad, onInstant, getMib, onSynTst, onFmt, onRec, onSpc, onGet,
           onCpy, onDmp, onDel, onStp
  <2>2. CmdEffect
    BY <1>1, <1>6, PlainEffect, SynTstEffect, FmtEffect, RecEffect, GetEffect, CpyEffect,
       DelEffect, StpEffect DEF onDoReceive
  <2> QED
    BY <2>1, <2>2, CmdKeeps
<1> QED
  BY <1>2, <1>3, <1>4, <1>5, <1>6
-----------------------------------------------------------------------------
(* The other threads.                                                      *)

\* A step that leaves storage and the operations alone.
LEMMA SteadyKeeps ==
  ASSUME CtlInv, UNCHANGED <<storageVars, ops, histVars>>, Gate,
         DefaultInv', defaultDRSU' \in ObjSet, mpq' \in Seq(Cmds), FlagInv', PhaseInv'
  PROVE  CtlInv'
<1>1. TypeInv /\ OpsInv /\ AliveInv
  BY DEF CtlInv, OpsInv
<1>2. Quiet /\ StorageSame /\ UNCHANGED <<downUnder, dangling, label, contents, active>>
  BY DEF Quiet, Grows, StorageSame, storageVars, histVars
<1>3. OpsInv'
  BY <1>1, <1>2, QuietKeeps
<1>4. AliveInv'
  BY <1>1, <1>2, AliveKeeps DEF Quiet
<1>5. /\ contents' \in [Drive -> SUBSET Nat] /\ ops' \subseteq OpSet
      /\ label' \in [Disk -> Label]
  BY <1>1, <1>2 DEF TypeInv, Quiet, StorageTypeOK
<1>6. StorageTypeOK' /\ active' \subseteq FileSet /\ (isUp' => gen' # 0)
  BY <1>1, <1>2, <1>5, StorageSameType
<1>7. TypeInv'
  BY <1>5, <1>6 DEF TypeInv, ObjSet, FileSet, OpSet, Drive, None
<1> QED
  BY <1>3, <1>4, <1>7 DEF CtlInv, OpsInv

\* The default drive stays what it is as long as storage and names do.
LEMMA DefaultSteady ==
  ASSUME CtlInv, UNCHANGED <<storageVars, selVars, histVars>>,
         Going' => Going, phase' = "boot" => phase = "boot"
  PROVE  DefaultInv' /\ defaultDRSU' \in ObjSet
<1>1. /\ defaultDRSU' = defaultDRSU /\ select' = select /\ twins' = twins
      /\ internal' = internal /\ label' = label /\ gen' = gen /\ (Usable' <=> Usable)
  BY DEF storageVars, selVars, histVars, Usable
<1>2. resolveArraySelect(select)' = resolveArraySelect(select)
  BY <1>1, ResolveSame
<1>3. DefaultInv /\ defaultDRSU \in ObjSet
  BY DEF CtlInv, TypeInv
<1> QED
  BY <1>1, <1>2, <1>3 DEF DefaultInv, NoObject, ObjSet, Drive, None

\* The listener, the response sender, the signal handler.
LEMMA MessagesKeep ==
  ASSUME CtlInv, onRespond \/ handleSignal \/ \E c \in Cmds : listen(c)
  PROVE  CtlInv'
<1>1. UNCHANGED <<storageVars, ops, histVars, selVars, phase>>
  BY DEF onRespond, handleSignal, listen, selVars
<1>2. Gate /\ (Going' => Going) /\ (phase' = "boot" => phase = "boot")
  BY <1>1 DEF Gate, Accepting, Going
<1>3. DefaultInv' /\ defaultDRSU' \in ObjSet
  BY <1>1, <1>2, DefaultSteady
<1>4. FlagInv /\ PhaseInv /\ mpq \in Seq(Cmds)
  BY DEF CtlInv, TypeInv
<1>5. CASE onRespond
  <2>1. /\ phase \in {"run", "stop_mp", "stop_rs"}
        /\ UNCHANGED <<inputs, mpq, ops, buf, phase>>
    BY <1>5 DEF onRespond
  <2>2. PICK r : \/ UNCHANGED <<asked, scan>>
                 \/ requestShutdown(r)
                 \/ requestIni(r)
    BY <1>5 DEF onRespond
  <2>3. FlagInv'
    BY <1>4, <2>1, <2>2 DEF FlagInv, requestShutdown, requestIni
  <2>4. PhaseInv'
    BY <1>4, <2>1 DEF PhaseInv, Phases
  <2> QED
    BY <1>1, <1>2, <1>3, <1>4, <2>1, <2>3, <2>4, SteadyKeeps
<1>6. CASE handleSignal
  <2>1. /\ phase = "run" /\ inputs < MaxInputs /\ inputs' = inputs + 1
        /\ asked' = [asked EXCEPT !.shut = TRUE]
        /\ UNCHANGED <<phase, mpq, rsq, buf, ops, scan>>
    BY <1>6 DEF handleSignal, Input
  <2>2. FlagInv'
    <3>1. inputs' \in 0 .. MaxInputs
      BY <1>4, <2>1, ControlAssumption DEF FlagInv
    <3>2. asked' \in [shut : BOOLEAN, restart : BOOLEAN, ini : BOOLEAN, flush : BOOLEAN]
      BY <1>4, <2>1 DEF FlagInv
    <3> QED
      BY <1>4, <2>1, <3>1, <3>2 DEF FlagInv
  <2>3. PhaseInv'
    BY <1>4, <2>1 DEF PhaseInv, Phases
  <2> QED
    BY <1>1, <1>2, <1>3, <1>4, <2>1, <2>2, <2>3, SteadyKeeps
<1>7. CASE \E c \in Cmds : listen(c)
  <2>1. PICK c \in Cmds : listen(c)
    BY <1>7
  <2>2. /\ phase = "run" /\ inputs < MaxInputs /\ inputs' = inputs + 1
        /\ UNCHANGED <<phase, asked, buf, ops, scan>>
        /\ mpq' = mpq \/ mpq' = Append(mpq, c)
    BY <2>1 DEF listen, Input, enqueue
  <2>3. mpq' \in Seq(Cmds)
    BY <1>4, <2>2
  <2>4. FlagInv'
    BY <1>4, <2>2, ControlAssumption DEF FlagInv
  <2>5. PhaseInv'
    BY <1>4, <2>2 DEF PhaseInv, Phases
  <2> QED
    BY <1>1, <1>2, <1>3, <2>3, <2>4, <2>5, SteadyKeeps
<1> QED
  BY <1>5, <1>6, <1>7

\* The steps of the System thread that only end a thread.
LEMMA StopsKeep ==
  ASSUME CtlInv, leaveRun \/ stopProcessor \/ stopReceiver
  PROVE  CtlInv'
<1>1. UNCHANGED <<storageVars, ops, histVars, selVars, scan, rsq>>
  BY DEF leaveRun, stopProcessor, stopReceiver, selVars
<1>2. UNCHANGED <<asked, inputs>>
  BY DEF leaveRun, stopProcessor, stopReceiver, Enter
<1>3. \/ phase = "run" /\ phase' = "stop_mp" /\ mpq' = mpq /\ buf' = buf
      \/ phase = "stop_mp" /\ phase' = "stop_rs" /\ mpq' = <<>> /\ buf' = buf
      \/ phase = "stop_rx" /\ phase' = "stop_sch" /\ mpq' = mpq /\ buf' = "freed"
  BY DEF leaveRun, stopProcessor, stopReceiver, Enter
<1>4. FlagInv /\ PhaseInv /\ mpq \in Seq(Cmds)
  BY DEF CtlInv, TypeInv
<1>5. Gate /\ (Going' => Going) /\ (phase' = "boot" => phase = "boot")
  BY <1>3 DEF Gate, Accepting, Going
<1>6. DefaultInv' /\ defaultDRSU' \in ObjSet
  BY <1>1, <1>5, DefaultSteady
<1>7. mpq' \in Seq(Cmds)
  <2>1. <<>> \in Seq(Cmds)
    OBVIOUS
  <2> QED
    BY <1>3, <1>4, <2>1
<1>8. FlagInv'
  BY <1>1, <1>2, <1>4 DEF FlagInv
<1>9. PhaseInv'
  BY <1>1, <1>3, <1>4 DEF PhaseInv, Phases
<1> QED
  BY <1>1, <1>5, <1>6, <1>7, <1>8, <1>9, SteadyKeeps

\* The receiver and the messaging threads start: the default drive is looked
\* up when there is one.
LEMMA BootServicesKeeps ==
  ASSUME CtlInv, bootServices
  PROVE  CtlInv'
<1>1. /\ UNCHANGED <<storageVars, ops, histVars, scan, rsq, mpq, asked, inputs>>
      /\ phase = "boot2" /\ phase' = "run"
      /\ SelEffect
  BY DEF bootServices, SelEffect
<1>2. TypeInv /\ DefaultInv /\ FlagInv /\ PhaseInv /\ mpq \in Seq(Cmds)
  BY DEF CtlInv, TypeInv
<1>3. ops' = {}
  BY <1>1, <1>2 DEF PhaseInv
<1>4. Gate
  BY <1>3 DEF Gate
<1>5. DefaultInv' /\ defaultDRSU' \in ObjSet
  <2>1. internal' = internal /\ gen' = gen /\ label' = label /\ twins' = twins
        /\ (Usable' <=> Usable)
    BY <1>1 DEF storageVars, histVars, Usable
  <2>2. resolveArraySelect(select)' = resolveArraySelect(select')
    BY <2>1, ResolveSame
  <2>3. Going
    BY <1>1 DEF Going
  <2>4. CASE UNCHANGED selVars
    <3>1. defaultDRSU' = defaultDRSU /\ select' = select
      BY <2>4 DEF selVars
    <3> QED
      BY <1>1, <1>2, <2>1, <2>2, <2>3, <3>1 DEF DefaultInv, NoObject, TypeInv, ObjSet, None, Drive
  <2>5. CASE HasInternal /\ keepDefault
    <3>1. Up(getDefaultStorage) /\ defaultDRSU' = getDefaultStorage /\ Usable
      BY <1>2, <2>3, <2>5, DefaultUp DEF keepDefault, HasInternal
    <3>2. ~twins => resolveArraySelect(select') = getDefaultStorage.disk
      <4>1. CASE defaultDRSU = NoObject
        BY <2>5, <4>1 DEF keepDefault, getDefaultStorage, Object
      <4>2. CASE defaultDRSU # NoObject
        BY <1>2, <2>3, <2>5, <4>2 DEF keepDefault, getDefaultStorage, DefaultInv
      <4> QED
        BY <4>1, <4>2
    <3> QED
      BY <1>1, <2>1, <2>2, <3>1, <3>2 DEF DefaultInv, Up, ObjSet, Drive, None
  <2> QED
    BY <1>1, <2>4, <2>5 DEF SelEffect
<1>6. FlagInv'
  BY <1>1, <1>2 DEF FlagInv
<1>7. PhaseInv'
  BY <1>1, <1>2 DEF PhaseInv, Phases
<1>8. mpq' \in Seq(Cmds)
  BY <1>1, <1>2
<1> QED
  BY <1>1, <1>4, <1>5, <1>6, <1>7, <1>8, SteadyKeeps

\* The process ends, or makes a new System.
LEMMA RestartKeeps ==
  ASSUME CtlInv, restart
  PROVE  CtlInv'
<1>1. /\ UNCHANGED <<storageVars, ops, histVars, scan, rsq, mpq, inputs>>
      /\ phase = "exit" /\ phase' \in {"boot", "halt"}
      /\ asked' = NotAsked /\ buf' = "none" /\ defaultDRSU' = NoObject
  BY DEF restart
<1>2. FlagInv /\ PhaseInv /\ mpq \in Seq(Cmds)
  BY DEF CtlInv, TypeInv
<1>3. Gate
  BY <1>1 DEF Gate, Accepting
<1>4. DefaultInv' /\ defaultDRSU' \in ObjSet
  BY <1>1 DEF DefaultInv, NoObject, ObjSet, None
<1>5. FlagInv'
  BY <1>1, <1>2 DEF FlagInv, NotAsked
<1>6. PhaseInv'
  BY <1>1, <1>2 DEF PhaseInv, Phases
<1>7. mpq' \in Seq(Cmds)
  BY <1>1, <1>2
<1> QED
  BY <1>1, <1>3, <1>4, <1>5, <1>6, <1>7, SteadyKeeps
\* INI -D empties the default drive once no more commands are handled.
LEMMA StopResponderKeeps ==
  ASSUME CtlInv, stopResponder
  PROVE  CtlInv'
<1>1. TypeInv /\ OpsInv /\ AliveInv /\ DefaultInv /\ FlagInv /\ PhaseInv
  BY DEF CtlInv, OpsInv
<1>2. /\ phase = "stop_rs" /\ phase' = "stop_rx" /\ rsq' = <<>>
      /\ contents' = contents \/ contents' = [contents EXCEPT ![defaultDRSU.disk] = {}]
      /\ UNCHANGED <<mounted, isUp, asynch, internal, external, gen, listing, watch,
                     active, label, buf, scan, selVars, mpq, ops, histVars, asked, inputs>>
  BY DEF stopResponder, Enter
<1>3. contents' \in [Drive -> SUBSET Nat]
  <2>1. contents \in [Drive -> SUBSET Nat]
    BY <1>1 DEF TypeInv
  <2> QED
    BY <1>2, <2>1
<1>4. Quiet /\ StorageSame /\ Gate
  BY <1>2 DEF Quiet, Grows, StorageSame, Gate, Accepting, histVars
<1>5. OpsInv'
  BY <1>1, <1>4, QuietKeeps
<1>6. AliveInv'
  BY <1>1, <1>2, <1>4, AliveKeeps DEF Quiet, histVars
<1>7. DefaultInv'
  <2>1. /\ defaultDRSU' = defaultDRSU /\ select' = select /\ twins' = twins
        /\ internal' = internal /\ label' = label /\ gen' = gen /\ (Usable' <=> Usable)
    BY <1>2 DEF selVars, histVars, Usable
  <2>2. resolveArraySelect(select)' = resolveArraySelect(select)
    BY <2>1, ResolveSame
  <2>3. Going /\ phase' # "boot"
    BY <1>2 DEF Going
  <2> QED
    BY <1>1, <2>1, <2>2, <2>3 DEF DefaultInv, NoObject, None
<1>8. TypeInv'
  <2>1. /\ label' \in [Disk -> Label] /\ ops' \subseteq OpSet /\ mpq' \in Seq(Cmds)
        /\ defaultDRSU' \in ObjSet /\ active' = active
    BY <1>1, <1>2 DEF TypeInv, StorageTypeOK, selVars
  <2>2. StorageTypeOK' /\ active' \subseteq FileSet /\ (isUp' => gen' # 0)
    BY <1>1, <1>3, <1>4, <2>1, StorageSameType
  <2> QED
    BY <1>3, <2>1, <2>2 DEF TypeInv, ObjSet, FileSet, OpSet, Drive, None
<1>9. FlagInv'
  BY <1>1, <1>2 DEF FlagInv
<1>10. PhaseInv'
  BY <1>1, <1>2 DEF PhaseInv, Phases
<1> QED
  BY <1>5, <1>6, <1>7, <1>8, <1>9, <1>10 DEF CtlInv, OpsInv

\* The scheduler ends the recordings, while their files are still there.
LEMMA StopScheduleKeeps ==
  ASSUME CtlInv, stopSchedule
  PROVE  CtlInv'
<1>1. TypeInv /\ OpsInv /\ AliveInv /\ FlagInv /\ PhaseInv
  BY DEF CtlInv, OpsInv
<1>2. /\ phase = "stop_sch" /\ phase' = "stop_ops"
      /\ ops' = {o \in ops : o.kind \notin {"REC", "SPC"}}
      /\ dangling' = (dangling \/ \E o \in ops : o.kind \in {"REC", "SPC"} /\ ~Alive(o))
      /\ UNCHANGED <<storageVars, buf, scan, selVars, mpq, rsq, downUnder, leaked,
                     twins, wiped, asked, inputs>>
  BY DEF stopSchedule, abortSchedule, Enter
<1>3. Gate
  BY <1>2 DEF Gate, Accepting
<1>4. PICK S : S = {o \in ops : o.kind \in {"REC", "SPC"}}
  OBVIOUS
<1>5. Drops(S) /\ StorageSame
  BY <1>2, <1>4 DEF Drops, Grows, StorageSame, storageVars
<1>6. OpsInv'
  BY <1>1, <1>3, <1>5, DropsKeeps
<1>7. AliveInv'
  <2> SUFFICES ASSUME ~downUnder'
               PROVE  ~dangling' /\ \A o \in ops' : Needs(o) => Usable' /\ Alive(o)'
    BY DEF AliveInv, Needs, Usable, Alive, Exists
  <2>1. ~downUnder /\ ~dangling /\ \A o \in ops : Needs(o) => Usable /\ Alive(o)
    BY <1>1, <1>2 DEF AliveInv
  <2>2. \A o \in ops : o.kind \in {"REC", "SPC"} => Alive(o)
    <3> SUFFICES ASSUME NEW o \in ops, o.kind \in {"REC", "SPC"}
                 PROVE  Alive(o)
      OBVIOUS
    <3>1. CASE Needs(o)
      BY <2>1, <3>1
    <3>2. CASE ~Needs(o)
      BY <3>2 DEF Needs, Alive
    <3> QED
      BY <3>1, <3>2
  <2>3. \A o : (Alive(o)' <=> Alive(o)) /\ (Usable' <=> Usable)
    BY <1>5, AliveSame
  <2> QED
    BY <1>2, <2>1, <2>2, <2>3
<1>8. DefaultInv' /\ defaultDRSU' \in ObjSet
  <2>1. /\ defaultDRSU' = defaultDRSU /\ select' = select /\ twins' = twins
        /\ internal' = internal /\ label' = label /\ gen' = gen /\ (Usable' <=> Usable)
    BY <1>2 DEF selVars, storageVars, Usable
  <2>2. resolveArraySelect(select)' = resolveArraySelect(select)
    BY <2>1, ResolveSame
  <2>3. Going /\ phase' # "boot"
    BY <1>2 DEF Going
  <2>4. DefaultInv /\ defaultDRSU \in ObjSet
    BY DEF CtlInv, TypeInv
  <2> QED
    BY <2>1, <2>2, <2>3, <2>4 DEF DefaultInv, NoObject, None, ObjSet, Drive
<1>9. TypeInv'
  <2>1. /\ label' \in [Disk -> Label] /\ ops' \subseteq OpSet /\ mpq' \in Seq(Cmds)
        /\ contents' \in [Drive -> SUBSET Nat] /\ active' = active
    BY <1>1, <1>2 DEF TypeInv, StorageTypeOK, storageVars
  <2>2. StorageTypeOK' /\ active' \subseteq FileSet /\ (isUp' => gen' # 0)
    BY <1>1, <1>5, <2>1, StorageSameType
  <2> QED
    BY <1>8, <2>1, <2>2 DEF TypeInv, ObjSet, FileSet, OpSet, Drive, None
<1>10. FlagInv'
  BY <1>1, <1>2 DEF FlagInv
<1>11. PhaseInv'
  BY <1>1, <1>2 DEF PhaseInv, Phases
<1> QED
  BY <1>6, <1>7, <1>8, <1>9, <1>10, <1>11 DEF CtlInv, OpsInv

\* The types of storage after it goes up.
LEMMA DoUpType ==
  ASSUME TypeInv, NEW rescan, __doUp(rescan)
  PROVE  /\ mounted' \subseteq Drive /\ isUp' /\ isUp' \in BOOLEAN
         /\ internal' \subseteq Disk /\ external' \subseteq Ext
         /\ gen' \in Nat /\ gen' = gen + 1 /\ gen' # 0
         /\ DOMAIN listing' = Drive /\ watch' \in {"off", "new", "on", "lost"}
         /\ contents' = contents /\ active' = active /\ label' = label
<1>1. mounted \subseteq Drive /\ gen \in Nat
  BY DEF TypeInv, StorageTypeOK
<1>2. mounted' \subseteq Drive
  BY <1>1 DEF __doUp, scriptUp
<1>3. gen' = gen + 1 /\ gen' \in Nat /\ gen' # 0
  BY <1>1 DEF __doUp
<1> QED
  BY <1>2, <1>3 DEF __doUp

\* Files that were open are of an earlier scan.
LEMMA GenGrows ==
  ASSUME TypeInv, active' \subseteq active, gen' \in Nat, gen <= gen'
  PROVE  active' \subseteq FileSet /\ \A f \in active' : f.disk \in Drive /\ f.gen \in 1 .. gen'
<1>1. gen \in Nat /\ \A f \in active : f \in FileSet /\ f.disk \in Drive /\ f.gen \in 1 .. gen
  BY DEF TypeInv, StorageTypeOK, FileSet
<1>2. 1 .. gen \subseteq 1 .. gen'
  BY <1>1
<1> QED
  BY <1>1, <1>2

\* The threads that move storage: nothing depends on it then.
Moves ==
  /\ StorageTypeOK'
  /\ contents' = contents /\ active' \subseteq active /\ label' = label
  /\ isUp' => gen' # 0
  /\ gen <= gen' /\ gen' \in Nat

\* Storage that moves under nobody keeps the invariant.
LEMMA MoveKeeps ==
  ASSUME CtlInv, Moves, Gate, UNCHANGED <<selVars, mpq, ops, histVars>>,
         ~downUnder => \A o \in ops : ~Needs(o),
         Going' => defaultDRSU = NoObject,
         phase' = "boot" => phase = "boot",
         FlagInv', PhaseInv'
  PROVE  CtlInv'
<1>1. TypeInv /\ OpsInv /\ AliveInv /\ DefaultInv
  BY DEF CtlInv, OpsInv
<1>2. defaultDRSU' = defaultDRSU
  BY DEF selVars
<1>3. OpsInv'
  <2>1. Quiet
    BY DEF Quiet, Grows, Moves, histVars
  <2> QED
    BY <1>1, <2>1, QuietKeeps
<1>4. AliveInv'
  <2> SUFFICES ASSUME ~downUnder'
               PROVE  ~dangling' /\ \A o \in ops' : Needs(o) => Usable' /\ Alive(o)'
    BY DEF AliveInv, Needs, Usable, Alive, Exists
  <2> QED
    BY <1>1 DEF AliveInv, histVars
<1>5. DefaultInv'
  <2>1. phase' = "boot" => defaultDRSU' = NoObject
    BY <1>1, <1>2 DEF DefaultInv
  <2>2. Going' => defaultDRSU' = NoObject
    BY <1>2
  <2> QED
    BY <2>1, <2>2 DEF DefaultInv, NoObject, None
<1>6. TypeInv'
  <2>1. active' \subseteq FileSet
    BY <1>1, GenGrows DEF Moves
  <2>2. /\ contents' \in [Drive -> SUBSET Nat] /\ defaultDRSU' \in ObjSet
        /\ mpq' \in Seq(Cmds) /\ ops' \subseteq OpSet
    BY <1>1, <1>2 DEF TypeInv, Moves
  <2> QED
    BY <2>1, <2>2 DEF TypeInv, Moves, ObjSet, FileSet, OpSet, Drive, None
<1> QED
  BY <1>3, <1>4, <1>5, <1>6 DEF CtlInv, OpsInv

\* Going up makes a new scan.
LEMMA DoUpMoves ==
  ASSUME TypeInv, NEW rescan, __doUp(rescan),
         asynch' \in {"no", "up", "upFull", "down", "downFull"}
  PROVE  Moves
<1>1. /\ mounted' \subseteq Drive /\ isUp' /\ isUp' \in BOOLEAN
      /\ internal' \subseteq Disk /\ external' \subseteq Ext
      /\ gen' \in Nat /\ gen' = gen + 1 /\ gen' # 0
      /\ DOMAIN listing' = Drive /\ watch' \in {"off", "new", "on", "lost"}
      /\ contents' = contents /\ active' = active /\ label' = label
  BY DoUpType
<1>2. gen \in Nat /\ DOMAIN contents = Drive /\ label \in [Disk -> Label]
  BY DEF TypeInv, StorageTypeOK
<1>3. gen <= gen'
  BY <1>1, <1>2
<1>4. \A f \in active' : f.disk \in Drive /\ f.gen \in 1 .. gen'
  BY <1>1, <1>3, GenGrows
<1>5. StorageTypeOK'
  BY <1>1, <1>2, <1>4 DEF StorageTypeOK, Drive
<1> QED
  BY <1>1, <1>3, <1>5 DEF Moves

\* Going down keeps the number of the scan.
LEMMA DoDownMoves ==
  ASSUME TypeInv,
         mounted' \subseteq Drive,
         asynch' \in {"no", "up", "upFull", "down", "downFull"},
         \/ __doDown
         \/ UNCHANGED <<isUp, internal, external, gen, contents, listing, watch,
                        active, label>>
  PROVE  Moves
<1>1. /\ internal' \subseteq Disk /\ external' \subseteq Ext /\ isUp' \in BOOLEAN
      /\ watch' \in {"off", "new", "on", "lost"}
      /\ gen' = gen /\ contents' = contents /\ listing' = listing /\ label' = label
      /\ active' \subseteq active
      /\ isUp' => gen' # 0
  <2>1. CASE __doDown
    BY <2>1 DEF __doDown
  <2>2. CASE UNCHANGED <<isUp, internal, external, gen, contents, listing, watch,
                         active, label>>
    BY <2>2 DEF TypeInv, StorageTypeOK
  <2> QED
    BY <2>1, <2>2
<1>2. gen \in Nat /\ DOMAIN contents = Drive /\ label \in [Disk -> Label]
      /\ DOMAIN listing = Drive
  BY DEF TypeInv, StorageTypeOK
<1>3. gen <= gen' /\ gen' \in Nat
  BY <1>1, <1>2
<1>4. \A f \in active' : f.disk \in Drive /\ f.gen \in 1 .. gen'
  BY <1>1, <1>3, GenGrows
<1>5. StorageTypeOK'
  BY <1>1, <1>2, <1>4 DEF StorageTypeOK, Drive
<1> QED
  BY <1>1, <1>3, <1>5 DEF Moves
\* Storage that cannot be used is needed by nobody who was not warned.
LEMMA NotUsable ==
  ASSUME CtlInv, ~Usable
  PROVE  /\ ~downUnder => \A o \in ops : ~Needs(o)
         /\ Going => defaultDRSU = NoObject
BY DEF CtlInv, AliveInv, DefaultInv

\* The asynchronous thread of UP and DWN.
LEMMA StorageThreadKeeps ==
  ASSUME CtlInv, storageThread, Stay
  PROVE  CtlInv'
<1>1. /\ UNCHANGED <<selVars, mpq, rsq, ops, histVars, asked, scan, inputs, phase, buf>>
  BY DEF Stay, ctlVars, lifeVars, selVars, histVars
<1>2. TypeInv /\ FlagInv /\ PhaseInv
  BY DEF CtlInv
<1>3. FlagInv' /\ PhaseInv' /\ Gate /\ (Going' => Going)
  BY <1>1, <1>2 DEF FlagInv, PhaseInv, Gate, Accepting, Going, Phases
<1>4. asynch # "no"
  BY DEF storageThread, upThread, downThread
<1>5. /\ ~downUnder => \A o \in ops : ~Needs(o)
      /\ Going => defaultDRSU = NoObject
  BY <1>4, NotUsable DEF Usable
<1>6. Moves
  <2>1. CASE upThread
    BY <1>2, <2>1, DoUpMoves DEF upThread
  <2>2. CASE downThread
    <3>1. /\ mounted' \subseteq Drive
          /\ asynch' \in {"no", "up", "upFull", "down", "downFull"}
          /\ \/ __doDown
             \/ UNCHANGED <<isUp, internal, external, gen, contents, listing, watch,
                            active, label>>
      BY <1>2, <2>2 DEF downThread, finishDown, scriptDown, TypeInv, StorageTypeOK
    <3> QED
      BY <1>2, <3>1, DoDownMoves
  <2> QED
    BY <2>1, <2>2 DEF storageThread
<1> QED
  BY <1>1, <1>3, <1>5, <1>6, MoveKeeps

\* The folder threads touch only the listing.
LEMMA WatchKeeps ==
  ASSUME CtlInv, Stay, watchStart \/ \E d \in Drive : __readContent(d)
  PROVE  CtlInv'
<1>1. UNCHANGED <<selVars, mpq, rsq, ops, histVars, asked, scan, inputs, phase, buf>>
  BY DEF Stay, ctlVars, lifeVars, selVars, histVars
<1>2. /\ watch' \in {"off", "new", "on", "lost"} /\ DOMAIN listing' = Drive
      /\ UNCHANGED <<mounted, isUp, asynch, internal, external, gen, contents, active, label>>
  BY DEF watchStart, __readContent, CtlInv, TypeInv, StorageTypeOK
<1>3. TypeInv /\ OpsInv /\ AliveInv /\ DefaultInv /\ FlagInv /\ PhaseInv
  BY DEF CtlInv, OpsInv
<1>4. FlagInv' /\ PhaseInv' /\ Gate
  BY <1>1, <1>3 DEF FlagInv, PhaseInv, Gate, Accepting, Going, Phases
<1>5. OpsInv'
  <2>1. Quiet
    BY <1>1, <1>2 DEF Quiet, Grows, histVars
  <2> QED
    BY <1>3, <1>4, <2>1, QuietKeeps
<1>6. AliveInv'
  <2> SUFFICES ASSUME ~downUnder'
               PROVE  ~dangling' /\ \A o \in ops' : Needs(o) => Usable' /\ Alive(o)'
    BY DEF AliveInv, Needs, Usable, Alive, Exists
  <2>1. \A o : (Alive(o)' <=> Alive(o)) /\ (Usable' <=> Usable)
    BY <1>2 DEF Alive, Usable, Exists
  <2> QED
    BY <1>1, <1>3, <2>1 DEF AliveInv, histVars
<1>7. DefaultInv'
  <2>1. /\ defaultDRSU' = defaultDRSU /\ select' = select /\ twins' = twins
        /\ internal' = internal /\ label' = label /\ gen' = gen /\ (Usable' <=> Usable)
    BY <1>1, <1>2 DEF selVars, histVars, Usable
  <2>2. resolveArraySelect(select)' = resolveArraySelect(select)
    BY <2>1, ResolveSame
  <2>3. (Going' <=> Going) /\ phase' = phase
    BY <1>1 DEF Going
  <2> QED
    BY <1>3, <2>1, <2>2, <2>3 DEF DefaultInv, NoObject, None
<1>8. StorageTypeOK'
  BY <1>2, <1>3 DEF TypeInv, StorageTypeOK, Drive
<1>9. TypeInv'
  BY <1>1, <1>2, <1>3, <1>8 DEF TypeInv, ObjSet, FileSet, OpSet, Drive, None, selVars
<1> QED
  BY <1>4, <1>5, <1>6, <1>7, <1>9 DEF CtlInv, OpsInv

\* Storage goes up when the process boots, with nothing scheduled.
LEMMA BootStorageKeeps ==
  ASSUME CtlInv, bootStorage
  PROVE  CtlInv'
<1>1. TypeInv /\ FlagInv /\ PhaseInv /\ DefaultInv
  BY DEF CtlInv
<1>2. /\ phase = "boot" /\ phase' = "boot2"
      /\ scan' = [scan EXCEPT !.initial = scan.initial \/ StorageState = "Down"]
      /\ UNCHANGED <<asked, buf, inputs, selVars, mpq, rsq, ops, histVars>>
  BY DEF bootStorage
<1>3. defaultDRSU = NoObject /\ ops = {}
  BY <1>1, <1>2 DEF DefaultInv, PhaseInv
<1>4. Moves
  <2>1. CASE \E r : __doUp(r) /\ UNCHANGED asynch
    <3>1. asynch' \in {"no", "up", "upFull", "down", "downFull"}
      BY <1>1, <2>1 DEF TypeInv, StorageTypeOK
    <3> QED
      BY <1>1, <2>1, <3>1, DoUpMoves
  <2>2. CASE UNCHANGED storageVars
    <3>1. /\ mounted' \subseteq Drive
          /\ asynch' \in {"no", "up", "upFull", "down", "downFull"}
          /\ UNCHANGED <<isUp, internal, external, gen, contents, listing, watch,
                         active, label>>
      BY <1>1, <2>2 DEF storageVars, TypeInv, StorageTypeOK
    <3> QED
      BY <1>1, <3>1, DoDownMoves
  <2> QED
    BY <2>1, <2>2 DEF bootStorage
<1>5. FlagInv'
  BY <1>1, <1>2 DEF FlagInv
<1>6. PhaseInv' /\ Gate
  BY <1>1, <1>2 DEF PhaseInv, Phases, Gate, Accepting
<1> QED
  BY <1>2, <1>3, <1>4, <1>5, <1>6, MoveKeeps

\* Storage goes down when the process stops, after the last operation.
LEMMA StopStorageKeeps ==
  ASSUME CtlInv, killSchedule \/ stopStorage
  PROVE  CtlInv'
<1>1. TypeInv /\ FlagInv /\ PhaseInv
  BY DEF CtlInv
<1>2. /\ phase \in {"stop_ops", "stop_sto"} /\ phase' \in {"stop_sto", "exit"}
      /\ UNCHANGED <<asked, inputs, buf, scan, selVars, mpq, rsq, ops, histVars>>
  BY DEF killSchedule, stopStorage, Enter
<1>3. ops = {}
  BY <1>1 DEF killSchedule, stopStorage, scheduleJoined, PhaseInv
<1>4. Moves
  <2>1. /\ mounted' \subseteq Drive
        /\ asynch' \in {"no", "up", "upFull", "down", "downFull"}
    BY <1>1 DEF killSchedule, stopStorage, finishDown, scriptDown, storageVars, TypeInv,
                StorageTypeOK
  <2>2. \/ __doDown
        \/ UNCHANGED <<isUp, internal, external, gen, contents, listing, watch,
                       active, label>>
    BY DEF killSchedule, stopStorage, finishDown, storageVars
  <2> QED
    BY <1>1, <2>1, <2>2, DoDownMoves
<1>5. FlagInv'
  BY <1>1, <1>2 DEF FlagInv
<1>6. PhaseInv' /\ Gate
  BY <1>1, <1>2, <1>3 DEF PhaseInv, Phases, Gate, Accepting
<1>7. ~Going'
  BY <1>2 DEF Going
<1>8. phase' # "boot"
  BY <1>2
<1> QED
  BY <1>2, <1>3, <1>4, <1>5, <1>6, <1>7, <1>8, MoveKeeps

\* Operations start and finish.
LEMMA OperationKeeps ==
  ASSUME CtlInv, NEW o \in ops, opStart(o) \/ opFinish(o)
  PROVE  CtlInv'
<1>1. TypeInv /\ OpsInv /\ AliveInv /\ DefaultInv /\ FlagInv /\ PhaseInv
  BY DEF CtlInv, OpsInv
<1>2. /\ UNCHANGED <<mounted, isUp, asynch, internal, external, gen, listing, watch, label,
                     lifeVars, scan, selVars, mpq, rsq, downUnder, twins>>
      /\ active' \subseteq active
  BY DEF opStart, opFinish, putFiles, storageVars, histVars
<1>3. StorageSame
  BY <1>2 DEF StorageSame
<1>4. OpsInv' /\ ops' \subseteq OpSet /\ contents' \in [Drive -> SUBSET Nat]
  <2>1. CASE opStart(o)
    <3>1. contents' \in [Drive -> SUBSET Nat]
      BY <1>1, <2>1 DEF opStart, storageVars, TypeInv
    <3> QED
      BY <1>1, <2>1, <3>1, StartKeeps
  <2>2. CASE opFinish(o)
    <3>1. ops' \subseteq OpSet
      BY <1>1, <2>2 DEF opFinish, TypeInv
    <3> QED
      BY <1>1, <2>2, <3>1, FinishKeeps
  <2> QED
    BY <2>1, <2>2
<1>5. AliveInv'
  <2> SUFFICES ASSUME ~downUnder'
               PROVE  ~dangling' /\ \A p \in ops' : Needs(p) => Usable' /\ Alive(p)'
    BY DEF AliveInv, Needs, Usable, Alive, Exists
  <2>1. ~downUnder /\ ~dangling /\ \A p \in ops : Needs(p) => Usable /\ Alive(p)
    BY <1>1, <1>2 DEF AliveInv
  <2>2. \A p : (Alive(p)' <=> Alive(p)) /\ (Usable' <=> Usable)
    BY <1>3, AliveSame
  <2>3. CASE opStart(o)
    <3>1. PICK n : n = [o EXCEPT !.st = "run"]
      OBVIOUS
    <3>2. ops' = (ops \ {o}) \cup {n} /\ dangling' = dangling
      BY <2>3, <3>1 DEF opStart, histVars
    <3>3. o \in OpSet
      BY <1>1 DEF TypeInv
    <3>4. n.kind = o.kind /\ n.files = o.files /\ n.obj = o.obj
      BY <3>1, <3>3 DEF OpSet
    <3>5. Needs(n) => Usable /\ Alive(n)
      BY <2>1, <3>4 DEF Needs, Alive
    <3> QED
      BY <2>1, <2>2, <3>2, <3>5
  <2>4. CASE opFinish(o)
    <3>1. ops' = ops \ {o} /\ dangling' = (dangling \/ ~Alive(o))
      BY <2>4 DEF opFinish
    <3>2. Alive(o)
      <4>1. CASE Needs(o)
        BY <2>1, <4>1
      <4>2. CASE ~Needs(o)
        BY <4>2 DEF Needs, Alive
      <4> QED
        BY <4>1, <4>2
    <3> QED
      BY <2>1, <2>2, <3>1, <3>2
  <2> QED
    BY <2>3, <2>4
<1>6. DefaultInv' /\ defaultDRSU' \in ObjSet
  <2>1. /\ defaultDRSU' = defaultDRSU /\ select' = select /\ twins' = twins
        /\ internal' = internal /\ label' = label /\ gen' = gen /\ (Usable' <=> Usable)
    BY <1>2 DEF selVars, Usable
  <2>2. resolveArraySelect(select)' = resolveArraySelect(select)
    BY <2>1, ResolveSame
  <2>3. (Going' <=> Going) /\ phase' = phase
    BY <1>2 DEF Going, lifeVars
  <2>4. DefaultInv /\ defaultDRSU \in ObjSet
    BY <1>1 DEF TypeInv
  <2> QED
    BY <2>1, <2>2, <2>3, <2>4 DEF DefaultInv, NoObject, None, ObjSet, Drive
<1>7. TypeInv'
  <2>1. /\ label' \in [Disk -> Label] /\ mpq' \in Seq(Cmds)
        /\ \A f \in active' : f \in active \/ FileOK(f)
    BY <1>1, <1>2 DEF TypeInv, StorageTypeOK
  <2>2. StorageTypeOK' /\ active' \subseteq FileSet /\ (isUp' => gen' # 0)
    BY <1>1, <1>3, <1>4, <2>1, StorageSameType
  <2> QED
    BY <1>4, <1>6, <2>1, <2>2 DEF TypeInv, ObjSet, FileSet, OpSet, Drive, None
<1>8. FlagInv'
  BY <1>1, <1>2 DEF FlagInv, lifeVars
<1>9. PhaseInv'
  BY <1>1, <1>2 DEF PhaseInv, Phases, lifeVars
<1> QED
  BY <1>4, <1>5, <1>6, <1>7, <1>8, <1>9 DEF CtlInv, OpsInv

\* The process is killed and started again.
LEMMA CrashKeeps ==
  ASSUME CtlInv, crash
  PROVE  CtlInv'
<1>1. TypeInv /\ FlagInv
  BY DEF CtlInv
<1>2. /\ inputs < MaxInputs /\ inputs' = inputs + 1
      /\ phase' = "boot" /\ asked' = NotAsked /\ buf' = "none" /\ scan' = NoScan
      /\ defaultDRSU' = NoObject /\ mpq' = <<>> /\ rsq' = <<>> /\ ops' = {}
      /\ isUp' = FALSE /\ asynch' = "no" /\ internal' = {} /\ external' = {}
      /\ active' = {} /\ watch' = "off" /\ dangling' = FALSE
      /\ UNCHANGED <<mounted, gen, contents, listing, label>>
  BY DEF crash, Input
<1>3. StorageTypeOK'
  BY <1>1, <1>2 DEF TypeInv, StorageTypeOK, Drive
<1>4. TypeInv'
  <2>1. <<>> \in Seq(Cmds) /\ NoObject \in ObjSet
    BY DEF NoObject, ObjSet
  <2> QED
    BY <1>1, <1>2, <1>3, <2>1 DEF TypeInv, ObjSet, FileSet, OpSet, Drive, None
<1>5. FlagInv'
  <2>1. inputs' \in 0 .. MaxInputs
    BY <1>1, <1>2, ControlAssumption DEF FlagInv
  <2> QED
    BY <1>2, <2>1 DEF FlagInv, NotAsked, NoScan
<1>6. PhaseInv' /\ DefaultInv'
  BY <1>2 DEF PhaseInv, Phases, DefaultInv, NoObject, None
<1>7. SoleInv' /\ PresentInv' /\ DelInv' /\ SharedInv' /\ OwnerInv' /\ AliveInv'
  BY <1>2 DEF SoleInv, PresentInv, DelInv, SharedInv, OwnerInv, AliveInv
<1>8. TransferFilesReturned'
  BY <1>2 DEF TransferFilesReturned
<1> QED
  BY <1>4, <1>5, <1>6, <1>7, <1>8 DEF CtlInv

\* The invariant holds at the start.
LEMMA CtlInit ==
  ASSUME Init
  PROVE  CtlInv
<1> USE DEF Init
<1>1. contents \in [Drive -> SUBSET Nat]
  BY ControlAssumption
<1>2. label \in [Disk -> Label]
  BY ControlAssumption
<1>3. StorageTypeOK
  BY <1>1, <1>2 DEF StorageTypeOK, Drive
<1>4. TypeInv
  <2>1. <<>> \in Seq(Cmds) /\ NoObject \in ObjSet
    BY DEF NoObject, ObjSet
  <2> QED
    BY <1>1, <1>3, <2>1 DEF TypeInv
<1>5. FlagInv
  BY ControlAssumption DEF FlagInv, NotAsked, NoScan
<1>6. PhaseInv /\ DefaultInv
  BY DEF PhaseInv, Phases, DefaultInv
<1>7. SoleInv /\ PresentInv /\ DelInv /\ SharedInv /\ OwnerInv /\ AliveInv
  BY DEF SoleInv, PresentInv, DelInv, SharedInv, OwnerInv, AliveInv
<1>8. TransferFilesReturned
  BY DEF TransferFilesReturned
<1> QED
  BY <1>4, <1>5, <1>6, <1>7, <1>8 DEF CtlInv

\* A step that changes nothing.
LEMMA StutterKeeps ==
  ASSUME CtlInv, UNCHANGED vars
  PROVE  CtlInv'
<1>1. /\ UNCHANGED <<storageVars, ops, histVars, selVars>>
      /\ UNCHANGED <<phase, asked, scan, inputs, mpq, rsq, buf>>
  BY DEF vars, ctlVars, lifeVars
<1>2. Gate /\ (Going' => Going) /\ (phase' = "boot" => phase = "boot")
  BY <1>1 DEF Gate, Accepting, Going
<1>3. DefaultInv' /\ defaultDRSU' \in ObjSet
  BY <1>1, <1>2, DefaultSteady
<1>4. mpq' \in Seq(Cmds) /\ FlagInv' /\ PhaseInv'
  BY <1>1 DEF CtlInv, TypeInv, FlagInv, PhaseInv, Phases
<1> QED
  BY <1>1, <1>2, <1>3, <1>4, SteadyKeeps

\* Every step keeps the invariant.
LEMMA CtlNext ==
  ASSUME CtlInv, [Next]_vars
  PROVE  CtlInv'
<1>1. CASE systemThread
  BY <1>1, BootStorageKeeps, BootServicesKeeps, StopsKeep, StopResponderKeeps,
     StopScheduleKeeps, StopStorageKeeps, RestartKeeps DEF systemThread
<1>2. CASE storageThread /\ Stay
  BY <1>2, StorageThreadKeeps
<1>3. CASE Stay /\ (watchStart \/ \E d \in Drive : __readContent(d))
  BY <1>3, WatchKeeps
<1>4. CASE onDoReceive
  BY <1>4, CommandKeeps
<1>5. CASE onRespond \/ handleSignal \/ \E c \in Cmds : listen(c)
  BY <1>5, MessagesKeep
<1>6. CASE \E o \in ops : opStart(o) \/ opFinish(o)
  BY <1>6, OperationKeeps
<1>7. CASE crash
  BY <1>7, CrashKeeps
<1>8. CASE Halted \/ UNCHANGED vars
  BY <1>8, StutterKeeps DEF Halted
<1> QED
  BY <1>1, <1>2, <1>3, <1>4, <1>5, <1>6, <1>7, <1>8 DEF Next

-----------------------------------------------------------------------------
(* The properties.                                                         *)

\* The inductive invariant holds in every state.
THEOREM ControlInvariant == Spec => []CtlInv
<1>1. Init => CtlInv
  BY CtlInit
<1>2. CtlInv /\ [Next]_vars => CtlInv'
  BY CtlNext
<1> QED
  BY <1>1, <1>2, PTL DEF Spec

\* The default drive System remembers is never a deleted Storage object, and
\* it is the one the array select names as long as volume names are unique:
\* after any sequence of commands, repetitions, restarts and crashes.
THEOREM ControlDefaultDrive == Spec => []DefaultDrive
<1>1. CtlInv => DefaultDrive
  BY DEF CtlInv, DefaultInv, DefaultDrive, DefaultIsLive, DefaultIsSelected, Exists
<1> QED
  BY <1>1, ControlInvariant, PTL

\* A path two operations have in common is one that both write.
LEMMA SharedPath ==
  ASSUME SharedInv
  PROVE  NoSharedOutput
<1> SUFFICES ASSUME NEW o \in ops, NEW p \in ops, o # p,
                    NEW x, x \in Outputs(o), x \in Outputs(p)
             PROVE  x \in wiped
  BY DEF NoSharedOutput
<1>1. PICK f \in o.files : IsOutput(o, f) /\ x = <<f.disk, f.name>>
  BY DEF Outputs, IsOutput
<1>2. PICK g \in p.files : IsOutput(p, g) /\ x = <<g.disk, g.name>>
  BY DEF Outputs, IsOutput
<1>3. f.disk = g.disk /\ f.name = g.name
  BY <1>1, <1>2
<1> QED
  BY <1>1, <1>2, <1>3 DEF SharedInv

\* No two operations write one path, unless a format removed it, and a file
\* that a transfer opened is returned unless STP dropped the transfer while it
\* waited: for any commands.
THEOREM ControlFilesAccounted == Spec => []FilesAccounted
<1>1. CtlInv => FilesAccounted
  BY SharedPath DEF CtlInv, FilesAccounted
<1> QED
  BY <1>1, ControlInvariant, PTL

\* Operations and queued messages end with their threads, and only a DWN that
\* was accepted over operations takes storage away from under one.
THEOREM ControlLifeSound == Spec => []LifeSound
<1>1. CtlInv => LifeSound
  <2> SUFFICES ASSUME CtlInv PROVE LifeSound
    OBVIOUS
  <2>1. StorageOutlivesOps
    BY DEF CtlInv, AliveInv, StorageOutlivesOps
  <2>2. phase \in {"boot", "boot2", "stop_sto", "exit", "halt"}
          => ops = {} /\ mpq = <<>> /\ rsq = <<>>
    BY DEF CtlInv, PhaseInv
  <2>3. buf = "live" => Going
    BY DEF CtlInv, PhaseInv, Going
  <2> QED
    BY <2>1, <2>2, <2>3 DEF CtlInv, TypeInv, FlagInv, LifeSound, ControlTypeOK
<1> QED
  BY <1>1, ControlInvariant, PTL
====
