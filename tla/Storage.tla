------------------------------- MODULE Storage -------------------------------
(***************************************************************************)
(* The storage subsystem (System/Storage.cpp, Storage.h, File.h, Folder.h  *)
(* and Scripts/StorageControl.sh): the mount table, the Storage objects of *)
(* the drives that were found, the files opened through them and the       *)
(* threads that watch their folders.                                       *)
(*                                                                         *)
(* Going up or down takes minutes, so UP and DWN do it in a thread of its  *)
(* own, without the lock, while asynchInProgress makes every query answer  *)
(* Down.  Going up makes new Storage objects and going down deletes them:  *)
(* an object is a drive and the number of the scan that made it, and it is *)
(* dangling once the drives of that scan are gone.                         *)
(*                                                                         *)
(* A drive is a number (internal devices are indexed in the order of their *)
(* names); a file is its name within the one folder of the drive.  What is *)
(* in a file is not modelled.                                              *)
(***************************************************************************)
EXTENDS Naturals, FiniteSets, FiniteSetsExt

CONSTANTS
  Disk,    \* the internal drives (DRSUs), positive numbers
  Ext,     \* the external drives, numbers of their own
  Label,   \* volume names
  Flaky    \* the drives whose mount may fail

None == 0

ASSUME StorageAssumption ==
  /\ Disk \subseteq Nat \ {0} /\ Ext \subseteq Nat \ {0}
  /\ Disk \cap Ext = {}
  /\ Flaky \subseteq Disk \cup Ext

Drive == Disk \cup Ext

VARIABLES
  mounted,    \* the drives the script has mounted
  isUp,       \* __isUp
  asynch,     \* asynchInProgress, and what the thread is doing
  internal,   \* the drives in the vector internal
  external,   \* the drives in the vector external
  gen,        \* number of the last scan
  contents,   \* the files on each drive
  listing,    \* the file names a Folder has read
  watch,      \* the threads that watch the folders
  active,     \* activeFiles of the Storage objects
  label       \* volume name of each internal drive

storageVars == <<mounted, isUp, asynch, internal, external, gen, contents,
                 listing, watch, active, label>>

-----------------------------------------------------------------------------
\* Queries: all of them hold the static lock.

Usable == isUp /\ asynch = "no"

StorageState ==
  CASE ~Usable                            -> "Down"
    [] internal = {} /\ external = {}     -> "Down"
    [] internal # {} /\ external = {}     -> "UpInternal"
    [] internal = {} /\ external # {}     -> "UpExternal"
    [] OTHER                              -> "UpBoth"

Object(d)  == [disk |-> d, gen |-> gen]
Exists(o)  == o.gen = gen /\ o.disk \in internal \cup external

\* An array select names a drive by its place or by its volume name; of
\* several drives with one name it finds the first.
resolveArraySelect(as) ==
  LET found == {d \in internal :
                  IF as.by = "name" THEN label[d] = as.at
                  ELSE Cardinality({e \in internal : e <= d}) = as.at}
  IN IF found = {} THEN None ELSE Min(found)

-----------------------------------------------------------------------------
\* Files.  A File is its Storage object, its name, and the type and the
\* reference of the command c that opened it.

File(o, n, c) ==
  [disk |-> o.disk, gen |-> o.gen, name |-> n, by |-> c.type, ref |-> c.ref]

\* open(..., O_CREAT | O_EXCL): never an existing file
CanCreateAny(o, n) == TRUE
CanCreate(o, n) == n \notin contents[o.disk]

CanOpen(o, n) == n \in contents[o.disk]

-----------------------------------------------------------------------------
\* Going up and down.

scriptUp   == \E failed \in SUBSET Flaky : mounted' = Drive \ failed
scriptDown == mounted' = {}

\* __doUp: mount if asked to, then make a Storage for every drive mounted
\* below the storage directory; its folders read their content at once.
__doUp(rescan) ==
  /\ IF rescan THEN scriptUp ELSE UNCHANGED mounted
  /\ gen' = gen + 1
  /\ internal' = mounted' \cap Disk
  /\ external' = mounted' \cap Ext
  /\ listing' = [d \in Drive |->
                   IF d \in mounted' THEN contents[d] ELSE {}]
  /\ watch' = IF mounted' = {} THEN "off" ELSE "new"
  /\ isUp' = TRUE
  /\ UNCHANGED <<contents, active, label>>

\* __doDown up to the end of the loops: files are closed, Storage objects
\* and their folders deleted.  A folder lowers wtrunning and joins its
\* thread; a thread that has not begun raises it again and never ends.
__doDownWatched ==
  /\ isUp' = FALSE
  /\ internal' = {} /\ external' = {}
  /\ active' = {}
  /\ UNCHANGED <<gen, contents, listing, watch, label>>

__doDown ==
  /\ isUp' = FALSE
  /\ internal' = {} /\ external' = {}
  /\ active' = {}
  /\ watch' = IF watch = "new" THEN "lost" ELSE "off"
  /\ UNCHANGED <<gen, contents, listing, label>>

\* Still to be done: the script, if asked for, once the threads are joined.
finishDown(rescan) ==
  /\ watch = "off"
  /\ IF rescan THEN scriptDown ELSE UNCHANGED mounted
  /\ UNCHANGED <<isUp, internal, external, gen, contents, listing, watch,
                 active, label>>

\* The asynchronous thread.
upThread ==
  /\ asynch \in {"up", "upFull"}
  /\ __doUp(asynch = "upFull")
  /\ asynch' = "no"

downThread ==
  /\ asynch \in {"down", "downFull"}
  /\ \/ /\ isUp
        /\ __doDown
        /\ UNCHANGED <<mounted, asynch>>
     \/ /\ ~isUp
        /\ finishDown(asynch = "downFull")
        /\ asynch' = "no"

CanUpAsynch   == asynch = "no" /\ ~isUp
CanDownAsynch == asynch = "no" /\ isUp

-----------------------------------------------------------------------------
\* The threads that watch the folders.

watchStart ==
  /\ watch = "new"
  /\ watch' = "on"
  /\ UNCHANGED <<mounted, isUp, asynch, internal, external, gen, contents,
                 listing, active, label>>

__readContentNew(d) ==
  /\ watch = "on"
  /\ d \in internal \cup external
  /\ ~(contents[d] \subseteq listing[d])
  /\ listing' = [listing EXCEPT ![d] = contents[d]]
  /\ UNCHANGED <<mounted, isUp, asynch, internal, external, gen, contents,
                 watch, active, label>>

__readContent(d) ==
  /\ watch = "on"
  /\ d \in internal \cup external
  /\ listing[d] # contents[d]
  /\ listing' = [listing EXCEPT ![d] = contents[d]]
  /\ UNCHANGED <<mounted, isUp, asynch, internal, external, gen, contents,
                 watch, active, label>>

StorageThreads ==
  upThread \/ downThread \/ watchStart \/ \E d \in Drive : __readContent(d)

StorageTypeOK ==
  /\ mounted \subseteq Drive
  /\ isUp \in BOOLEAN
  /\ asynch \in {"no", "up", "upFull", "down", "downFull"}
  /\ internal \subseteq Disk /\ external \subseteq Ext
  /\ gen \in Nat
  /\ DOMAIN contents = Drive /\ DOMAIN listing = Drive
  /\ watch \in {"off", "new", "on", "lost"}
  /\ \A f \in active : f.disk \in Drive /\ f.gen \in 1 .. gen
  /\ label \in [Disk -> Label]
=============================================================================
