------------------------------ MODULE OpkgLock ------------------------------
(***************************************************************************)
(* Several opkg processes at once: what opkg_lock and opkg_unlock do to    *)
(* the lock file around a privileged command, and what becomes of the      *)
(* status file, which main() loads before it asks for the lock.            *)
(*                                                                         *)
(* The lock is lockf's record lock: it belongs to a process and an inode,  *)
(* and the kernel drops it when the process closes the file or ends.  An   *)
(* inode lives on without a name while a process has it open.              *)
(***************************************************************************)
EXTENDS FiniteSets, Naturals

CONSTANTS
  Proc,        \* opkg processes, each running one privileged command
  Inode,       \* inodes a lock file can have
  NoFile,      \* no inode: the lock file does not exist, or is not open
  NoProc,      \* no process
  Interrupts,  \* may SIGINT arrive?
  Kills        \* may a process die without running the handler?

\* One inode more than there are processes: each may hold one open, and a new
\* lock file needs one that nobody has.
ASSUME LockConstantsOK ==
  /\ IsFiniteSet(Proc) /\ IsFiniteSet(Inode)
  /\ Cardinality(Inode) > Cardinality(Proc)
  /\ NoFile \notin Inode /\ NoProc \notin Proc
  /\ Interrupts \in BOOLEAN /\ Kills \in BOOLEAN

VARIABLES
  link,       \* the inode lock_file names
  holder,     \* which process holds the lock on an inode
  fd,         \* lock_fd: the inode a process has open
  statusFile, \* whose changes the status file holds
  seen,       \* whose changes a process loaded
  dirty,      \* the processes with opkg_state_changed > 0
  committed,  \* history: whose status file was written to the end
  pc

vars == <<link, holder, fd, statusFile, seen, dirty, committed, pc>>

Ended == {"refused", "ended", "killed"}

Steps == {"start", "loaded", "created", "locked", "working", "writing", "done",
          "unlocked", "closed", "checked", "handler"} \union Ended

TypeOK ==
  /\ link \in Inode \union {NoFile}
  /\ holder \in [Inode -> Proc \union {NoProc}]
  /\ fd \in [Proc -> Inode \union {NoFile}]
  /\ statusFile \subseteq Proc
  /\ seen \in [Proc -> SUBSET Proc]
  /\ dirty \subseteq Proc
  /\ committed \subseteq Proc
  /\ pc \in [Proc -> Steps]

Inside(p) == fd[p] # NoFile /\ holder[fd[p]] = p

Goto(p, step) == pc' = [pc EXCEPT ![p] = step]

\* What the kernel does when p closes lock_fd, or ends.
CloseFd(p) ==
  /\ fd' = [fd EXCEPT ![p] = NoFile]
  /\ holder' = [i \in Inode |-> IF holder[i] = p THEN NoProc ELSE holder[i]]

(***************************************************************************)
(* main(): pkg_hash_load_status_files, then opkg_cmd_exec.                 *)
(***************************************************************************)
Load(p) ==
  /\ pc[p] = "start"
  /\ seen' = [seen EXCEPT ![p] = statusFile]
  /\ Goto(p, "loaded")
  /\ UNCHANGED <<link, holder, fd, statusFile, dirty, committed>>

\* Mutant: creat with O_EXCL, a lock file that is there means locked.
CreateExclusively(p) ==
  /\ pc[p] = "loaded"
  /\ IF link # NoFile
     THEN Goto(p, "refused") /\ UNCHANGED <<link, fd>>
     ELSE /\ Goto(p, "created")
          /\ \E i \in Inode : (\A q \in Proc : fd[q] # i) /\ link' = i
                              /\ fd' = [fd EXCEPT ![p] = i]
  /\ UNCHANGED <<holder, statusFile, seen, dirty, committed>>

\* creat(): open the lock file, or make it from an inode nobody uses.
CreateLockFile(p) ==
  /\ pc[p] = "loaded"
  /\ \E i \in Inode :
       /\ IF link = NoFile THEN \A q \in Proc : fd[q] # i ELSE i = link
       /\ link' = i
       /\ fd' = [fd EXCEPT ![p] = i]
  /\ Goto(p, "created")
  /\ UNCHANGED <<holder, statusFile, seen, dirty, committed>>

\* Mutant: the result of lockf ignored.
TryLockUnchecked(p) ==
  /\ pc[p] = "created"
  /\ holder' = [holder EXCEPT ![fd[p]] = p]
  /\ Goto(p, "locked")
  /\ UNCHANGED <<link, fd, statusFile, seen, dirty, committed>>

\* Mutant: the refused process goes on.
TryLockNoReturn(p) ==
  /\ pc[p] = "created"
  /\ IF holder[fd[p]] = NoProc THEN holder' = [holder EXCEPT ![fd[p]] = p]
                               ELSE UNCHANGED holder
  /\ Goto(p, "locked")
  /\ UNCHANGED <<link, fd, statusFile, seen, dirty, committed>>

\* lockf(F_TLOCK) never waits; a process that is refused closes the file and
\* leaves it there.
TryLock(p) ==
  /\ pc[p] = "created"
  /\ \/ /\ holder[fd[p]] = NoProc
        /\ holder' = [holder EXCEPT ![fd[p]] = p]
        /\ Goto(p, "locked")
        /\ UNCHANGED fd
     \/ /\ holder[fd[p]] # NoProc
        /\ CloseFd(p)
        /\ Goto(p, "refused")
  /\ UNCHANGED <<link, statusFile, seen, dirty, committed>>

(***************************************************************************)
(* The command: it changes something, or nothing, and writes the status    *)
(* file it has in memory over the one on disk, which is truncated first.   *)
(***************************************************************************)
Change(p) ==
  /\ pc[p] = "locked"
  /\ \/ dirty' = dirty \union {p} /\ Goto(p, "working")
     \/ UNCHANGED dirty /\ Goto(p, "done")
  /\ UNCHANGED <<link, holder, fd, statusFile, seen, committed>>

Truncate(p) ==
  /\ pc[p] = "working"
  /\ statusFile' = {}
  /\ Goto(p, "writing")
  /\ UNCHANGED <<link, holder, fd, seen, dirty, committed>>

Written(p) ==
  /\ statusFile' = seen[p] \union {p}
  /\ committed' = committed \union {p}

FinishWriting(p) ==
  /\ pc[p] = "writing"
  /\ Written(p)
  /\ Goto(p, "done")
  /\ UNCHANGED <<link, holder, fd, seen, dirty>>

(***************************************************************************)
(* opkg_unlock: unlock, close, and only then unlink the lock file, if it   *)
(* is still there, whoever made it.                                        *)
(***************************************************************************)
Unlock(p) ==
  /\ pc[p] = "done"
  /\ holder' = [holder EXCEPT ![fd[p]] = NoProc]
  /\ Goto(p, "unlocked")
  /\ UNCHANGED <<link, fd, statusFile, seen, dirty, committed>>

Close(p) ==
  /\ pc[p] = "unlocked"
  /\ CloseFd(p)
  /\ Goto(p, "closed")
  /\ UNCHANGED <<link, statusFile, seen, dirty, committed>>

LockFileExists(p) ==
  /\ pc[p] = "closed"
  /\ Goto(p, IF link = NoFile THEN "ended" ELSE "checked")
  /\ UNCHANGED <<link, holder, fd, statusFile, seen, dirty, committed>>

Unlink(p) ==
  /\ pc[p] = "checked"
  /\ link' = NoFile
  /\ Goto(p, "ended")
  /\ UNCHANGED <<holder, fd, statusFile, seen, dirty, committed>>

(***************************************************************************)
(* SIGINT and death.  sigint_handler stays installed until the process     *)
(* ends; opkg_state_changed is never reset.  The lock file stays.          *)
(***************************************************************************)
Interrupt(p) ==
  /\ Interrupts
  /\ pc[p] \in {"working", "writing", "done", "unlocked", "closed", "checked"}
  /\ IF p \in dirty
     THEN statusFile' = {} /\ Goto(p, "handler") /\ UNCHANGED <<fd, holder>>
     ELSE UNCHANGED statusFile /\ Goto(p, "ended") /\ CloseFd(p)
  /\ UNCHANGED <<link, seen, dirty, committed>>

FinishHandler(p) ==
  /\ pc[p] = "handler"
  /\ Written(p)
  /\ CloseFd(p)
  /\ Goto(p, "ended")
  /\ UNCHANGED <<link, seen, dirty>>

Kill(p) ==
  /\ Kills
  /\ pc[p] \notin Ended
  /\ CloseFd(p)
  /\ Goto(p, "killed")
  /\ UNCHANGED <<link, statusFile, seen, dirty, committed>>

Init ==
  /\ link = NoFile
  /\ holder = [i \in Inode |-> NoProc]
  /\ fd = [p \in Proc |-> NoFile]
  /\ statusFile = {}
  /\ seen = [p \in Proc |-> {}]
  /\ dirty = {}
  /\ committed = {}
  /\ pc = [p \in Proc |-> "start"]

Step(p) ==
  \/ Load(p) \/ CreateLockFile(p) \/ TryLock(p)
  \/ Change(p) \/ Truncate(p) \/ FinishWriting(p)
  \/ Unlock(p) \/ Close(p) \/ LockFileExists(p) \/ Unlink(p)
  \/ FinishHandler(p)

Next == \E p \in Proc : Step(p) \/ Interrupt(p) \/ Kill(p)

Spec == Init /\ [][Next]_vars

(***************************************************************************)
(* Properties.                                                             *)
(***************************************************************************)

\* A process holds the lock on the file it has open, and on no other, from the
\* lockf that succeeded to opkg_unlock, whatever the others do meanwhile; the
\* handler may run with the lock or without it.
HeldBy(p) == {i \in Inode : holder[i] = p}

LockInv ==
  /\ TypeOK
  /\ \A p \in Proc :
       /\ HeldBy(p) \subseteq {fd[p]}
       /\ pc[p] \in {"locked", "working", "writing", "done"} => HeldBy(p) = {fd[p]}
       /\ pc[p] \in {"start", "loaded", "created"} => HeldBy(p) = {}
       /\ pc[p] = "created" => fd[p] \in Inode

\* "command requires exclusive lock": no two processes are inside opkg_lock and
\* opkg_unlock at once.
MutualExclusion == \A p, q \in Proc : Inside(p) /\ Inside(q) => p = q

\* opkg_lock turns a process away only while another one holds the lock:
\* a lock file left behind by a killed or interrupted opkg does no harm.
NoSpuriousRefusal ==
  [][\A p \in Proc : pc[p] # "refused" /\ pc'[p] = "refused"
       => \E q \in Proc \ {p} : Inside(q)]_vars

\* What a privileged command wrote stays in the status file.
NothingLost ==
  (\A p \in Proc : pc[p] \in Ended) => committed \subseteq statusFile

\* Where ExclusiveLock sees a process.
phase == [p \in Proc |->
            IF pc[p] \in {"start", "loaded", "created"} THEN "out"
            ELSE IF Inside(p) THEN "in"
            ELSE IF pc[p] = "refused" THEN "refused" ELSE "gone"]

Exclusive == INSTANCE ExclusiveLock WITH Proc <- Proc, phase <- phase

\* opkg_lock and opkg_unlock give what opkg_cmd.h promises of them.
ImplementsExclusiveLock == Exclusive!Spec
=============================================================================
