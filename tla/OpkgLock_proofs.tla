-------------------------- MODULE OpkgLock_proofs --------------------------
(***************************************************************************)
(* Proofs about the lock, for any number of processes, with SIGINT and     *)
(* death at any point:                                                     *)
(*                                                                         *)
(*   LockInvariant   Spec => []LockInv                                     *)
(*   Refusal         Spec => NoSpuriousRefusal                             *)
(*                                                                         *)
(* and for two processes:                                                  *)
(*                                                                         *)
(*   TwoProcesses    Spec => ImplementsExclusiveLock                       *)
(*                                                                         *)
(* LockInv is inductive.  It gives Refusal its last step: the process that *)
(* holds the inode another one has just opened has it open as well, and is *)
(* not the one that has only just opened it.  TwoProcesses takes OneFile:  *)
(* what one process has open is what the other has open too, or will find  *)
(* under the name of the lock file.  A third process can unlink the name   *)
(* in between, and exclusion fails.                                        *)
(***************************************************************************)
EXTENDS OpkgLock, TLAPS

\* The part of LockInv that speaks of one process.
Holds(p) ==
  /\ HeldBy(p) \subseteq {fd[p]}
  /\ pc[p] \in {"locked", "working", "writing", "done"} => HeldBy(p) = {fd[p]}
  /\ pc[p] \in {"start", "loaded", "created"} => HeldBy(p) = {}
  /\ pc[p] = "created" => fd[p] \in Inode

\* The lock constants, without what only TLC needs of them.
LEMMA Nulls == NoFile \notin Inode /\ NoProc \notin Proc
  BY LockConstantsOK

\* LockInv holds before any process has started.
LEMMA LockInit == Init => LockInv
  <1> SUFFICES ASSUME Init PROVE LockInv
    OBVIOUS
  <1>1. TypeOK
    BY DEF Init, TypeOK, Steps
  <1>2. ASSUME NEW p \in Proc PROVE Holds(p)
    BY Nulls DEF Init, Holds, HeldBy
  <1> QED
    BY <1>1, <1>2 DEF LockInv, Holds

\* Every step keeps the types.
LEMMA LockTypes ==
  ASSUME TypeOK, NEW p \in Proc, Step(p) \/ Interrupt(p) \/ Kill(p)
  PROVE  TypeOK'
  <1> USE DEF TypeOK, Steps, Ended, Goto
  <1>1. CASE Load(p)
    BY <1>1 DEF Load
  <1>2. CASE CreateLockFile(p)
    BY <1>2 DEF CreateLockFile
  <1>3. CASE TryLock(p)
    BY <1>3 DEF TryLock, CloseFd
  <1>4. CASE Change(p)
    BY <1>4 DEF Change
  <1>5. CASE Truncate(p)
    BY <1>5 DEF Truncate
  <1>6. CASE FinishWriting(p)
    BY <1>6 DEF FinishWriting, Written
  <1>7. CASE Unlock(p)
    BY <1>7 DEF Unlock
  <1>8. CASE Close(p)
    BY <1>8 DEF Close, CloseFd
  <1>9. CASE LockFileExists(p)
    BY <1>9 DEF LockFileExists
  <1>10. CASE Unlink(p)
    BY <1>10 DEF Unlink
  <1>11. CASE FinishHandler(p)
    BY <1>11 DEF FinishHandler, Written, CloseFd
  <1>12. CASE Interrupt(p)
    BY <1>12 DEF Interrupt, CloseFd
  <1>13. CASE Kill(p)
    BY <1>13 DEF Kill, CloseFd
  <1> QED
    BY <1>1, <1>2, <1>3, <1>4, <1>5, <1>6, <1>7, <1>8, <1>9, <1>10, <1>11,
       <1>12, <1>13 DEF Step

\* A step of p leaves what any other process q has open, holds and does alone.
LEMMA OthersUndisturbed ==
  ASSUME LockInv, NEW p \in Proc, Step(p) \/ Interrupt(p) \/ Kill(p),
         NEW q \in Proc, q # p
  PROVE  fd'[q] = fd[q] /\ pc'[q] = pc[q] /\ HeldBy(q)' = HeldBy(q)
  <1> USE Nulls DEF LockInv, TypeOK, Goto, HeldBy
  <1>1. CASE Load(p)
    BY <1>1 DEF Load
  <1>2. CASE CreateLockFile(p)
    BY <1>2 DEF CreateLockFile
  <1>3. CASE TryLock(p)
    BY <1>3 DEF TryLock, CloseFd
  <1>4. CASE Change(p)
    BY <1>4 DEF Change
  <1>5. CASE Truncate(p)
    BY <1>5 DEF Truncate
  <1>6. CASE FinishWriting(p)
    BY <1>6 DEF FinishWriting, Written
  <1>7. CASE Unlock(p)
    BY <1>7 DEF Unlock
  <1>8. CASE Close(p)
    BY <1>8 DEF Close, CloseFd
  <1>9. CASE LockFileExists(p)
    BY <1>9 DEF LockFileExists
  <1>10. CASE Unlink(p)
    BY <1>10 DEF Unlink
  <1>11. CASE FinishHandler(p)
    BY <1>11 DEF FinishHandler, Written, CloseFd
  <1>12. CASE Interrupt(p)
    BY <1>12 DEF Interrupt, CloseFd
  <1>13. CASE Kill(p)
    BY <1>13 DEF Kill, CloseFd
  <1> QED
    BY <1>1, <1>2, <1>3, <1>4, <1>5, <1>6, <1>7, <1>8, <1>9, <1>10, <1>11,
       <1>12, <1>13 DEF Step

\* A process that closes lock_fd, or ends, holds nothing.
LEMMA ClosedHoldsNothing ==
  ASSUME TypeOK, NEW p \in Proc, CloseFd(p)
  PROVE  HeldBy(p)' = {}
  BY Nulls DEF CloseFd, HeldBy

\* The process that steps keeps its part of LockInv.
LEMMA StepperHolds ==
  ASSUME LockInv, NEW p \in Proc, Step(p) \/ Interrupt(p) \/ Kill(p)
  PROVE  Holds(p)'
  <1> TypeOK /\ Holds(p)
    BY DEF LockInv, Holds
  <1> USE Nulls DEF TypeOK, Holds, Goto, Ended
  <1>1. CASE Load(p)
    BY <1>1 DEF Load, HeldBy
  <1>2. CASE CreateLockFile(p)
    BY <1>2 DEF CreateLockFile, HeldBy
  <1>3. CASE TryLock(p)
    <2>1. CASE holder[fd[p]] = NoProc /\ pc'[p] = "locked"
      BY <1>3, <2>1 DEF TryLock, HeldBy, CloseFd
    <2>2. CASE CloseFd(p) /\ pc'[p] = "refused"
      BY <2>2, ClosedHoldsNothing
    <2> QED
      BY <1>3, <2>1, <2>2 DEF TryLock
  <1>4. CASE Change(p)
    BY <1>4 DEF Change, HeldBy
  <1>5. CASE Truncate(p)
    BY <1>5 DEF Truncate, HeldBy
  <1>6. CASE FinishWriting(p)
    BY <1>6 DEF FinishWriting, Written, HeldBy
  <1>7. CASE Unlock(p)
    BY <1>7 DEF Unlock, HeldBy
  <1>8. CASE Close(p)
    BY <1>8, ClosedHoldsNothing DEF Close
  <1>9. CASE LockFileExists(p)
    BY <1>9 DEF LockFileExists, HeldBy
  <1>10. CASE Unlink(p)
    BY <1>10 DEF Unlink, HeldBy
  <1>11. CASE FinishHandler(p)
    BY <1>11, ClosedHoldsNothing DEF FinishHandler
  <1>12. CASE Interrupt(p)
    <2>1. CASE p \in dirty
      BY <1>12, <2>1 DEF Interrupt, HeldBy
    <2>2. CASE p \notin dirty
      BY <1>12, <2>2, ClosedHoldsNothing DEF Interrupt
    <2> QED
      BY <2>1, <2>2
  <1>13. CASE Kill(p)
    BY <1>13, ClosedHoldsNothing DEF Kill
  <1> QED
    BY <1>1, <1>2, <1>3, <1>4, <1>5, <1>6, <1>7, <1>8, <1>9, <1>10, <1>11,
       <1>12, <1>13 DEF Step

\* Every step of the system keeps LockInv.
LEMMA LockStep == LockInv /\ [Next]_vars => LockInv'
  <1> SUFFICES ASSUME LockInv, [Next]_vars PROVE LockInv'
    OBVIOUS
  <1>1. CASE UNCHANGED vars
    BY <1>1 DEF vars, LockInv, TypeOK, HeldBy
  <1>2. ASSUME NEW p \in Proc, Step(p) \/ Interrupt(p) \/ Kill(p)
        PROVE  LockInv'
    <2>1. TypeOK'
      BY <1>2, LockTypes DEF LockInv
    <2>2. Holds(p)'
      BY <1>2, StepperHolds
    <2>3. ASSUME NEW q \in Proc, q # p PROVE Holds(q)'
      <3>1. fd'[q] = fd[q] /\ pc'[q] = pc[q] /\ HeldBy(q)' = HeldBy(q)
        BY <1>2, <2>3, OthersUndisturbed
      <3> QED
        BY <3>1 DEF LockInv, Holds
    <2> QED
      BY <2>1, <2>2, <2>3 DEF LockInv, Holds
  <1> QED
    BY <1>1, <1>2 DEF Next

\* Whatever the processes do and however they end, each holds the lock on the
\* file it has open, and on no other, for as long as its command works.
THEOREM LockInvariant == Spec => []LockInv
  BY LockInit, LockStep, PTL DEF Spec

\* A step that turns a process away finds another one inside.
LEMMA RefusalStep ==
  LockInv /\ [Next]_vars =>
    \A p \in Proc : pc[p] # "refused" /\ pc'[p] = "refused"
      => \E q \in Proc \ {p} : Inside(q)
  <1> SUFFICES ASSUME LockInv, [Next]_vars,
                      NEW p \in Proc, pc[p] # "refused", pc'[p] = "refused"
               PROVE  \E q \in Proc \ {p} : Inside(q)
    OBVIOUS
  <1>1. PICK r \in Proc : Step(r) \/ Interrupt(r) \/ Kill(r)
    BY DEF Next, vars
  <1>2. r = p
    BY <1>1, OthersUndisturbed
  <1>3. TryLock(p)
    BY <1>1, <1>2 DEF Step, Interrupt, Kill, Goto, Ended, LockInv, TypeOK, Load,
       CreateLockFile, Change, Truncate, FinishWriting, Unlock, Close,
       LockFileExists, Unlink, FinishHandler
  <1>4. fd[p] \in Inode /\ holder[fd[p]] # NoProc /\ HeldBy(p) = {}
    BY <1>3 DEF TryLock, LockInv, TypeOK, Goto
  <1>5. PICK q \in Proc : holder[fd[p]] = q
    BY <1>4 DEF LockInv, TypeOK
  <1>6. q # p
    BY <1>4, <1>5 DEF HeldBy
  <1>7. fd[q] = fd[p]
    BY <1>4, <1>5 DEF LockInv, HeldBy
  <1>8. Inside(q)
    BY <1>4, <1>5, <1>7, Nulls DEF Inside
  <1> QED
    BY <1>6, <1>8

\* No process is ever turned away by a lock file that nobody holds.
THEOREM Refusal == Spec => NoSpuriousRefusal
  BY LockInvariant, RefusalStep, PTL DEF Spec, NoSpuriousRefusal

(***************************************************************************)
(* Two processes.  With a third one there are two lock files: one process  *)
(* unlinks what another has open, and the third makes a new one.           *)
(***************************************************************************)

\* A process that has not opened the lock file yet will find there what the
\* other one has open.
OneFile ==
  \A p, q \in Proc : p # q /\ fd[p] # NoFile =>
    /\ pc[q] \in {"start", "loaded"} => link = fd[p]
    /\ fd[q] # NoFile => fd[q] = fd[p]

\* Nothing is open before the lock file is and after it was closed.
ClosedAround ==
  \A p \in Proc : pc[p] \in {"start", "loaded", "closed", "checked"} \union Ended
                    => fd[p] = NoFile

LEMMA ClosedStep == LockInv /\ ClosedAround /\ [Next]_vars => ClosedAround'
  <1> SUFFICES ASSUME LockInv, ClosedAround, [Next]_vars,
                      NEW q \in Proc,
                      pc'[q] \in {"start", "loaded", "closed", "checked"} \union Ended
               PROVE  fd'[q] = NoFile
    BY DEF ClosedAround
  <1>a. TypeOK /\ (pc[q] \in {"start", "loaded", "closed", "checked"} \union Ended
                     => fd[q] = NoFile)
    BY DEF LockInv, ClosedAround
  <1>1. CASE UNCHANGED vars
    BY <1>a, <1>1 DEF vars
  <1>2. ASSUME NEW p \in Proc, Step(p) \/ Interrupt(p) \/ Kill(p), p # q
        PROVE  fd'[q] = NoFile
    BY <1>a, <1>2, OthersUndisturbed
  <1>3. ASSUME Step(q) \/ Interrupt(q) \/ Kill(q)
        PROVE  fd'[q] = NoFile
    <2> USE <1>a DEF TypeOK, Goto, Ended
    <2>1. CASE Load(q) \/ Change(q) \/ Truncate(q) \/ FinishWriting(q) \/ Unlock(q)
      BY <2>1 DEF Load, Change, Truncate, FinishWriting, Unlock
    <2>2. CASE CreateLockFile(q) \/ LockFileExists(q) \/ Unlink(q)
      BY <2>2 DEF CreateLockFile, LockFileExists, Unlink
    <2>3. CASE TryLock(q)
      BY <2>3 DEF TryLock, CloseFd
    <2>4. CASE Close(q) \/ FinishHandler(q) \/ Kill(q)
      BY <2>4 DEF Close, FinishHandler, Kill, CloseFd
    <2>5. CASE Interrupt(q)
      BY <2>5 DEF Interrupt, CloseFd
    <2> QED
      BY <1>3, <2>1, <2>2, <2>3, <2>4, <2>5 DEF Step
  <1> QED
    BY <1>1, <1>2, <1>3 DEF Next

\* The lock file changes by the step that opens it and by the one that unlinks it.
LEMMA LinkStep ==
  ASSUME NEW p \in Proc, Step(p) \/ Interrupt(p) \/ Kill(p)
  PROVE  link' = link \/ CreateLockFile(p) \/ Unlink(p)
  BY DEF Step, Interrupt, Kill, Load, TryLock, Change, Truncate, FinishWriting, Unlock,
     Close, LockFileExists, FinishHandler

\* The steps that open nothing leave a process with what it had, or close it.
LEMMA FdStep ==
  ASSUME TypeOK, NEW p \in Proc, Step(p) \/ Interrupt(p) \/ Kill(p), ~CreateLockFile(p)
  PROVE  /\ fd'[p] \in {fd[p], NoFile}
         /\ pc'[p] \in {"start", "loaded"} => pc[p] \in {"start", "loaded"}
  BY DEF Step, Interrupt, Kill, Load, TryLock, Change, Truncate, FinishWriting, Unlock,
     Close, LockFileExists, FinishHandler, Unlink, CloseFd, Goto, TypeOK

LEMMA OneFileStep ==
  ASSUME NEW a, NEW b, Proc = {a, b}
  PROVE  LockInv /\ ClosedAround /\ OneFile /\ [Next]_vars => OneFile'
  <1> SUFFICES ASSUME LockInv, ClosedAround, OneFile, [Next]_vars
               PROVE  OneFile'
    OBVIOUS
  <1>1. CASE UNCHANGED vars
    BY <1>1 DEF vars, OneFile
  <1>2. ASSUME NEW p \in Proc, NEW q \in Proc, p # q,
               Step(p) \/ Interrupt(p) \/ Kill(p)
        PROVE  OneFile'
    <2>a. TypeOK /\ fd'[q] = fd[q] /\ pc'[q] = pc[q]
      BY <1>2, OthersUndisturbed DEF LockInv
    <2>b. \A r \in Proc : r = p \/ r = q
      BY <1>2
    <2>1. CASE CreateLockFile(p)
      <3>1. /\ pc[p] = "loaded" /\ pc'[p] = "created"
            /\ link' = fd'[p] /\ link' \in Inode
            /\ link # NoFile => link' = link
        BY <2>a, <2>1 DEF CreateLockFile, Goto, TypeOK
      <3>2. fd[q] # NoFile => link = fd[q]
        BY <1>2, <3>1 DEF OneFile
      <3> QED
        BY <2>a, <2>b, <3>1, <3>2 DEF OneFile
    <2>2. CASE Unlink(p)
      <3>1. fd'[p] = NoFile /\ pc'[p] = "ended"
        BY <2>a, <2>2 DEF Unlink, Goto, ClosedAround, TypeOK
      <3> QED
        BY <2>a, <2>b, <3>1 DEF OneFile
    <2>3. CASE ~CreateLockFile(p) /\ ~Unlink(p)
      <3>1. /\ link' = link /\ fd'[p] \in {fd[p], NoFile}
            /\ pc'[p] \in {"start", "loaded"} => pc[p] \in {"start", "loaded"}
        BY <1>2, <2>a, <2>3, LinkStep, FdStep
      <3> QED
        BY <1>2, <2>a, <2>b, <3>1 DEF OneFile
    <2> QED
      BY <2>1, <2>2, <2>3
  <1>3. ASSUME NEW p \in Proc, Step(p) \/ Interrupt(p) \/ Kill(p), \A q \in Proc : q = p
        PROVE  OneFile'
    BY <1>3 DEF OneFile
  <1> QED
    BY <1>1, <1>2, <1>3 DEF Next

\* What a step of p means to ExclusiveLock.
LEMMA PhaseStep ==
  ASSUME LockInv, OneFile, NEW p \in Proc, Step(p) \/ Interrupt(p) \/ Kill(p)
  PROVE  Exclusive!Next \/ UNCHANGED phase
  <1>a. TypeOK /\ LockInv' /\ phase \in [Proc -> {"out", "in", "refused", "gone"}]
    BY LockStep DEF LockInv, phase, Next
  <1>b. /\ phase = [q \in Proc |-> phase[q]]
        /\ phase' = [q \in Proc |-> phase'[q]]
    BY DEF phase
  <1>c. \A q \in Proc \ {p} : phase'[q] = phase[q]
    <2> TAKE q \in Proc \ {p}
    <2>1. fd'[q] = fd[q] /\ pc'[q] = pc[q] /\ HeldBy(q)' = HeldBy(q)
      BY OthersUndisturbed
    <2>2. Inside(q)' <=> Inside(q)
      BY <1>a, <2>1 DEF Inside, HeldBy, TypeOK, LockInv
    <2> QED
      BY <2>1, <2>2 DEF phase
  <1>d. phase' = [phase EXCEPT ![p] = phase'[p]]
    BY <1>b, <1>c
  <1>1. CASE TryLock(p)
    <2>1. pc[p] = "created" /\ phase[p] = "out" /\ fd[p] \in Inode
      BY <1>1 DEF TryLock, phase, LockInv
    <2>2. CASE holder[fd[p]] = NoProc
      <3>1. pc'[p] = "locked" /\ Inside(p)'
        BY <1>a, <1>1, <2>1, <2>2, Nulls DEF TryLock, CloseFd, Goto, Inside, TypeOK
      <3>2. ~Exclusive!Occupied
        <4> SUFFICES ASSUME NEW q \in Proc, phase[q] = "in" PROVE FALSE
          BY DEF Exclusive!Occupied
        <4>1. Inside(q) /\ q # p
          BY <2>1 DEF phase
        <4> QED
          BY <2>1, <2>2, <4>1, Nulls DEF Inside, OneFile
      <3>3. phase'[p] = "in"
        BY <3>1 DEF phase
      <3> QED
        BY <1>d, <2>1, <3>2, <3>3 DEF Exclusive!Next, Exclusive!Enter,
           Exclusive!Move
    <2>3. CASE holder[fd[p]] # NoProc
      <3>1. pc'[p] = "refused" /\ ~Inside(p)'
        BY <1>a, <1>1, <2>1, <2>3, Nulls DEF TryLock, CloseFd, Goto, Inside, TypeOK
      <3>2. PICK q \in Proc \ {p} : Inside(q)
        BY <1>1, <2>1, <3>1, RefusalStep DEF Next
      <3>3. phase[q] = "in"
        BY <1>a, <3>2 DEF phase, Inside, LockInv, HeldBy, TypeOK
      <3>4. phase'[p] = "refused"
        BY <3>1 DEF phase
      <3> QED
        BY <1>d, <2>1, <3>3, <3>4 DEF Exclusive!Next, Exclusive!Refuse, Exclusive!Occupied,
           Exclusive!Move
    <2> QED
      BY <2>2, <2>3
  <1>2. CASE ~TryLock(p)
    <2>1. pc[p] # "refused" /\ pc'[p] # "refused"
      BY <1>a, <1>2 DEF Step, Interrupt, Kill, Load, CreateLockFile, Change, Truncate,
         FinishWriting, Unlock, Close, LockFileExists, Unlink, FinishHandler, Goto, Ended,
         TypeOK
    <2>2. pc'[p] \in {"start", "loaded", "created"} => pc[p] \in {"start", "loaded", "created"}
      BY <1>a, <1>2 DEF Step, Interrupt, Kill, Load, CreateLockFile, Change, Truncate,
         FinishWriting, Unlock, Close, LockFileExists, Unlink, FinishHandler, Goto, TypeOK
    <2>3. /\ Inside(p)' /\ pc'[p] \notin {"start", "loaded", "created"}
            => Inside(p)
      BY <1>a, <1>2, Nulls DEF Step, Interrupt, Kill, Load, CreateLockFile, Change, Truncate,
         FinishWriting, Unlock, Close, LockFileExists, Unlink, FinishHandler, Goto, TypeOK,
         Inside, CloseFd, Written
    <2>4. Inside(p) => pc[p] \notin {"start", "loaded", "created"}
      BY <1>a DEF Inside, LockInv, HeldBy, TypeOK
    <2>5. CASE phase'[p] = phase[p]
      BY <1>b, <1>c, <2>5
    <2>6. CASE phase[p] \in {"out", "in"} /\ phase'[p] = "gone"
      BY <1>d, <2>6 DEF Exclusive!Next, Exclusive!Leave, Exclusive!GiveUp,
           Exclusive!Move
    <2>7. \/ phase'[p] = phase[p]
          \/ phase[p] \in {"out", "in"} /\ phase'[p] = "gone"
      BY <2>1, <2>2, <2>3, <2>4 DEF phase
    <2> QED
      BY <2>5, <2>6, <2>7
  <1> QED
    BY <1>1, <1>2

\* Two opkg processes, wherever they are interrupted or killed, get in, are
\* turned away and leave as opkg_cmd.h promises of a command that requires an
\* exclusive lock: opkg_lock and opkg_unlock implement ExclusiveLock.
THEOREM TwoProcesses ==
  ASSUME NEW a, NEW b, Proc = {a, b}
  PROVE  Spec => ImplementsExclusiveLock
  <1>1. Init => ClosedAround /\ OneFile
    BY DEF Init, ClosedAround, OneFile
  <1>2. LockInv /\ ClosedAround /\ OneFile /\ [Next]_vars => OneFile'
    BY OneFileStep
  <1>3. Init => Exclusive!Init
    BY DEF Init, Exclusive!Init, phase
  <1>4. LockInv /\ OneFile /\ [Next]_vars => [Exclusive!Next]_phase
    <2>1. UNCHANGED vars => UNCHANGED phase
      BY DEF vars, phase, Inside
    <2> QED
      BY <2>1, PhaseStep DEF Next
  <1> QED
    BY LockInit, LockStep, ClosedStep, <1>1, <1>2, <1>3, <1>4, PTL
       DEF Spec, ImplementsExclusiveLock, Exclusive!Spec
=============================================================================
