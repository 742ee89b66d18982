------------------------- MODULE BoxSupervisorProofs -------------------------
(***************************************************************************)
(* Proofs about BoxSupervisor, for any number of instances: whoever is     *)
(* named by the pid file or by the supervisor, and runs, has the lock.     *)
(***************************************************************************)
EXTENDS BoxSupervisor, TLAPS

\* A running instance named q has the lock.
NamesHolder(q) == q # NoPid /\ Running(q) => q \in Holder

Inv == TypeOK /\ NamesHolder(pidfile) /\ NamesHolder(pid)

-----------------------------------------------------------------------------
(* Types.                                                                  *)

\* An instance that changes its state keeps the types.
LEMMA BecomesType ==
  ASSUME TypeOK, NEW p \in Pid, NEW s \in States, Becomes(p, s)
  PROVE  proc' \in [Pid -> States]
BY DEF TypeOK, Becomes

LEMMA InstanceType == ASSUME TypeOK, NEW p \in Pid, Instance(p) \/ Hang(p) \/ Recover(p) \/ Crash(p)
                      PROVE  TypeOK'
<1>1. CASE OpenPidFile(p)
  BY <1>1, BecomesType DEF OpenPidFile, TypeOK, States, fileVars, memVars
<1>2. CASE LockPidFile(p)
  BY <1>2, BecomesType DEF LockPidFile, TypeOK, States, Locked, fileVars, memVars
<1>3. CASE LockFails(p)
  BY <1>3, BecomesType DEF LockFails, TypeOK, States, fileVars, memVars
<1>4. CASE WritePid(p)
  BY <1>4, BecomesType DEF WritePid, TypeOK, States, Locked, fileVars, memVars
<1>5. CASE ServerRun(p)
  BY <1>5, BecomesType DEF ServerRun, TypeOK, States, Locked, fileVars, memVars
<1>6. CASE Hang(p)
  BY <1>6, BecomesType DEF Hang, TypeOK, States, Locked, fileVars, memVars
<1>7. CASE Recover(p)
  BY <1>7, BecomesType DEF Recover, TypeOK, States, Locked, fileVars, memVars
<1>8. CASE Crash(p)
  BY <1>8, BecomesType DEF Crash, TypeOK, States, fileVars, memVars
<1> QED
  BY <1>1, <1>2, <1>3, <1>4, <1>5, <1>6, <1>7, <1>8 DEF Instance

LEMMA SupervisorType == ASSUME TypeOK, Supervisor  PROVE TypeOK'
<1> USE DEF TypeOK, Goto, fileVars, memVars
<1>1. CASE Wake
  BY <1>1 DEF Wake, Loop
<1>2. CASE Restore
  BY <1>2 DEF Restore, Loop, Content
<1>3. CASE Restored
  BY <1>3 DEF Restored, Loop
<1>4. CASE ReadPid
  BY <1>4 DEF ReadPid, Loop
<1>5. CASE TestLock
  BY <1>5 DEF TestLock, Loop
<1>6. CASE CloseLock
  BY <1>6 DEF CloseLock, Loop
<1>7. CASE Launch
  <2>1. proc' \in [Pid -> States]
    BY <1>7, BecomesType DEF Launch, States
  <2>2. falsecount' \in 0 .. FalseLimit + 1
    BY <1>7, SupervisorAssumption DEF Launch
  <2> QED
    BY <1>7, <2>1, <2>2 DEF Launch, Loop
<1>8. CASE FoundAlive
  <2>1. falsecount' \in 0 .. FalseLimit + 1
    BY <1>8, SupervisorAssumption DEF FoundAlive
  <2>2. bk' \in Content /\ pc' \in Loop
    BY <1>8 DEF FoundAlive, Loop, Content
  <2> QED
    BY <1>8, <2>1, <2>2 DEF FoundAlive
<1>9. CASE BackedUp
  BY <1>9 DEF BackedUp, Loop
<1>10. CASE NotDue
  BY <1>10 DEF NotDue, Loop
<1>11. CASE Answers
  BY <1>11 DEF Answers, Loop
<1>12. CASE NoAnswer
  BY <1>12 DEF NoAnswer, Loop
<1>13. CASE Kill
  <2>1. proc' \in [Pid -> States]
    BY <1>13, BecomesType DEF Kill, States
  <2> QED
    BY <1>13, <2>1 DEF Kill, Loop
<1> QED
  BY <1>1, <1>2, <1>3, <1>4, <1>5, <1>6, <1>7, <1>8, <1>9, <1>10, <1>11, <1>12, <1>13
  DEF Supervisor

LEMMA RebootedType == ASSUME TypeOK, Rebooted  PROVE TypeOK'
<1>1. falsecount' \in 0 .. FalseLimit + 1
  BY SupervisorAssumption DEF Rebooted
<1> QED
  BY <1>1 DEF Rebooted, TypeOK, States, Loop, Upgrades, fileVars

LEMMA UpgradeType == ASSUME TypeOK, UpgradeSaves \/ Upgrade  PROVE TypeOK'
<1> USE DEF TypeOK, fileVars, memVars, Upgrades, Content
<1>1. CASE UpgradeSaves
  BY <1>1 DEF UpgradeSaves
<1>2. CASE UpgradeCopies
  BY <1>2 DEF UpgradeCopies
<1>3. CASE UpgradeCopied
  BY <1>3 DEF UpgradeCopied
<1>4. CASE UpgradeReboots
  BY <1>4, RebootedType DEF UpgradeReboots
<1>5. CASE UpgradeFails
  BY <1>5 DEF UpgradeFails
<1> QED
  BY <1>1, <1>2, <1>3, <1>4, <1>5 DEF Upgrade

LEMMA InitType == Init => TypeOK
<1>1. ASSUME Init  PROVE falsecount \in 0 .. FalseLimit + 1
  BY <1>1, SupervisorAssumption DEF Init
<1> QED
  BY <1>1 DEF Init, TypeOK, Content, States, Loop, Upgrades

LEMMA NextType == TypeOK /\ [Next]_vars => TypeOK'
<1> SUFFICES ASSUME TypeOK, [Next]_vars  PROVE TypeOK'
  OBVIOUS
<1>1. CASE UNCHANGED vars
  BY <1>1 DEF vars, fileVars, memVars, TypeOK
<1>2. CASE Next
  BY <1>2, InstanceType, SupervisorType, UpgradeType, RebootedType DEF Next, Calm, PowerCut
<1> QED
  BY <1>1, <1>2

\* Every reachable state of the supervisor, its instances, its files and an
\* upgrade is well typed, for any number of instances and any limit.
THEOREM TypeCorrect == Spec => []TypeOK
<1> QED
  BY InitType, NextType, PTL DEF Spec

-----------------------------------------------------------------------------
(* Who is named has the lock.                                              *)

\* What may happen to an instance that is named: it keeps the lock or goes.
Kept(q) == proc'[q] = "none" \/ (proc[q] \in Locked /\ proc'[q] \in Locked) \/ proc'[q] = proc[q]

LEMMA KeptHolder ==
  ASSUME TypeOK, NEW q \in Pid \cup {NoPid}, NamesHolder(q), q \in Pid => Kept(q)
  PROVE  q # NoPid /\ proc'[q] # "none" => q \in Holder'
BY SupervisorAssumption DEF NamesHolder, Holder, Running, Kept

\* The invariant of the next state, from what becomes of the two names.
LEMMA NamesNext ==
  ASSUME TypeOK', \A q \in {pidfile', pid'} : q # NoPid /\ proc'[q] # "none" => q \in Holder'
  PROVE  Inv'
BY DEF Inv, NamesHolder, Running

LEMMA InitInv == Init => Inv
<1> SUFFICES ASSUME Init  PROVE Inv
  OBVIOUS
<1>1. \A p \in Pid : ~Running(p)
  BY DEF Init, Running
<1> QED
  BY <1>1, InitType DEF Init, Inv, NamesHolder, TypeOK

LEMMA InstanceKeeps ==
  ASSUME Inv, NEW p \in Pid, Instance(p) \/ Hang(p) \/ Recover(p) \/ Crash(p)
  PROVE  Inv'
<1>1. TypeOK'
  BY InstanceType DEF Inv
<1>2. CASE OpenPidFile(p)
  <2>1. Kept(pid) \/ pid = NoPid \/ pid = p
    BY <1>2 DEF OpenPidFile, Becomes, Kept, Inv, TypeOK
  <2>2. pid # p
    BY <1>2, SupervisorAssumption DEF OpenPidFile, Inv, NamesHolder, Running, Holder, Locked
  <2> QED
    BY <1>1, <1>2, <2>1, <2>2, KeptHolder, NamesNext DEF OpenPidFile, Inv, TypeOK
<1>3. CASE WritePid(p)
  <2>1. \A q \in Pid : Kept(q)
    BY <1>3 DEF WritePid, Becomes, Kept, Inv, TypeOK, Locked
  <2>2. p \in Holder'
    BY <1>3 DEF WritePid, Becomes, Holder, Locked, Inv, TypeOK
  <2> QED
    BY <1>1, <1>3, <2>1, <2>2, KeptHolder, NamesNext DEF WritePid, Inv, TypeOK
<1>4. CASE LockPidFile(p)
  <2>1. \A q \in {pidfile, pid} : q # p /\ (q \in Pid => Kept(q))
    BY <1>4, SupervisorAssumption
    DEF LockPidFile, Becomes, Kept, Inv, TypeOK, NamesHolder, Running, Holder, Locked
  <2> QED
    BY <1>1, <1>4, <2>1, KeptHolder, NamesNext DEF LockPidFile, Inv, TypeOK
<1>5. CASE LockFails(p) \/ ServerRun(p) \/ Hang(p) \/ Recover(p) \/ Crash(p)
  <2>1. \A q \in Pid : Kept(q)
    BY <1>5 DEF LockFails, ServerRun, Hang, Recover, Crash, Becomes, Kept, Inv, TypeOK, Locked
  <2>2. UNCHANGED <<pidfile, pid>>
    BY <1>5 DEF LockFails, ServerRun, Hang, Recover, Crash
  <2> QED
    BY <1>1, <2>1, <2>2, KeptHolder, NamesNext DEF Inv, TypeOK
<1> QED
  BY <1>2, <1>3, <1>4, <1>5 DEF Instance

LEMMA SupervisorKeeps == ASSUME Inv, Supervisor  PROVE Inv'
<1>1. TypeOK'
  BY SupervisorType DEF Inv
<1>2. CASE Launch
  <2>1. \A q \in {pidfile, pid} : q \in Pid => Kept(q)
    BY <1>2 DEF Launch, Unused, Becomes, Kept, Inv, TypeOK
  <2> QED
    BY <1>1, <1>2, <2>1, KeptHolder, NamesNext DEF Launch, Inv, TypeOK
<1>3. CASE Kill
  <2>1. \A q \in Pid : Kept(q)
    BY <1>3 DEF Kill, Becomes, Kept, Inv, TypeOK
  <2> QED
    BY <1>1, <1>3, <2>1, KeptHolder, NamesNext DEF Kill, Inv, TypeOK
<1>4. CASE ReadPid
  <2>1. \A q \in Pid : Kept(q)
    BY <1>4 DEF ReadPid, Kept
  <2> QED
    BY <1>1, <1>4, <2>1, KeptHolder, NamesNext DEF ReadPid, Inv, TypeOK
<1>5. CASE \/ Wake \/ Restore \/ Restored \/ TestLock \/ CloseLock
           \/ FoundAlive \/ BackedUp \/ NotDue \/ Answers \/ NoAnswer
  <2>1. UNCHANGED <<proc, pidfile, pid>>
    BY <1>5 DEF Wake, Restore, Restored, TestLock, CloseLock,
                FoundAlive, BackedUp, NotDue, Answers, NoAnswer
  <2> QED
    BY <1>1, <2>1 DEF Inv, NamesHolder, Running, Holder
<1> QED
  BY <1>2, <1>3, <1>4, <1>5 DEF Supervisor

LEMMA RebootedKeeps == ASSUME Inv, Rebooted  PROVE Inv'
<1>1. TypeOK'
  BY RebootedType DEF Inv
<1>2. \A q \in Pid : proc'[q] = "none"
  BY DEF Rebooted
<1> QED
  BY <1>1, <1>2, NamesNext DEF Rebooted, Inv, TypeOK

LEMMA UpgradeKeeps == ASSUME Inv, UpgradeSaves \/ Upgrade  PROVE Inv'
<1>1. CASE UpgradeReboots
  BY <1>1, RebootedKeeps DEF UpgradeReboots
<1>2. CASE UpgradeSaves \/ UpgradeCopies \/ UpgradeCopied \/ UpgradeFails
  <2>1. UNCHANGED <<proc, pidfile, pid>>
    BY <1>2 DEF UpgradeSaves, UpgradeCopies, UpgradeCopied, UpgradeFails
  <2>2. TypeOK'
    BY UpgradeType DEF Inv
  <2> QED
    BY <2>1, <2>2 DEF Inv, NamesHolder, Running, Holder
<1> QED
  BY <1>1, <1>2 DEF Upgrade

LEMMA NextInv == Inv /\ [Next]_vars => Inv'
<1> SUFFICES ASSUME Inv, [Next]_vars  PROVE Inv'
  OBVIOUS
<1>1. CASE UNCHANGED vars
  <2>1. TypeOK'
    BY <1>1, NextType DEF Inv
  <2> QED
    BY <1>1, <2>1 DEF vars, Inv, NamesHolder, Running, Holder
<1>2. CASE Next
  BY <1>2, InstanceKeeps, SupervisorKeeps, UpgradeKeeps, RebootedKeeps DEF Next, Calm, PowerCut
<1> QED
  BY <1>1, <1>2

\* For any number of instances, launched, delayed, killed and crashed in any
\* order: what the supervisor is about to kill is gone or has the lock.
THEOREM KillsOnlyTheHolder == Spec => []KillsTheHolder
<1>1. Inv => KillsTheHolder
  BY DEF Inv, NamesHolder, KillsTheHolder
<1> QED
  BY <1>1, InitInv, NextInv, PTL DEF Spec

-----------------------------------------------------------------------------
(* When there is always a program to execute, or a backup of one.          *)

\* No copy is made from a torn file, and upgrade and the supervisor do not copy at the
\* same time.
CopiesAreSafe ==
  [][/\ UpgradeSaves => inn = "whole" /\ pc \notin {"restoring", "backing"}
     /\ Restore /\ pc' = "restoring" => bk = "whole" /\ upgrade = "none"
     /\ FoundAlive /\ pc' = "backing" => inn = "whole" /\ upgrade = "none"]_vars

\* While a file is overwritten the other one is whole.
CopyInv ==
  /\ OneIsWhole
  /\ upgrade = "saving" => inn = "whole"
  /\ upgrade \in {"copying", "verify"} => bk = "whole"
  /\ pc = "restoring" => bk = "whole" /\ upgrade = "none"
  /\ pc = "backing" => inn = "whole" /\ upgrade = "none"

LEMMA CopyStep ==
  ASSUME CopyInv, [Next]_vars,
         [/\ UpgradeSaves => inn = "whole" /\ pc \notin {"restoring", "backing"}
          /\ Restore /\ pc' = "restoring" => bk = "whole" /\ upgrade = "none"
          /\ FoundAlive /\ pc' = "backing" => inn = "whole" /\ upgrade = "none"]_vars
  PROVE  CopyInv'
<1> USE DEF CopyInv, OneIsWhole
<1>1. CASE UNCHANGED <<inn, bk, pc, upgrade>>
  BY <1>1
<1>2. ASSUME NEW p \in Pid, Instance(p) \/ Hang(p) \/ Recover(p) \/ Crash(p)  PROVE CopyInv'
  BY <1>1, <1>2 DEF Instance, OpenPidFile, LockPidFile, LockFails, WritePid, ServerRun, Hang, Recover,
                    Crash, fileVars
<1>3. CASE Restore
  <2>1. CASE pc' = "restoring" /\ bk = "whole" /\ upgrade = "none"
    BY <1>3, <2>1 DEF Restore
  <2>2. CASE pc' = "read" /\ inn' = inn
    BY <1>3, <2>2 DEF Restore
  <2> QED
    BY <1>1, <1>3, <2>1, <2>2 DEF Restore, Goto, vars, fileVars
<1>4. CASE FoundAlive
  <2>1. CASE pc' = "backing" /\ inn = "whole" /\ upgrade = "none"
    BY <1>4, <2>1 DEF FoundAlive
  <2>2. CASE pc' = "check" /\ bk' = bk
    BY <1>4, <2>2 DEF FoundAlive
  <2> QED
    BY <1>1, <1>4, <2>1, <2>2 DEF FoundAlive, Goto, vars, fileVars
<1>5. CASE Restored \/ BackedUp
  BY <1>5 DEF Restored, BackedUp, Goto
<1>6. CASE Wake \/ ReadPid \/ TestLock \/ CloseLock \/ Launch \/ NotDue \/ Answers \/ NoAnswer \/ Kill
  <2>1. UNCHANGED <<inn, bk, upgrade>> /\ pc' \notin {"restoring", "backing"}
    BY <1>6 DEF Wake, ReadPid, TestLock, CloseLock, Launch, NotDue, Answers, NoAnswer, Kill, Goto, fileVars
  <2> QED
    BY <2>1
<1>7. CASE UpgradeSaves
  <2>1. CASE inn = "whole" /\ pc \notin {"restoring", "backing"}
    BY <1>7, <2>1 DEF UpgradeSaves
  <2> QED
    BY <1>1, <1>7, <2>1 DEF vars, fileVars
<1>8. CASE UpgradeCopies \/ UpgradeCopied \/ UpgradeFails
  BY <1>8 DEF UpgradeCopies, UpgradeCopied, UpgradeFails, fileVars
<1>9. CASE UpgradeReboots \/ PowerCut
  BY <1>9 DEF UpgradeReboots, PowerCut, Rebooted, fileVars
<1>10. CASE UNCHANGED vars
  BY <1>1, <1>10 DEF vars, fileVars
<1> QED
  BY <1>2, <1>3, <1>4, <1>5, <1>6, <1>7, <1>8, <1>9, <1>10 DEF Next, Calm, Supervisor, Upgrade

\* If every copy starts from a whole file and no two overlap, then whatever hangs and
\* crashes and whenever the power goes, in the middle of a copy too, one file is whole.
\* start_innerproc and upgrade see to neither: they check no source and share no lock
\* (start_innerproc.c:213 and 235, upgrade.c:63).
THEOREM SafeCopiesSuffice == Init /\ [][Next]_vars /\ CopiesAreSafe => []OneIsWhole
<1>1. Init => CopyInv
  BY DEF Init, CopyInv, OneIsWhole
<1>2. CopyInv => OneIsWhole
  BY DEF CopyInv
<1> QED
  BY <1>1, <1>2, CopyStep, PTL DEF CopiesAreSafe

=============================================================================
