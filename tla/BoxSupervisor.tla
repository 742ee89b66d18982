--------------------------- MODULE BoxSupervisor ---------------------------
(***************************************************************************)
(* start_innerproc keeps innerproc, the program of the legacy box, running *)
(* and its file usable.  An instance of innerproc waits for an address,    *)
(* empties the pid file, locks it, writes its pid and serves.  The         *)
(* supervisor reads the pid and tests the lock: it launches an instance    *)
(* when the lock is free, puts the backup in the place of the program when *)
(* launching has not helped for long, kills what does not answer, and      *)
(* makes the backup anew once something has answered.  upgrade replaces    *)
(* the program while both go on.                                           *)
(*                                                                         *)
(* A file of a program that is being executed cannot be opened for writing *)
(* by cp (ETXTBSY); cp -f replaces it by a new file instead.  A file whose *)
(* copy was cut short is torn and cannot be executed.                      *)
(***************************************************************************)
EXTENDS Naturals, FiniteSets

CONSTANTS
  Pid,       \* pids of innerproc: how many instances there are at a time
  NoPid,     \* what atoi() makes of an empty pid file
  FalseLimit \* 10, of falsecount > 10

ASSUME SupervisorAssumption == NoPid \notin Pid /\ FalseLimit \in Nat

VARIABLES
  inn, bk,   \* the files INN_PATH and BK_INN_PATH
  pidfile,   \* the pid in PID_PATH, NoPid when it is empty
  proc,      \* what the instance with a pid is doing
  pc,        \* where dameon_alive() is
  pid,       \* what is_running() read, and then its result
  falsecount, bkflag, bksuc,
  upgrade    \* where upgrade is

fileVars == <<inn, bk>>
memVars  == <<falsecount, bkflag, bksuc>>
vars     == <<fileVars, pidfile, proc, pc, pid, memVars, upgrade>>

Content  == {"whole", "torn"}
Locked   == {"locked", "starting", "serving", "hung"}
States   == {"none", "waiting", "opened"} \cup Locked
Loop     == {"sleep", "restore", "restoring", "read", "test", "testing",
             "launch", "alive", "backing", "check", "kill"}
Upgrades == {"none", "saving", "copying", "verify"}

Running(p) == proc[p] # "none"
Holder     == {p \in Pid : proc[p] \in Locked}

\* Nobody else has the lock: fcntl(F_SETLK) succeeds.
LockIsFree == Holder = {} /\ pc # "testing"

Init ==
  /\ inn = "whole"
  /\ bk \in Content
  /\ pidfile \in Pid \cup {NoPid}
  /\ proc = [p \in Pid |-> "none"]
  /\ pc = "sleep"
  /\ pid = NoPid
  /\ falsecount = 0
  /\ bkflag = FALSE
  /\ bksuc = FALSE
  /\ upgrade = "none"

-----------------------------------------------------------------------------
(* An instance of innerproc.                                               *)

Becomes(p, s) == proc' = [proc EXCEPT ![p] = s]

\* Mutant: the pid is written before the file is locked.
OpenAndWrite(p) ==
  /\ proc[p] = "waiting"
  /\ Becomes(p, "opened")
  /\ pidfile' = p
  /\ UNCHANGED <<fileVars, pc, pid, memVars, upgrade>>

\* get_local_ip() has an address, or gives up; write_pid_file() opens the file.
OpenPidFile(p) ==
  /\ proc[p] = "waiting"
  /\ Becomes(p, "opened")
  /\ pidfile' = NoPid
  /\ UNCHANGED <<fileVars, pc, pid, memVars, upgrade>>

LockPidFile(p) ==
  /\ proc[p] = "opened"
  /\ LockIsFree
  /\ Becomes(p, "locked")
  /\ UNCHANGED <<fileVars, pidfile, pc, pid, memVars, upgrade>>

LockFails(p) ==
  /\ proc[p] = "opened"
  /\ ~LockIsFree
  /\ Becomes(p, "none")
  /\ UNCHANGED <<fileVars, pidfile, pc, pid, memVars, upgrade>>

WritePid(p) ==
  /\ proc[p] = "locked"
  /\ Becomes(p, "starting")
  /\ pidfile' = p
  /\ UNCHANGED <<fileVars, pc, pid, memVars, upgrade>>

\* The rest of main(), up to server_run().
ServerRun(p) ==
  /\ proc[p] = "starting"
  /\ Becomes(p, "serving")
  /\ UNCHANGED <<fileVars, pidfile, pc, pid, memVars, upgrade>>

\* A handler of the one thread that serves blocks, for a while or for good.
Hang(p) ==
  /\ proc[p] = "serving"
  /\ Becomes(p, "hung")
  /\ UNCHANGED <<fileVars, pidfile, pc, pid, memVars, upgrade>>

Recover(p) ==
  /\ proc[p] = "hung"
  /\ Becomes(p, "serving")
  /\ UNCHANGED <<fileVars, pidfile, pc, pid, memVars, upgrade>>

Crash(p) ==
  /\ Running(p)
  /\ Becomes(p, "none")
  /\ UNCHANGED <<fileVars, pidfile, pc, pid, memVars, upgrade>>

Instance(p) ==
  \/ OpenPidFile(p) \/ LockPidFile(p) \/ LockFails(p)
  \/ WritePid(p) \/ ServerRun(p)

-----------------------------------------------------------------------------
(* The supervisor: one round of dameon_alive().                            *)

Goto(l) == pc' = l

\* Mutant: the backup is never put back.
WakeAndRead ==
  /\ pc = "sleep"
  /\ Goto("read")
  /\ UNCHANGED <<fileVars, pidfile, proc, pid, memVars, upgrade>>

Wake ==
  /\ pc = "sleep"
  /\ Goto(IF falsecount > FalseLimit THEN "restore" ELSE "read")
  /\ UNCHANGED <<fileVars, pidfile, proc, pid, memVars, upgrade>>

\* cp BK_INN_PATH INN_PATH.
Restore ==
  /\ pc = "restore"
  /\ IF \E p \in Pid : Running(p)
     THEN Goto("read") /\ UNCHANGED inn
     ELSE Goto("restoring") /\ inn' = "torn"
  /\ UNCHANGED <<bk, pidfile, proc, pid, memVars, upgrade>>

Restored ==
  /\ pc = "restoring"
  /\ inn' = bk
  /\ Goto("read")
  /\ UNCHANGED <<bk, pidfile, proc, pid, memVars, upgrade>>

\* is_running(): the pid first, then the lock.
ReadPid ==
  /\ pc = "read"
  /\ pid' = pidfile
  /\ Goto("test")
  /\ UNCHANGED <<fileVars, pidfile, proc, memVars, upgrade>>

TestLock ==
  /\ pc = "test"
  /\ Goto(IF Holder = {} THEN "testing" ELSE "alive")
  /\ UNCHANGED <<fileVars, pidfile, proc, pid, memVars, upgrade>>

CloseLock ==
  /\ pc = "testing"
  /\ Goto("launch")
  /\ UNCHANGED <<fileVars, pidfile, proc, pid, memVars, upgrade>>

\* pids are given out in turn: the one in the pid file is not met again.
Unused(p) == ~Running(p) /\ p \notin {pidfile, pid}

\* chmod, innerproc &.  The code counts on: values of falsecount beyond FalseLimit
\* are one value here, as no test tells them apart.
Launch ==
  /\ pc = "launch"
  /\ IF inn = "whole" /\ \E p \in Pid : Unused(p)
     THEN \E p \in Pid : Unused(p) /\ Becomes(p, "waiting")
     ELSE UNCHANGED proc
  /\ falsecount' = IF falsecount > FalseLimit THEN falsecount ELSE falsecount + 1
  /\ Goto("sleep")
  /\ UNCHANGED <<fileVars, pidfile, pid, bkflag, bksuc, upgrade>>

\* Mutant: an instance that has the lock does not end the count.
FoundAliveCounting ==
  /\ pc = "alive"
  /\ IF bkflag /\ ~bksuc
     THEN Goto("backing") /\ bk' = "torn"
     ELSE Goto("check") /\ UNCHANGED bk
  /\ UNCHANGED <<inn, pidfile, proc, pid, memVars, upgrade>>

\* cp -f INN_PATH BK_INN_PATH, once, after an instance has answered.
FoundAlive ==
  /\ pc = "alive"
  /\ falsecount' = 0
  /\ IF bkflag /\ ~bksuc
     THEN Goto("backing") /\ bk' = "torn"
     ELSE Goto("check") /\ UNCHANGED bk
  /\ UNCHANGED <<inn, pidfile, proc, pid, bkflag, bksuc, upgrade>>

BackedUp ==
  /\ pc = "backing"
  /\ bk' = inn
  /\ bksuc' = TRUE
  /\ Goto("check")
  /\ UNCHANGED <<inn, pidfile, proc, pid, falsecount, bkflag, upgrade>>

\* now % 10 # 0.
NotDue ==
  /\ pc = "check"
  /\ Goto("sleep")
  /\ UNCHANGED <<fileVars, pidfile, proc, pid, memVars, upgrade>>

\* send_cmd_to_local(): somebody serves on the port, or nobody answers.
Answers ==
  /\ pc = "check"
  /\ \E p \in Pid : proc[p] = "serving"
  /\ bkflag' = TRUE
  /\ Goto("sleep")
  /\ UNCHANGED <<fileVars, pidfile, proc, pid, falsecount, bksuc, upgrade>>

NoAnswer ==
  /\ pc = "check"
  /\ \A p \in Pid : proc[p] # "serving"
  /\ Goto("kill")
  /\ UNCHANGED <<fileVars, pidfile, proc, pid, memVars, upgrade>>

\* Mutant: only a program that has answered before is killed.
KillIfKnown ==
  /\ pc = "kill"
  /\ IF pid # NoPid /\ bkflag THEN Becomes(pid, "none") ELSE UNCHANGED proc
  /\ bkflag' = FALSE
  /\ Goto("sleep")
  /\ UNCHANGED <<fileVars, pidfile, pid, falsecount, bksuc, upgrade>>

Kill ==
  /\ pc = "kill"
  /\ IF pid # NoPid THEN Becomes(pid, "none") ELSE UNCHANGED proc
  /\ bkflag' = FALSE
  /\ Goto("sleep")
  /\ UNCHANGED <<fileVars, pidfile, pid, falsecount, bksuc, upgrade>>

Supervisor ==
  \/ Wake \/ Restore \/ Restored \/ ReadPid \/ TestLock \/ CloseLock \/ Launch
  \/ FoundAlive \/ BackedUp \/ NotDue \/ Answers \/ NoAnswer \/ Kill

-----------------------------------------------------------------------------
(* upgrade, which a softupdate_innerbox request starts.                    *)

\* cp -f INN_PATH BK_INN_PATH.
UpgradeSaves ==
  /\ upgrade = "none"
  /\ \E p \in Pid : proc[p] = "serving"
  /\ upgrade' = "saving"
  /\ bk' = "torn"
  /\ UNCHANGED <<inn, pidfile, proc, pc, pid, memVars>>

\* docopy.sh, of the package, puts a new file in place ...
UpgradeCopies ==
  /\ upgrade = "saving"
  /\ upgrade' = "copying"
  /\ bk' = inn
  /\ inn' = "torn"
  /\ UNCHANGED <<pidfile, proc, pc, pid, memVars>>

\* ... and fills it, or fails.
UpgradeCopied ==
  /\ upgrade = "copying"
  /\ upgrade' = "verify"
  /\ inn' \in {inn, "whole"}
  /\ UNCHANGED <<bk, pidfile, proc, pc, pid, memVars>>

\* What a restart of the box leaves.
Rebooted ==
  /\ proc' = [p \in Pid |-> "none"]
  /\ pc' = "sleep"
  /\ pid' = NoPid
  /\ falsecount' = 0
  /\ bkflag' = FALSE
  /\ bksuc' = FALSE
  /\ upgrade' = "none"
  /\ UNCHANGED <<fileVars, pidfile>>

\* All checksums agree: reboot.
UpgradeReboots ==
  /\ upgrade = "verify"
  /\ inn = "whole"
  /\ Rebooted

\* md5sum.txt is missing or names a file that is, or the sums of the program or of
\* another file of the package do not agree for 31 tries: what is restored then, if
\* anything, is not INN_PATH.
UpgradeFails ==
  /\ upgrade = "verify"
  /\ upgrade' = "none"
  /\ UNCHANGED <<fileVars, pidfile, proc, pc, pid, memVars>>

Upgrade == UpgradeCopies \/ UpgradeCopied \/ UpgradeReboots \/ UpgradeFails

PowerCut == Rebooted

-----------------------------------------------------------------------------
\* Everything but crashes and power cuts.
Calm ==
  \/ \E p \in Pid : Instance(p) \/ Hang(p) \/ Recover(p)
  \/ Supervisor
  \/ UpgradeSaves
  \/ Upgrade

Next == Calm \/ (\E p \in Pid : Crash(p)) \/ PowerCut

(* The supervisor, upgrade and every instance go on until they block.  A   *)
(* check falls due again and again, and the lock test, which takes moments *)
(* of each second, does not meet every attempt to lock.                    *)
Fairness ==
  /\ WF_vars(Supervisor)
  /\ SF_vars(Answers \/ NoAnswer)
  /\ WF_vars(Upgrade)
  /\ \A p \in Pid : WF_vars(Instance(p))
  /\ SF_vars(pc # "testing" /\ \E p \in Pid : OpenPidFile(p))
  /\ SF_vars(\E p \in Pid : LockPidFile(p))

Spec == Init /\ [][Next]_vars /\ Fairness

-----------------------------------------------------------------------------
\* Types and ranges of all variables; launches in vain are counted from the last time
\* an instance had the lock, and the backup is only put back beyond their limit
\* (dameon_alive).
TypeOK ==
  /\ inn \in Content /\ bk \in Content
  /\ pidfile \in Pid \cup {NoPid}
  /\ proc \in [Pid -> States]
  /\ pc \in Loop
  /\ pid \in Pid \cup {NoPid}
  /\ falsecount \in 0 .. FalseLimit + 1
  /\ pc \in {"restore", "restoring"} => falsecount > FalseLimit
  /\ pc \in {"backing", "check", "kill"} => falsecount = 0
  /\ bkflag \in BOOLEAN /\ bksuc \in BOOLEAN
  /\ upgrade \in Upgrades

\* What the supervisor is about to kill is gone or has the lock: a waiting
\* instance, or one launched meanwhile, is never hit (is_running reads the pid
\* and tests the lock in two steps, and any instance may empty the file).
KillsTheHolder == pc = "kill" /\ pid # NoPid /\ Running(pid) => pid \in Holder

\* An instance that hangs while the pid file names it does not stay: it is
\* killed, or answers again, or its pid is wiped out by an instance launched
\* before it had the lock.
HungIsKilled ==
  \A p \in Pid : (proc[p] = "hung" /\ pidfile = p) ~> (proc[p] # "hung" \/ pidfile # p)

\* Once nothing crashes any more, an instance has the lock again and again,
\* unless both files are torn: a program that cannot be executed is replaced by
\* its backup, and lock tests and emptied pid files do not stop all instances.
RestartedAgain ==
  <>[][Calm]_vars => []<>(Holder # {} \/ (inn = "torn" /\ bk = "torn"))

\* The comment over main() of upgrade.c says that upgrade makes sure the upgrade
\* is reliable: there is always a program to execute, or a backup of one.
OneIsWhole == inn = "whole" \/ bk = "whole"

=============================================================================
