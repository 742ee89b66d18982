------------------------ MODULE BoxControllerProofs ------------------------
(***************************************************************************)
(* Proofs about BoxController, for any check interval longer than a timer  *)
(* step and any addresses: what the box reports of its servers is true,    *)
(* and an address that was set is on disk between two saves.               *)
(***************************************************************************)
EXTENDS BoxController, TLAPS

-----------------------------------------------------------------------------
(* Types.                                                                  *)

SetUrls == Urls \cup {NoUrl}
Lines   == {<<>>} \cup {<<u>> : u \in SetUrls}

\* The address a process starts with is one of those it may have.
LEMMA LoadUrlType ==
  ASSUME NEW lines \in Lines
  PROVE  LoadUrl(lines) \in Url
<1>1. CASE lines = <<>>
  BY <1>1 DEF LoadUrl, Url
<1>2. ASSUME NEW u \in SetUrls, lines = <<u>>
      PROVE  LoadUrl(lines) \in Url
  BY <1>2 DEF LoadUrl, Url, SetUrls
<1> QED
  BY <1>1, <1>2 DEF Lines

LEMMA StartType ==
  ASSUME TypeOK, Started(file), UNCHANGED <<file, up>>
  PROVE  TypeOK'
<1>1. cfg_url' \in Url
  BY LoadUrlType DEF Started, TypeOK, Lines, SetUrls
<1>2. Timer \in 0 .. Timer /\ Interval + 1 \in 0 .. Interval + 1 /\ Window \in 0 .. Window /\ 0 \in 0 .. Window
  BY ControllerAssumption DEF Window
<1>3. /\ net' \in [Servers -> 0 .. Window]
      /\ steady' \in [Servers -> 0 .. Window]
  BY <1>2 DEF Started
<1> QED
  BY <1>1, <1>2, <1>3 DEF TypeOK, Started
LEMMA AfterType ==
  ASSUME TypeOK, NEW k \in Kinds, NEW made, After(k, made)
  PROVE  main' \in {"idle"} \cup Kinds /\ due' \in 0 .. Timer
<1>1. Timer \in 0 .. Timer
  BY ControllerAssumption
<1> QED
  BY <1>1 DEF After, EndTimedTask, TypeOK, Kinds, Checks

\* The clock stays within what the code compares.
LEMMA LaterType ==
  ASSUME NEW most \in Nat, NEW t \in 0 .. most
  PROVE  /\ Later(t, most) \in 0 .. most
         /\ Later(t, most) <= t + 1
         /\ t < most => Later(t, most) = t + 1
BY DEF Later

LEMMA TypeStep ==
  ASSUME TypeOK, [Next]_vars
  PROVE  TypeOK'
<1> USE ControllerAssumption
<1>0. Window \in Nat /\ Interval + 1 \in Nat /\ 0 \in 0 .. Window /\ 0 \in 0 .. Interval + 1
  BY DEF Window
<1>1. CASE WorkTimedTask
  BY <1>1 DEF TypeOK, WorkTimedTask, memVars, timeVars, Kinds
<1>2. ASSUME NEW k \in Kinds, SkipRequest(k)  PROVE TypeOK'
  BY <1>2, AfterType DEF TypeOK, SkipRequest, memVars
<1>3. ASSUME NEW k \in Kinds, OpenRequest(k)  PROVE TypeOK'
  BY <1>0, <1>3 DEF TypeOK, OpenRequest, memVars, Kinds, Checks
<1>4. ASSUME NEW k \in Kinds, NameRequest(k)  PROVE TypeOK'
  BY <1>4, AfterType DEF TypeOK, NameRequest, memVars
<1>5. CASE PollUnnamed \/ Restart
  BY <1>5, StartType DEF PollUnnamed, Restart
<1>6. ASSUME NEW k \in Kinds, CheckAnswered(k)  PROVE TypeOK'
  <2>1. [net EXCEPT ![Server(k)] = 0] \in [Servers -> 0 .. Window]
    BY <1>0 DEF TypeOK
  <2> QED
    BY <1>6, <2>1 DEF TypeOK, CheckAnswered, Answered
<1>7. ASSUME NEW k \in Kinds, RequestFails(k)  PROVE TypeOK'
  BY <1>7 DEF TypeOK, RequestFails, memVars, timeVars
<1>8. CASE InitDataUseless \/ InitDataNoOuterBox
  <2>1. inited' \in BOOLEAN /\ flight' \in SUBSET Kinds
    BY <1>8 DEF TypeOK, InitDataUseless, InitDataNoOuterBox, Answered
  <2>2. UNCHANGED <<cfg_url, set_url, outerbox, file, main, unnamed, http, due, check, net, up, steady>>
    BY <1>8 DEF InitDataUseless, InitDataNoOuterBox, Answered
  <2> QED
    BY <2>1, <2>2 DEF TypeOK
<1>9. CASE InitData
  <2>1. (IF outerbox THEN steady ELSE [steady EXCEPT !["outbox"] = 0]) \in [Servers -> 0 .. Window]
    BY <1>0 DEF TypeOK
  <2> QED
    BY <1>9, <2>1 DEF TypeOK, InitData, Answered
<1>10. CASE SaveUserSettings
  BY <1>10 DEF TypeOK, SaveUserSettings, timeVars
<1>11. CASE ParamInitData
  BY <1>11 DEF TypeOK, ParamInitData, timeVars
<1>12. ASSUME NEW u \in Urls, ParamServer(u)  PROVE TypeOK'
  BY <1>12 DEF TypeOK, ParamServer, timeVars
<1>13. CASE Tick
  <2>1. due' \in 0 .. Timer
    BY <1>13 DEF TypeOK, Tick, Quiet
  <2>2. check' \in 0 .. Interval + 1
    BY <1>0, <1>13, LaterType DEF TypeOK, Tick
  <2>3. ASSUME NEW s \in Servers
        PROVE  Later(net[s], Window) \in 0 .. Window /\ Later(steady[s], Window) \in 0 .. Window
    BY <1>0, LaterType DEF TypeOK
  <2>4. net' \in [Servers -> 0 .. Window] /\ steady' \in [Servers -> 0 .. Window]
    BY <1>13, <2>3 DEF Tick
  <2> QED
    BY <1>13, <2>1, <2>2, <2>4 DEF TypeOK, Tick, memVars
<1>14. ASSUME NEW s \in Servers, ServerChanges(s)  PROVE TypeOK'
  <2>1. [steady EXCEPT ![s] = 0] \in [Servers -> 0 .. Window]
    BY <1>0 DEF TypeOK
  <2> QED
    BY <1>14, <2>1 DEF TypeOK, ServerChanges, memVars
<1>15. CASE UNCHANGED vars
  BY <1>15 DEF TypeOK, vars, memVars, timeVars
<1> QED
  BY <1>1, <1>2, <1>3, <1>4, <1>5, <1>6, <1>7, <1>8, <1>9, <1>10, <1>11, <1>12, <1>13, <1>14, <1>15
     DEF Next, MainThread, HttpThread, EndRequest

LEMMA TypeInit == Init => TypeOK
<1>1. 0 \in 0 .. Window /\ Window \in 0 .. Window /\ Timer \in 0 .. Timer /\ Interval + 1 \in 0 .. Interval + 1
  BY ControllerAssumption DEF Window
<1> QED
  BY <1>1 DEF Init, TypeOK, Url

-----------------------------------------------------------------------------
(* The file.                                                               *)

LEMMA AddressStep ==
  ASSUME TypeOK, AddressKept, [Next]_vars
  PROVE  AddressKept'
<1>1. CASE MainThread
  BY <1>1 DEF MainThread, WorkTimedTask, SkipRequest, OpenRequest, NameRequest, AddressKept, memVars
<1>2. CASE PollUnnamed \/ Restart
  BY <1>2 DEF PollUnnamed, Restart, Started, AddressKept
<1>3. ASSUME NEW k \in Kinds, EndRequest(k)  PROVE AddressKept'
  BY <1>3 DEF EndRequest, CheckAnswered, Answered, RequestFails, AddressKept, memVars
<1>4. CASE InitDataUseless \/ InitDataNoOuterBox \/ InitData
  BY <1>4 DEF InitDataUseless, InitDataNoOuterBox, InitData, Answered, AddressKept
<1>5. CASE SaveUserSettings
  BY <1>5 DEF SaveUserSettings, AddressKept
<1>6. CASE ParamInitData
  BY <1>6 DEF ParamInitData, AddressKept
<1>7. ASSUME NEW u \in Urls, ParamServer(u)  PROVE AddressKept'
  BY <1>7 DEF ParamServer, AddressKept
<1>8. CASE Tick \/ \E s \in Servers : ServerChanges(s)
  BY <1>8 DEF Tick, ServerChanges, AddressKept, memVars
<1>9. CASE UNCHANGED vars
  BY <1>9 DEF AddressKept, vars, memVars
<1> QED
  BY <1>1, <1>2, <1>3, <1>4, <1>5, <1>6, <1>7, <1>8, <1>9 DEF Next, HttpThread

\* Every reachable state of the controller is well typed.
THEOREM TypeCorrect == Spec => []TypeOK
BY TypeInit, TypeStep, PTL DEF Spec

\* saveUserSettings: whenever no save is under way, the address that was set in this
\* process is the one in settings.user, whatever answers and requests came since.
THEOREM AddressIsKept == Spec => []AddressKept
<1>1. Init => AddressKept
  BY DEF Init, AddressKept
<1> QED
  BY TypeCorrect, AddressStep, <1>1, PTL DEF Spec

-----------------------------------------------------------------------------
(* How the box loses the address of its server.                            *)

\* The data of the server arrive only in a process to which an address was set.
DataAfterAddress == [][InitData => set_url # NoUrl]_vars

\* Neither the process, nor the file, nor what is being written is without an address.
AddressInv ==
  /\ cfg_url # NoUrl
  /\ file # <<NoUrl>>
  /\ http # "poll" => set_url # NoUrl

\* A process started with a file that holds an address, or no line, has one.
LEMMA StartAddress ==
  ASSUME TypeOK, AddressInv, Started(file), file' = file
  PROVE  AddressInv'
<1>1. cfg_url' # NoUrl
  <2>1. CASE file = <<>>
    BY <2>1, ControllerAssumption DEF Started, LoadUrl
  <2>2. ASSUME NEW u \in SetUrls, file = <<u>>  PROVE cfg_url' # NoUrl
    BY <2>2 DEF Started, LoadUrl, AddressInv
  <2> QED
    BY <2>1, <2>2 DEF TypeOK, SetUrls
<1> QED
  BY <1>1 DEF Started, AddressInv

LEMMA AddressInvStep ==
  ASSUME TypeOK, AddressInv, [Next]_vars, [InitData => set_url # NoUrl]_vars
  PROVE  AddressInv'
<1> USE DEF AddressInv
<1>1. CASE UNCHANGED <<cfg_url, set_url, file, http>>
  BY <1>1
<1>2. CASE PollUnnamed \/ Restart
  BY <1>2, StartAddress DEF PollUnnamed, Restart
<1>3. CASE InitData /\ set_url # NoUrl
  BY <1>3 DEF InitData, Answered
<1>4. CASE SaveUserSettings
  BY <1>4 DEF SaveUserSettings
<1>5. ASSUME NEW u \in Urls, ParamServer(u)  PROVE AddressInv'
  BY <1>5, ControllerAssumption DEF ParamServer
<1>6. CASE MainThread
  BY <1>1, <1>6 DEF MainThread, WorkTimedTask, SkipRequest, OpenRequest, NameRequest, memVars
<1>7. ASSUME NEW k \in Kinds, EndRequest(k)  PROVE AddressInv'
  BY <1>7 DEF EndRequest, CheckAnswered, Answered, RequestFails, memVars
<1>8. CASE InitDataUseless \/ InitDataNoOuterBox \/ ParamInitData
  BY <1>8 DEF InitDataUseless, InitDataNoOuterBox, ParamInitData, Answered
<1>9. CASE Tick \/ \E s \in Servers : ServerChanges(s)
  BY <1>9 DEF Tick, ServerChanges, memVars
<1>10. CASE UNCHANGED vars
  BY <1>1, <1>10 DEF vars, memVars
<1> QED
  BY <1>2, <1>3, <1>4, <1>5, <1>6, <1>7, <1>8, <1>9, <1>10 DEF Next, HttpThread

\* The one thing that costs the box the address of its server is an answer with the data
\* in a process to which no address was set: saveUserSettings writes settings_, which
\* nothing has loaded (InnerController.cpp:200).  Without it, no request, no crash in
\* the middle of a save and no restart does.
THEOREM AddressLost == Init /\ [][Next]_vars /\ DataAfterAddress => []ServerKnown
<1>1. Init => AddressInv
  BY ControllerAssumption DEF Init, AddressInv
<1>2. TypeOK /\ AddressInv /\ [Next]_vars /\ [InitData => set_url # NoUrl]_vars
      => TypeOK' /\ AddressInv'
  BY TypeStep, AddressInvStep
<1>3. AddressInv => ServerKnown
  BY DEF AddressInv, ServerKnown
<1> QED
  BY TypeInit, <1>1, <1>2, <1>3, PTL DEF DataAfterAddress

-----------------------------------------------------------------------------
(* What the box reports of its servers.                                    *)

\* For how long, at most, no check was made although the timer ran: while the timer
\* task runs, or more than an interval passed, the timer says how long.
Elapsed == IF check <= Interval THEN check ELSE Interval + Timer - due

\* A check of server s is under way, or the timer task is just making it.
Pending(s) ==
  \/ \E k \in flight \cap Checks : Server(k) = s
  \/ main = "check_propserver" /\ unnamed
  \/ main = "check_outbox" /\ s = "outbox"

\* In the middle of the timer task the timer has expired, and the outer box is
\* checked only together with the property server.
TaskInv ==
  /\ main # "idle" => due = 0
  /\ (main = "check_propserver" /\ unnamed) \/ main = "check_outbox" => check = 0

\* A server that is down has not been heard since it went down.
DownInv(s) == ~up[s] => net[s] >= steady[s]

\* A server that is known and up was heard when it was last checked, or has not been
\* so for long enough, or its answer is on the way.
UpInv(s) ==
  up[s] /\ Known(s) =>
    \/ net[s] <= Elapsed \/ steady[s] <= Elapsed
    \/ Pending(s) /\ (net[s] <= Interval + Timer \/ steady[s] <= Interval + Timer)

StatusInv == TaskInv /\ \A s \in Servers : DownInv(s) /\ UpInv(s)

\* The bound never exceeds an interval and a timer step.
LEMMA ElapsedBound ==
  ASSUME TypeOK
  PROVE  Elapsed \in Nat /\ Elapsed <= Interval + Timer
BY ControllerAssumption DEF TypeOK, Elapsed

LEMMA StatusIsInvariant ==
  ASSUME TypeOK, StatusInv
  PROVE  StatusIsTrue
<1> SUFFICES ASSUME NEW s \in Servers
             PROVE  /\ ~up[s] /\ steady[s] >= Window => ~Online(s)
                    /\ up[s] /\ Known(s) /\ steady[s] > Interval + Timer => Online(s)
  BY DEF StatusIsTrue
<1>1. net[s] \in Nat /\ steady[s] \in Nat /\ Interval \in Nat /\ Timer \in Nat /\ Timer < Interval
  BY ControllerAssumption DEF TypeOK, Window
<1>2. Elapsed \in Nat /\ Elapsed <= Interval + Timer
  BY ElapsedBound
<1> QED
  BY <1>1, <1>2 DEF StatusInv, DownInv, UpInv, Online, Window

\* A step that leaves the times, the servers and what is known of them alone, and
\* takes no check away, keeps what is said of a server.
LEMMA SameTimes ==
  ASSUME TypeOK, NEW s \in Servers, DownInv(s), UpInv(s),
         UNCHANGED <<net, up, steady>>, Elapsed' = Elapsed, Known(s)' = Known(s), Pending(s) => Pending(s)'
  PROVE  DownInv(s)' /\ UpInv(s)'
BY DEF DownInv, UpInv

\* A new process knows nothing and has heard nobody.
LEMMA StartStatus ==
  ASSUME TypeOK, Started(file), UNCHANGED <<file, up>>
  PROVE  StatusInv'
<1>1. Elapsed' = Interval
  BY ControllerAssumption DEF Started, Elapsed
<1>2. TaskInv'
  BY DEF Started, TaskInv
<1>3. ASSUME NEW s \in Servers
      PROVE  DownInv(s)' /\ UpInv(s)'
  <2>1. net'[s] = Window /\ steady'[s] = 0
    BY DEF Started
  <2> QED
    BY <1>1, <2>1, ControllerAssumption DEF DownInv, UpInv, Window
<1> QED
  BY <1>2, <1>3 DEF StatusInv

LEMMA MainStatus ==
  ASSUME TypeOK, StatusInv, MainThread
  PROVE  StatusInv'
<1> USE ControllerAssumption
<1>1. CASE WorkTimedTask
  <2>1. UNCHANGED <<check, due, net, up, steady, flight, unnamed, outerbox, cfg_url>>
    BY <1>1 DEF WorkTimedTask, memVars, timeVars
  <2>2. TaskInv'
    BY <1>1, <2>1 DEF WorkTimedTask, TaskInv
  <2>3. ASSUME NEW s \in Servers  PROVE DownInv(s)' /\ UpInv(s)'
    <3>1. Elapsed' = Elapsed /\ Known(s)' = Known(s)
      BY <2>1 DEF Elapsed, Known
    <3>2. Pending(s) => Pending(s)'
      BY <1>1, <2>1 DEF WorkTimedTask, Pending
    <3> QED
      BY <2>1, <3>1, <3>2, SameTimes DEF StatusInv
  <2> QED
    BY <2>2, <2>3 DEF StatusInv
<1>2. ASSUME NEW k \in Kinds, SkipRequest(k)  PROVE StatusInv'
  <2>1. UNCHANGED <<check, net, up, steady, flight, unnamed, outerbox, cfg_url>> /\ main = k /\ ~unnamed
    BY <1>2 DEF SkipRequest, memVars
  <2>2. \/ k = "initdata" /\ main' = "check_propserver" /\ due' = due
        \/ k # "initdata" /\ main' = "idle" /\ due' = Timer /\ check <= Interval
    <3>1. k = "check_outbox" => check = 0
      BY <2>1 DEF StatusInv, TaskInv
    <3>2. k = "check_propserver" => check <= Interval
      BY <1>2 DEF SkipRequest, Wanted, TypeOK
    <3> QED
      BY <1>2, <3>1, <3>2 DEF SkipRequest, After, EndTimedTask, Kinds, Checks
  <2>3. TaskInv'
    BY <2>1, <2>2 DEF StatusInv, TaskInv
  <2>4. ASSUME NEW s \in Servers  PROVE DownInv(s)' /\ UpInv(s)'
    <3>1. Elapsed' = Elapsed /\ Known(s)' = Known(s)
      BY <2>1, <2>2 DEF Elapsed, Known
    <3>2. CASE main = "check_outbox" /\ s = "outbox"
      <4>1. ~Known(s)
        BY <1>2, <2>1, <3>2 DEF SkipRequest, Wanted, Known
      <4> QED
        BY <2>1, <3>1, <4>1 DEF StatusInv, DownInv, UpInv
    <3>3. CASE ~(main = "check_outbox" /\ s = "outbox")
      <4>1. Pending(s) => Pending(s)'
        BY <2>1, <3>3 DEF Pending
      <4> QED
        BY <2>1, <3>1, <4>1, SameTimes DEF StatusInv
    <3> QED
      BY <3>2, <3>3
  <2> QED
    BY <2>3, <2>4 DEF StatusInv
<1>3. ASSUME NEW k \in Kinds, OpenRequest(k)  PROVE StatusInv'
  <2>1. UNCHANGED <<net, up, steady, flight, outerbox, cfg_url, main, due>> /\ main = k /\ unnamed' = TRUE
    BY <1>3 DEF OpenRequest, memVars
  <2>2. check' = IF k = "check_propserver" THEN 0 ELSE check
    BY <1>3 DEF OpenRequest
  <2>3. TaskInv'
    BY <2>1, <2>2 DEF StatusInv, TaskInv
  <2>4. ASSUME NEW s \in Servers  PROVE DownInv(s)' /\ UpInv(s)'
    <3>1. Known(s)' = Known(s)
      BY <2>1 DEF Known
    <3>2. CASE k = "check_propserver"
      <4>1. Pending(s)'
        BY <2>1, <3>2 DEF Pending
      <4>2. Elapsed \in Nat /\ Elapsed <= Interval + Timer
        BY ElapsedBound
      <4>3. net[s] \in Nat /\ steady[s] \in Nat
        BY DEF TypeOK, Window
      <4> QED
        BY <2>1, <3>1, <4>1, <4>2, <4>3 DEF StatusInv, DownInv, UpInv
    <3>3. CASE k # "check_propserver"
      <4>1. Elapsed' = Elapsed
        BY <2>1, <2>2, <3>3 DEF Elapsed
      <4>2. Pending(s) => Pending(s)'
        BY <2>1 DEF Pending
      <4> QED
        BY <2>1, <3>1, <4>1, <4>2, SameTimes DEF StatusInv
    <3> QED
      BY <3>2, <3>3
  <2> QED
    BY <2>3, <2>4 DEF StatusInv
<1>4. ASSUME NEW k \in Kinds, NameRequest(k)  PROVE StatusInv'
  <2>1. UNCHANGED <<net, up, steady, outerbox, cfg_url, check>> /\ main = k /\ unnamed /\ ~unnamed' /\ flight' = flight \cup {k}
    BY <1>4 DEF NameRequest, memVars
  <2>2. \/ k = "initdata" /\ main' = "check_propserver" /\ due' = due
        \/ k = "check_propserver" /\ main' = "check_outbox" /\ due' = due /\ check = 0
        \/ k = "check_outbox" /\ main' = "idle" /\ due' = Timer /\ check = 0
    BY <1>4, <2>1 DEF NameRequest, After, EndTimedTask, Kinds, Checks, StatusInv, TaskInv
  <2>3. TaskInv'
    BY <2>1, <2>2 DEF StatusInv, TaskInv
  <2>4. ASSUME NEW s \in Servers  PROVE DownInv(s)' /\ UpInv(s)'
    <3>1. Elapsed' = Elapsed /\ Known(s)' = Known(s)
      BY <2>1, <2>2 DEF Elapsed, Known
    <3>2. Pending(s) => Pending(s)'
      BY <2>1, <2>2 DEF Pending, Checks, Server, Servers
    <3> QED
      BY <2>1, <3>1, <3>2, SameTimes DEF StatusInv
  <2> QED
    BY <2>3, <2>4 DEF StatusInv
<1> QED
  BY <1>1, <1>2, <1>3, <1>4 DEF MainThread

\* A step of the clock.
LEMMA TickStatus ==
  ASSUME TypeOK, StatusInv, Tick
  PROVE  StatusInv'
<1> USE ControllerAssumption
<1>1. main = "idle" /\ main' = main /\ due \in 1 .. Timer /\ due' = due - 1
  BY DEF Tick, Quiet, TypeOK
<1>2. check \in 0 .. Interval + 1 /\ check' = (IF check < Interval + 1 THEN check + 1 ELSE Interval + 1)
  BY DEF Tick, Later, TypeOK
<1>3. Elapsed' \in Nat /\ Elapsed' >= Elapsed + 1
  BY <1>1, <1>2 DEF Elapsed
<1>4. TaskInv'
  BY <1>1 DEF TaskInv
<1>5. ASSUME NEW s \in Servers  PROVE DownInv(s)' /\ UpInv(s)'
  <2>1. /\ net[s] \in 0 .. Window /\ steady[s] \in 0 .. Window /\ Window \in Nat
        /\ net'[s] = (IF net[s] < Window THEN net[s] + 1 ELSE Window)
        /\ steady'[s] = (IF steady[s] < Window THEN steady[s] + 1 ELSE Window)
    BY DEF Tick, TypeOK, Later, Window
  <2>2. up' = up /\ Known(s)' = Known(s)
    BY DEF Tick, Known, memVars
  <2>3. up[s] /\ Known(s) => ~Pending(s)
    BY <1>1 DEF Tick, Quiet, Pending, Answerable
  <2>4. Elapsed \in Nat
    BY ElapsedBound
  <2>5. DownInv(s)'
    BY <2>1, <2>2 DEF StatusInv, DownInv
  <2>6. UpInv(s)'
    <3>1. up[s] /\ Known(s) => net[s] <= Elapsed \/ steady[s] <= Elapsed
      BY <2>3 DEF StatusInv, UpInv
    <3>2. net[s] <= Elapsed => net'[s] <= Elapsed'
      BY <1>3, <2>1, <2>4
    <3>3. steady[s] <= Elapsed => steady'[s] <= Elapsed'
      BY <1>3, <2>1, <2>4
    <3> QED
      BY <2>2, <3>1, <3>2, <3>3 DEF UpInv
  <2> QED
    BY <2>5, <2>6
<1> QED
  BY <1>4, <1>5 DEF StatusInv

LEMMA StatusStep ==
  ASSUME TypeOK, StatusInv, [Next]_vars
  PROVE  StatusInv'
<1> USE ControllerAssumption
<1>0. 0 <= Elapsed
  BY ElapsedBound
<1>1. CASE UNCHANGED <<cfg_url, outerbox, main, unnamed, flight, timeVars>>
  BY <1>1 DEF StatusInv, TaskInv, DownInv, UpInv, Pending, Known, Elapsed, timeVars
<1>2. ASSUME UNCHANGED <<cfg_url, main, unnamed, due, check, up>>
      PROVE  TaskInv' /\ Elapsed' = Elapsed
  BY <1>2 DEF StatusInv, TaskInv, Elapsed
<1>3. ASSUME NEW k \in Kinds, CheckAnswered(k)  PROVE StatusInv'
  <2>1. UNCHANGED <<cfg_url, outerbox, main, unnamed, due, check, up, steady>> /\ up[Server(k)]
        /\ flight' = flight \ {k} /\ net' = [net EXCEPT ![Server(k)] = 0]
    BY <1>3 DEF CheckAnswered, Answered, Answerable
  <2>2. ASSUME NEW s \in Servers  PROVE DownInv(s)' /\ UpInv(s)'
    <3>1. CASE s = Server(k)
      <4>1. net'[s] = 0
        BY <2>1, <3>1 DEF TypeOK
      <4> QED
        BY <1>0, <1>2, <2>1, <3>1, <4>1 DEF DownInv, UpInv
    <3>2. CASE s # Server(k)
      <4>1. net'[s] = net[s]
        BY <2>1, <3>2 DEF TypeOK
      <4>2. Pending(s)' = Pending(s) /\ Known(s)' = Known(s)
        BY <2>1, <3>2 DEF Pending, Known
      <4> QED
        BY <1>2, <2>1, <4>1, <4>2 DEF StatusInv, DownInv, UpInv
    <3> QED
      BY <3>1, <3>2
  <2> QED
    BY <1>2, <2>1, <2>2 DEF StatusInv
<1>4. ASSUME NEW k \in Kinds, RequestFails(k)  PROVE StatusInv'
  <2>1. UNCHANGED <<cfg_url, outerbox, main, unnamed, due, check, up, steady, net>>
        /\ flight' = flight \ {k} /\ (k \in Checks => ~Answerable(k))
    BY <1>4 DEF RequestFails, memVars, timeVars
  <2>2. ASSUME NEW s \in Servers  PROVE DownInv(s)' /\ UpInv(s)'
    <3>1. Known(s)' = Known(s)
      BY <2>1 DEF Known
    <3>2. CASE k \in Checks /\ s = Server(k)
      BY <2>1, <3>1, <3>2 DEF StatusInv, DownInv, UpInv, Answerable
    <3>3. CASE ~(k \in Checks /\ s = Server(k))
      <4>1. Pending(s) => Pending(s)'
        BY <2>1, <3>3 DEF Pending
      <4> QED
        BY <1>2, <2>1, <3>1, <4>1, SameTimes DEF StatusInv
    <3> QED
      BY <3>2, <3>3
  <2> QED
    BY <1>2, <2>1, <2>2 DEF StatusInv
<1>5. CASE InitDataUseless \/ InitDataNoOuterBox \/ InitData
  <2>1. UNCHANGED <<cfg_url, main, unnamed, due, check, up, net>> /\ flight' = flight \ {"initdata"}
    BY <1>5 DEF InitDataUseless, InitDataNoOuterBox, InitData, Answered
  <2>2. \/ UNCHANGED <<outerbox, steady>>
        \/ outerbox' /\ steady' = (IF outerbox THEN steady ELSE [steady EXCEPT !["outbox"] = 0])
    BY <1>5 DEF InitDataUseless, InitDataNoOuterBox, InitData
  <2>3. ASSUME NEW s \in Servers  PROVE DownInv(s)' /\ UpInv(s)'
    <3>1. Pending(s) => Pending(s)'
      BY <2>1 DEF Pending, Checks
    <3>2. CASE steady'[s] = steady[s] /\ Known(s)' = Known(s)
      BY <1>2, <2>1, <3>1, <3>2 DEF StatusInv, DownInv, UpInv
    <3>3. CASE steady'[s] = 0
      BY <1>0, <1>2, <2>1, <3>3 DEF TypeOK, DownInv, UpInv
    <3>4. steady'[s] = 0 \/ (steady'[s] = steady[s] /\ Known(s)' = Known(s))
      BY <2>1, <2>2 DEF Known, TypeOK, Servers
    <3> QED
      BY <3>2, <3>3, <3>4
  <2> QED
    BY <1>2, <2>1, <2>3 DEF StatusInv
<1>6. ASSUME NEW s \in Servers, ServerChanges(s)  PROVE StatusInv'
  <2>1. UNCHANGED <<cfg_url, outerbox, main, unnamed, flight, due, check, net>>
        /\ up' = [up EXCEPT ![s] = ~@] /\ steady' = [steady EXCEPT ![s] = 0]
    BY <1>6 DEF ServerChanges, memVars
  <2>2. TaskInv' /\ Elapsed' = Elapsed
    BY <2>1 DEF StatusInv, TaskInv, Elapsed
  <2>3. ASSUME NEW t \in Servers  PROVE DownInv(t)' /\ UpInv(t)'
    <3>1. CASE t = s
      <4>1. steady'[t] = 0 /\ net'[t] \in Nat
        BY <2>1, <3>1 DEF TypeOK, Window
      <4> QED
        BY <1>0, <2>2, <4>1 DEF DownInv, UpInv
    <3>2. CASE t # s
      <4>1. up'[t] = up[t] /\ steady'[t] = steady[t]
        BY <2>1, <3>2 DEF TypeOK
      <4>2. Pending(t)' = Pending(t) /\ Known(t)' = Known(t)
        BY <2>1 DEF Pending, Known
      <4> QED
        BY <2>1, <2>2, <4>1, <4>2 DEF StatusInv, DownInv, UpInv
    <3> QED
      BY <3>1, <3>2
  <2> QED
    BY <2>2, <2>3 DEF StatusInv
<1>7. CASE PollUnnamed \/ Restart
  BY <1>7, StartStatus DEF PollUnnamed, Restart
<1>8. CASE SaveUserSettings \/ ParamInitData \/ \E u \in Urls : ParamServer(u)
  BY <1>1, <1>8 DEF SaveUserSettings, ParamInitData, ParamServer
<1>9. CASE UNCHANGED vars
  BY <1>1, <1>9 DEF vars, memVars
<1> QED
  BY <1>3, <1>4, <1>5, <1>6, <1>7, <1>8, <1>9, MainStatus, TickStatus DEF Next, HttpThread, EndRequest

\* getStatusInfo: for any check interval longer than a timer step, a server that is
\* down is reported so after two intervals at the latest, and one that is up is
\* reported so after one check, and between any two checks.
THEOREM StatusTrue == Spec => []StatusIsTrue
<1>1. Init => StatusInv
  <2> SUFFICES ASSUME Init PROVE StatusInv
    OBVIOUS
  <2>1. 0 <= Elapsed
    BY TypeInit, ElapsedBound
  <2>2. TaskInv
    BY DEF Init, TaskInv
  <2>3. ASSUME NEW s \in Servers  PROVE DownInv(s) /\ UpInv(s)
    BY <2>1, ControllerAssumption DEF Init, DownInv, UpInv, Window
  <2> QED
    BY <2>2, <2>3 DEF StatusInv
<1>2. TypeOK /\ StatusInv => StatusIsTrue
  BY StatusIsInvariant
<1> QED
  BY TypeCorrect, StatusStep, <1>1, <1>2, PTL DEF Spec

=============================================================================
