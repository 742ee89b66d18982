--------------------------- MODULE BoxController ---------------------------
(***************************************************************************)
(* InnerController: a timer of the main thread asks the property server    *)
(* for the data the box needs, until it has them, and from time to time    *)
(* whether the server and the entrance box can be reached.  Answers, and   *)
(* requests that change parameters, are handled by the thread of the HTTP  *)
(* service, which also writes settings.user.                               *)
(*                                                                         *)
(* Time is counted in steps of a clock, as far as the code compares it.    *)
(* Timers are on time, and a server that is up answers a check within the  *)
(* step; an answer to a request for data may take any time.                *)
(***************************************************************************)
EXTENDS Naturals, Sequences

CONSTANTS
  Home,     \* propserver_url of settings.txt
  Urls,     \* addresses a parameter request may set
  NoUrl,    \* the empty address
  Interval, \* net_check_interval_
  Timer     \* check_timer_interval_

ASSUME ControllerAssumption ==
  /\ NoUrl \notin Urls \cup {Home}
  /\ Interval \in Nat /\ Timer \in Nat
  /\ 0 < Timer /\ Timer < Interval

VARIABLES
  cfg_url,  \* propserver_url of cfgs_
  set_url,  \* settings_.propserver_url
  outerbox, \* settings_.outerbox is known
  file,     \* the lines of settings.user
  inited,   \* data_inited_
  main,     \* what workTimedTask() is about to request
  unnamed,  \* ... and whether that connection exists and has no user_data yet
  flight,   \* requests under way
  http,     \* what the HTTP thread is saving settings.user for, if it is
  due,      \* until timer_ expires
  check,    \* time(NULL) - last_check_time_
  net,      \* time(NULL) - propserver_net, and - outbox_net
  up,       \* the servers, outside the code: which of them answer
  steady    \* history: for how long a server has been as it is, known to the box that runs

memVars  == <<cfg_url, set_url, outerbox, inited>>
timeVars == <<due, check, net, up, steady>>
vars     == <<memVars, file, main, unnamed, flight, http, timeVars>>

Servers == {"propserver", "outbox"}
Checks  == {"check_propserver", "check_outbox"}
Kinds   == {"initdata"} \cup Checks
Url     == Urls \cup {Home, NoUrl}

Window == 2 * Interval

Server(k) == IF k = "check_outbox" THEN "outbox" ELSE "propserver"

\* Somebody is at the address requests of kind k go to.
Known(s)      == IF s = "outbox" THEN outerbox ELSE cfg_url # NoUrl
Answerable(k) == Known(Server(k)) /\ up[Server(k)]

\* getStatusInfo(): the status of a server the box reports.
Online(s) == net[s] < Window

\* Application::init(): settings.txt, overlaid by the lines of settings.user.
LoadUrl(lines) == IF lines = <<>> THEN Home ELSE lines[1]

\* A new process with these lines in settings.user; nothing sets data_inited_.
Started(lines) ==
  /\ cfg_url' = LoadUrl(lines)
  /\ set_url' = NoUrl
  /\ outerbox' = FALSE
  /\ inited' \in BOOLEAN
  /\ main' = "idle"
  /\ unnamed' = FALSE
  /\ flight' = {}
  /\ http' = "poll"
  /\ due' = Timer
  /\ check' = Interval + 1
  /\ net' = [s \in Servers |-> Window]
  /\ steady' = [s \in Servers |-> 0]

Init ==
  /\ cfg_url = Home
  /\ set_url = NoUrl
  /\ outerbox = FALSE
  /\ inited \in BOOLEAN
  /\ file = <<>>
  /\ main = "idle"
  /\ unnamed = FALSE
  /\ flight = {}
  /\ http = "poll"
  /\ due = Timer
  /\ check = Interval + 1
  /\ net = [s \in Servers |-> Window]
  /\ up \in [Servers -> BOOLEAN]
  /\ steady = [s \in Servers |-> 0]

-----------------------------------------------------------------------------
(* The main thread: workTimedTask() and the requests it makes.             *)

WorkTimedTask ==
  /\ main = "idle"
  /\ due = 0
  /\ main' = "initdata"
  /\ UNCHANGED <<memVars, file, unnamed, flight, http, timeVars>>

\* Mutant: the time between two checks is twice as long.
WantedLate(k) ==
  CASE k = "initdata"         -> ~inited
    [] k = "check_propserver" -> check > Window
    [] k = "check_outbox"     -> outerbox

\* httpInitData() and check_net_reachable(): whether request k is made.
Wanted(k) ==
  CASE k = "initdata"         -> ~inited
    [] k = "check_propserver" -> check > Interval
    [] k = "check_outbox"     -> outerbox

\* Mutant: the timer is set again only while there are no data.
EndTimedTaskOnce ==
  /\ main' = IF inited THEN "ended" ELSE "idle"
  /\ due' = Timer

\* Mutant: the timer is set to the interval of the checks.
EndTimedTaskSlow ==
  /\ main' = "idle"
  /\ due' = Interval

\* workTimedTask() sets its timer again.
EndTimedTask ==
  /\ main' = "idle"
  /\ due' = Timer

\* The next request, after k was made or not.
After(k, made) ==
  IF k = "initdata" THEN main' = "check_propserver" /\ UNCHANGED due
  ELSE IF k = "check_propserver" /\ made THEN main' = "check_outbox" /\ UNCHANGED due
  ELSE EndTimedTask

SkipRequest(k) ==
  /\ main = k /\ ~unnamed
  /\ ~Wanted(k)
  /\ After(k, FALSE)
  /\ UNCHANGED <<memVars, file, unnamed, flight, http, check, net, up, steady>>

\* http_request(): mg_connect_http() has put the connection where the other thread
\* finds it ...
OpenRequest(k) ==
  /\ main = k /\ ~unnamed
  /\ Wanted(k)
  /\ unnamed' = TRUE
  /\ check' = IF k = "check_propserver" THEN 0 ELSE check
  /\ UNCHANGED <<memVars, file, main, flight, http, due, net, up, steady>>

\* ... and only now it is told what was asked.
NameRequest(k) ==
  /\ main = k /\ unnamed
  /\ unnamed' = FALSE
  /\ flight' = flight \cup {k}
  /\ After(k, TRUE)
  /\ UNCHANGED <<memVars, file, http, check, net, up, steady>>

-----------------------------------------------------------------------------
(* The HTTP thread.                                                        *)

Polling == http = "poll"

\* ev_connect_handler() makes a string of user_data whatever the event is: the
\* process dies of a null pointer, and is started again.
PollUnnamed ==
  /\ Polling
  /\ unnamed
  /\ Started(file)
  /\ UNCHANGED <<file, up>>

Answered(k) ==
  /\ Polling
  /\ k \in flight /\ Answerable(k)
  /\ flight' = flight \ {k}
  /\ UNCHANGED <<cfg_url, set_url, main, unnamed, due, check, up>>

\* onHttpResult() for a check; its status must be 0.
CheckAnswered(k) ==
  /\ k \in Checks
  /\ Answered(k)
  /\ net' = [net EXCEPT ![Server(k)] = 0]
  /\ UNCHANGED <<outerbox, inited, file, http, steady>>

\* An answer that is refused, not understood or without a list of outer boxes.
InitDataUseless ==
  /\ Answered("initdata")
  /\ UNCHANGED <<outerbox, inited, file, http, net, steady>>

\* onInitData(): a list without a primary entrance box.
InitDataNoOuterBox ==
  /\ Answered("initdata")
  /\ inited' = TRUE
  /\ UNCHANGED <<outerbox, file, http, net, steady>>

\* onInitData(): with one; saveUserSettings() empties the file ...
InitData ==
  /\ Answered("initdata")
  /\ outerbox' = TRUE
  /\ steady' = IF outerbox THEN steady ELSE [steady EXCEPT !["outbox"] = 0]
  /\ file' = <<>>
  /\ http' = "initdata"
  /\ UNCHANGED <<inited, net>>

\* Mutant: what was loaded is written back.
SaveUserSettingsLoaded ==
  /\ http # "poll"
  /\ file' = <<cfg_url>>
  /\ inited' = (inited \/ http = "initdata")
  /\ http' = "poll"
  /\ UNCHANGED <<cfg_url, set_url, outerbox, main, unnamed, flight, timeVars>>

\* ... and writes its line; then the data are there, if it was for them.
SaveUserSettings ==
  /\ http # "poll"
  /\ file' = <<set_url>>
  /\ inited' = (inited \/ http = "initdata")
  /\ http' = "poll"
  /\ UNCHANGED <<cfg_url, set_url, outerbox, main, unnamed, flight, timeVars>>

\* No connection, or it is closed without an answer.
RequestFails(k) ==
  /\ Polling
  /\ k \in flight
  /\ k \in Checks => ~Answerable(k)
  /\ flight' = flight \ {k}
  /\ UNCHANGED <<memVars, file, main, unnamed, http, timeVars>>

\* setParameterValues() with initdata, propserver_url or both.
ParamInitData ==
  /\ Polling
  /\ inited' = FALSE
  /\ UNCHANGED <<cfg_url, set_url, outerbox, file, main, unnamed, flight, http, timeVars>>

ParamServer(u) ==
  /\ Polling
  /\ inited' \in {inited, FALSE}
  /\ set_url' = u
  /\ file' = <<>>
  /\ http' = "params"
  /\ UNCHANGED <<cfg_url, outerbox, main, unnamed, flight, timeVars>>

-----------------------------------------------------------------------------
(* The clock, the servers and the end of the process.                      *)

Later(t, most) == IF t < most THEN t + 1 ELSE most

\* Timers are on time and answers to checks prompt.
Quiet ==
  /\ main = "idle"
  /\ due > 0
  /\ \A k \in flight \cap Checks : ~Answerable(k)

Tick ==
  /\ Quiet
  /\ due' = due - 1
  /\ check' = Later(check, Interval + 1)
  /\ net' = [s \in Servers |-> Later(net[s], Window)]
  /\ steady' = [s \in Servers |-> Later(steady[s], Window)]
  /\ UNCHANGED <<memVars, file, main, unnamed, flight, http, up>>

ServerChanges(s) ==
  /\ up' = [up EXCEPT ![s] = ~@]
  /\ steady' = [steady EXCEPT ![s] = 0]
  /\ UNCHANGED <<memVars, file, main, unnamed, flight, http, due, check, net>>

\* The process ends at any point, and is started again.
Restart ==
  /\ Started(file)
  /\ UNCHANGED <<file, up>>

-----------------------------------------------------------------------------
MainThread ==
  \/ WorkTimedTask
  \/ \E k \in Kinds : SkipRequest(k) \/ OpenRequest(k) \/ NameRequest(k)

EndRequest(k) == CheckAnswered(k) \/ RequestFails(k)

HttpThread ==
  \/ PollUnnamed
  \/ \E k \in Kinds : EndRequest(k)
  \/ InitDataUseless \/ InitDataNoOuterBox \/ InitData
  \/ SaveUserSettings

Next ==
  \/ MainThread \/ HttpThread
  \/ ParamInitData \/ \E u \in Urls : ParamServer(u)
  \/ Tick
  \/ \E s \in Servers : ServerChanges(s)
  \/ Restart

\* Time passes, and what it brings is done.
Goes == MainThread \/ (\E k \in Checks : EndRequest(k)) \/ Tick

\* Both threads run; mg_mgr_poll() looks at every connection in each round, so that
\* other requests do not keep it for ever from the end of a check.  Nothing is expected
\* of the servers, of those who send parameters, and of whoever starts the program.
Fairness == WF_vars(SaveUserSettings) /\ SF_vars(Goes)

Spec == Init /\ [][Next]_vars /\ Fairness

-----------------------------------------------------------------------------
(* Properties.                                                             *)

\* Types and ranges of all variables; the timer is never set to more than its own
\* interval (workTimedTask).
TypeOK ==
  /\ cfg_url \in Url
  /\ set_url \in Urls \cup {NoUrl}
  /\ outerbox \in BOOLEAN
  /\ file \in {<<>>} \cup {<<u>> : u \in Urls \cup {NoUrl}}
  /\ inited \in BOOLEAN
  /\ main \in {"idle"} \cup Kinds
  /\ unnamed \in BOOLEAN
  /\ unnamed => main # "idle"
  /\ flight \in SUBSET Kinds
  /\ http \in {"poll", "initdata", "params"}
  /\ due \in 0 .. Timer
  /\ check \in 0 .. Interval + 1
  /\ net \in [Servers -> 0 .. Window]
  /\ up \in [Servers -> BOOLEAN]
  /\ steady \in [Servers -> 0 .. Window]

\* An address that was set while the process runs is in settings.user whenever the
\* HTTP thread is not just writing it: no answer of a server, and no other request,
\* has written anything else (setParameterValues, onInitData, saveUserSettings).
AddressKept == http = "poll" /\ set_url # NoUrl => file = <<set_url>>

\* What getStatusInfo() reports is true: a server that has been down for two check
\* intervals is offline, one that has been known and up for longer than an interval
\* and a timer step is online, and stays so between two checks.
StatusIsTrue ==
  \A s \in Servers :
    /\ ~up[s] /\ steady[s] >= Window => ~Online(s)
    /\ up[s] /\ Known(s) /\ steady[s] > Interval + Timer => Online(s)

\* InnerController.cpp:252: as long as there are no data the timer asks for them, again
\* and again, whatever becomes of the requests and whenever the data are discarded, unless
\* the process is started anew all the time.
KeepsAsking == []<><<Restart>>_vars \/ []<>(inited \/ main = "initdata")

\* app.cpp:26 lays what the user has set over the settings, and InnerController.cpp:197
\* writes the present ones.  So the box always has an address for its server?
ServerKnown == cfg_url # NoUrl

=============================================================================
