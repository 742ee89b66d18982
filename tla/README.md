# SmartVision: specifications of the intercom

SmartVision is a video intercom for apartment buildings. This directory holds TLA+ models of its
indoor box, `src/InnerBox`, of the agent through which boxes call the property desk,
`src/PropertyAppAgent`, and of what keeps the program of the legacy box running, in `src/innerproc`; TLC
configurations that check them on small instances; and TLAPS proofs of their main properties for every
instance. Names follow the source; a comment at each action says
which handler it is.

## The system

| Part | State | Operations | Talks to |
| --- | --- | --- | --- |
| CallServiceManager (`call_manager.cpp`) | `callreq_`, the one call; the times both sides were last heard; the no-calls period | connected, lost, connect failed; call_req, call_accept, call_reject, call_end, call_keep from outside; `endCall`, `rejectCall`, `acceptCall`, `keepCall`, `callOut` for the inside; `check_status` | outdoor stations, other boxes; InnerDeviceManager by direct calls, in both directions |
| InnerDeviceManager (`inner_device_mgr.cpp`) | `conn_ids_`, `device_ids_`, `calling_conn_` | the same messages from the screens at home, and join_family, open_door; `callIn`, `endCall`, `rejectCall`, `acceptCall`, `keepCall`, `postEmergency` | screens; CallServiceManager |
| Connection, SocketServer (`connection.cpp`, `server.cpp`) | socket, `stopped_`, receive buffer, timers | accept, connect, read loop, send, close | their listener |
| SecZoneGuard (`seczone.cpp`) | zones, mode masks, mode, password; `seczone.user`; `rand_key_` | requests that change settings, reset, sensor reports, alarms, heartbeat check | Sensor thread, HTTP thread, InnerDeviceManager, InnerController |
| Sensor, MessagePayload (`sensor.cpp`) | serial port, buffer | read thread, text codec with CRC | SecZoneGuard |
| InnerController, Application (`InnerController.cpp`, `app.cpp`) | `settings_`, `data_inited_`, `settings.user` | periodic task, replies of the property server, parameter requests | everything above |
| HttpService (`http.cpp`) | one mongoose manager | server thread for requests; client requests issued from any thread | InnerController, SecZoneGuard, property server |
| WatchDog (`watchdog.cpp`) | `running_`, device | kick thread | kernel |
| PropertyAppAgent (`appserver.py`) | status of each guard app | poll, dispatch a call, broadcast call_ending | guard apps, boxes |
| PropertyServer, InspectServer | a database | web requests; polling of boxes | boxes |
| start_innerproc, upgrade (`src/innerproc`) | `falsecount`, `bkflag`, `bksuc`; the program and its backup | launch, test of the lock, check, kill, backup, restore; upgrade | innerproc, by pid file, lock, port and signals |
| innerproc | - | the C program InnerBox replaced; not built with it | screens, stations, property server |

Threads of InnerBox: the main thread runs `InnerController::run()` and with it every handler of both
call managers; the HTTP thread runs the mongoose loop; the sensor thread reads the serial port; the
watchdog thread kicks. CallServiceManager has an io_service of its own for its timers, but nothing in
this tree runs it.

What is hard: one read may deliver several messages, and the loop goes on after one of them closed the
connection; two managers share a call, each with half of its state; handlers clear `callreq_` without
asking whose it is; connect timers are bound to a bare `this`; zone settings are written by one thread
and read by another, without a lock, and saved line by line to a file a crash may cut anywhere. The timer
of the main thread makes requests on connections the HTTP thread serves, whose answers may be older than
what they answer. Greenlets of the agent choose an app by what the poller last stored, and the poller
stores "offline" before it asks. The supervisor learns of innerproc by a pid file that every instance
empties before it knows whether another has the lock, while copies of the program may be cut short.

What makes it correct: one call at a time and a free line between calls; both ends of a call learn that
it is over; screens stop ringing; a restart brings back the zone settings; a crash never arms a zone;
an alarm is decided by settings that were really in force; the box keeps the address of its server and
reports truly whether it is there; a call goes to an app that was idle; a box whose program died or hangs
gets it back.

## Modules

### CallLine and CallSignalling

`CallLine` is what the outside is promised: a telephone line that one peer at a time holds, the only
open connection being the holder's. `CallSignalling` is the code.

| Variable | Code |
| --- | --- |
| `callreq` | `callreq_->conn`, by the slot of its connection |
| `live_inside`, `live_outside` | `live_time_inside_`, `live_time_outside_` being other than 0 |
| `outer[o]` | the Connection in slot o: `free` (no object), `connecting`, `out` (called), `in` (calling), `stopped` (closed, kept by its own read loop), `dangling` (destroyed, its timer not yet run) |
| `calling_conn`, `conn_ids`, `device_ids` | the members of InnerDeviceManager |
| `reader`, `batch` | the loop at the end of `Connection::handle_read` and the messages it still has |
| `sent` | what the last step handed to `Connection::send` |
| `ringing` | history: the screens whose users see an incoming call (outside the code) |
| `crashed` | why the process died |

An action is one callback: a connection accepted, lost, connected or failed (`AcceptInner`, `LoseInner`,
`AcceptCall`, `RefuseCall`, `LoseOuter`, `ConnectOk`, `ConnectError`, `LateTimer`), one message of a read
(`Outer...` for `CallServiceManager::onJsonText`, `Inner...` for `InnerDeviceManager::onJsonText`), the
end of a read, or a keep-alive check. Each includes the calls it makes into the other manager. A read
starts only when the main thread is idle; `CheckStatus` belongs to another thread and may come between
two messages of a read. Connections are lost, messages of a read come in any order, and the process
dies of a null `callreq_`, an unusable address or a late timer, and is started again.

`ServiceThread = TRUE` is a build in which the service thread runs; `FALSE` is the tree as it stands. The
second has a subset of the behaviours of the first, so the safety results hold for both; what the checks would
end plays no part in the tree, and no hazard is listed on its account. `CheckStatus`
may find a side silent at any time: times are not counted.

`CallerMsgs` and `CalleeMsgs` say what peers send. The run uses peers that keep to the call control
protocol (a caller sends no answer, a callee no request). The theorems need no such limit, except
`RingingStops`, which assumes that callers send no answers.

### SecZone

| Variable | Code |
| --- | --- |
| `settings` | `seczone_settings_`: zones with `normalstate` and `online`, masks of the modes, mode, password |
| `file` | `seczone.user`: the settings it was written from and how many of its lines are on disk |
| `http` | how far the HTTP thread is with a request: `normalstate` written, `online` next; file to be opened; being written |
| `sensor` | how far the sensor thread is with a report, and for the properties what the settings said meanwhile |
| `rand_key`, `last_key_time` | `rand_key_`, and whether `last_rand_key_time_` is more than an hour ago; nothing initialises it |
| `reset` | history: a reset was asked for, and no zone was set since |

`save_configs` writes the lines in the order of the `...Line` operators; `endl` flushes each, so that a crash
leaves a prefix. `Load` is `load_configs` with `Config::get_int`: a missing count keeps what was there, any
other missing value is 0. Lines of fields no code acts on are left out. `Config::load` strips blanks,
which changes a password (`Stripped`). `Restart` is the death of the process at any step followed by
`init()`. A file torn inside a line, or lost by the disk after `endl`, is not modelled.

`Reports`, `Masks`, `Passwords` and `NewKeys` are what the environment offers.

### LossyLine and SensorLink

`LossyLine` is what the guard is promised of the board: messages may be lost, but what arrives was sent, in this
order, and arrives once. `SensorLink` is the code.

| Variable | Code |
| --- | --- |
| `wire`, `sent`, `noise` | the serial line, the messages the board sent, the bytes damaged or lost |
| `reader` | the thread of Sensor: in `sp_blocking_read`, in `onRecv`, gone (port not opened, read error), or dead with the process |
| `databuf`, `delivered` | `databuf_`; the messages given to `SecZoneGuard::onMessage` |
| `age`, `due` | now less `last_heartbeat_time`; when the timer of `check_heartbeat` expires |
| `offline` | history: `onSensorOffline()` was called since the last heartbeat |
| `silence`, `seen`, `parsed` | history: time since a heartbeat was handled, bytes read, bytes given to `parse()` |

`Read` takes any number of bytes that have come, at most `ReadSize`. `data_split` and the loop of `onRecv` are
cut into one action per line, since `databuf_` is the thread's own and the timer may come between two messages:
`ParseMessage`, `RejectLine` and `ParseShortLine` are the three ways `parse` goes. A line shorter than the
checksum makes it read outside its buffer; the model lets the process die of that, and for a line of one byte
lets it also go well. The checksum is taken to tell a message from anything else. `Tick` moves the clock; a timer
may be late by any time. The wall clock is not set back or forth.

### BoxController

| Variable | Code |
| --- | --- |
| `cfg_url`, `set_url` | `propserver_url` of `cfgs_`, which requests use, and of `settings_`, which `saveUserSettings` writes |
| `outerbox`, `inited` | `settings_.outerbox` is not empty; `data_inited_`, which no constructor sets |
| `file` | the lines of `settings.user`: none while it is being written, else one |
| `main`, `unnamed` | the request `workTimedTask` is at; `mg_connect_http` has returned and `user_data` is not set yet |
| `flight` | the kinds of requests under way |
| `http` | the HTTP thread polls, or writes `settings.user` for initial data or for a parameter request |
| `due`, `check`, `net` | until `timer_` expires; now less `last_check_time_`, `propserver_net` and `outbox_net`, as far as they are compared |
| `up`, `steady` | which servers answer (outside the code); history: for how long that has been so |

One round of `workTimedTask` is one step per request it makes or not, and each request is two: the
connection is visible to the other thread before it has its `user_data`, and a poll in between dereferences
it (`PollUnnamed`, which ends the process). Several requests of one kind under way are one element of `flight`,
since their answers do the same. An answer to a check comes within the step of the clock in which it is
asked, if the server is up; initial data may come at any later time, also after a parameter request has
asked for them anew. `Restart` is the end of the process at any point, followed by `Application::init()`.
Writing the file is two steps, a crash between them leaves it empty.

### AppAgent

| Variable | Code |
| --- | --- |
| `status` | `app.status` of each app in `app_list` |
| `poll`, `reply` | which app `check_app_status` asks and what it waits for; the answer on its way |
| `conn` | the greenlet of `_service` of each connection: what it waits for, with which app, what the box was told; history: the apps a call_ending is owed to |
| `phone` | the apps themselves: down, idle or busy (outside the code) |
| `since`, `heard` | history: whether an app was idle, not idle or both since it was last asked; the apps whose last poll was answered |

A greenlet runs until it waits for a socket or sleeps, so a step goes from one such point to the next.
`Ask` sets the app offline, as the first line of `get_app_status` does. Every wait may fail.

### BoxSupervisor

| Variable | Code |
| --- | --- |
| `inn`, `bk` | the files INN_PATH and BK_INN_PATH: whole, or torn by a copy that was cut short |
| `pidfile` | the pid in PID_PATH; it survives a power cut |
| `proc` | each instance of innerproc: waiting for an address, file opened (and emptied), locked, starting, serving, hung |
| `pc`, `pid` | where `dameon_alive` is, and what `is_running` read |
| `falsecount`, `bkflag`, `bksuc` | the variables of that name; `falsecount` stops at the first value above its limit |
| `upgrade` | where `upgrade` is |

The supervisor's round is one step per system call that another process can see: it reads the pid, then
tests the lock, and holds it until it closes the file. `cp` without `-f` cannot write a program that is
executed (`Restore` does nothing then); `cp -f` makes a new file, so that a program goes on serving from a
file that is gone. A copy is two steps, with a torn file between. `docopy.sh`, which is part of an
upgrade package and not of this tree, is taken to replace the program, or to fail and leave it torn; it may also be taken for failed when the program is whole, by another file
of the package or for want of `md5sum.txt`. pids are
given out in turn, so that one still in the pid file is not met again (`Unused`). Whether a check is due,
`now % 10`, is left open.

## Runs

| Run | Instance | Shows |
| --- | --- | --- |
| `signalling` | 2 screens, 3 outer slots, 2 messages per read, service thread | the safety properties of CallSignalling, and that it implements CallLine |
| `late_answer` | the same, 1 message per read, no service thread | violated: a screen that answers after the caller is gone is in a call without a line |
| `zone_settings` | 2 zones, 2 modes, 2 passwords, one port reported high | settings survive restarts; a crash at any line arms nothing; unlocked checks decide as before or after a change |
| `zone_torn` | 2 zones | violated: an alarm from settings never in force together |
| `sensor_link` | 2 messages of 3 bytes, reads of up to 5, 2 bytes of noise | nothing lost, doubled or left behind; no false report of silence; implements LossyLine |
| `sensor_silence` | no noise | violated: silence is never noticed |
| `controller` | one other address, check interval 2, timer 1 | a set address is kept; the status of the servers is right; data are asked for until they are there |
| `controller_address` | the same | violated: the address of the server is gone after initial data and a restart |
| `agent` | 2 apps, 2 connections | calls and refusals go by the last poll; a broadcast passes over no app but one being polled; a dead app is noticed; only waits for an app last |
| `agent_ending` | 2 apps, 1 connection | violated: a call_ending misses an active app |
| `supervisor` | 2 instances, `falsecount` limit 2 | only the holder of the lock is killed; a hung program that is named goes; an instance gets the lock again |
| `supervisor_upgrade` | the same | violated: neither the program nor its backup is whole |

Bounds. Two screens are the least for one to be displaced or told by another; a third outer slot lets a
caller be refused while another waits in a state of its own. Two messages per read are enough for one
to follow a closing one: after it the loop state is the same again, and `ReadLoop` in the proofs says so
for any length. Two zones and two modes are enough for one to be written and the next not. In
`zone_settings` one port at one level is reported: a check reads its own zone only, `zone_touched` is about
that zone, and a zone may be set to either level. `zone_torn` has both levels and one password. The
proofs have none of these bounds.

In SensorLink a read of five bytes holds one message and part of the next, so that reads end in every
position; two bytes of noise can join two messages or make a line empty; `MaxOffline` and `HbInterval` of one
step keep the times apart that matter: before, at and after the limit.

An interval of two and a timer of one are the least for a check to fall between two rounds of the timer; the
clock counts no further than the code compares. Two apps are enough for one to be asked while the other is
called, and for the first to end a broadcast or a search; two connections for two calls at one app. Two
instances are enough for one to serve and one to come late; the limit of 10 only counts launches, and 2
lets an instance get the lock before and after it. With three instances `TypeOK` and `KillsTheHolder` were
checked too (half a million states); the temporal properties take too long there.

CHECK_DEADLOCK is on everywhere: something can always happen. CallSignalling and SecZone assume no fairness and
have safety properties only. SensorLink assumes weak fairness of the reader, which loops on its port, of the
timer, whose io_service runs in the main thread, and of the clock; none of the board, the line or read errors.
BoxController assumes that a file being written gets written, and strong fairness of the rest together
(`Goes`): the main thread runs, a check ends since `mg_mgr_poll` visits every connection in each round, and
time passes; nothing of the servers, and nothing of whoever restarts the process. AppAgent assumes weak fairness
of the poller and of each connection except where it waits for an app without a timeout. BoxSupervisor assumes
it of the supervisor, of upgrade and of each instance up to serving; strong fairness says that a check falls
due again and again (a round takes a second, one in ten of them is due) and that the lock test, some
microseconds of each second, does not meet every instance that opens or locks the file.

### Properties of CallSignalling

- `OneLine`: open outer connections and the current call are the same thing. `onDisconnected`,
  `onConnectError` and `onCallIn` depend on it without a check.
- `CallingIsConnected`, `OutgoingHasScreen`: the record of the screen in the call is good; a call going
  out has somebody to report to.
- `NullOnlyAfterHangup`: exactly where the unchecked `callreq_` can be empty.
- `NoStaleRing`: no screen rings for a caller that is gone.
- `PeerIsTold`, `ScreenIsTold`: no call ends behind the back of either side.
- `OnlyLateAnswers`: each manager keeps half of a call, and nine handlers and the timer end one from either
  side; no step but a late answer leaves the screen's half without the other. With `NoCallWithoutLine`, which
  `late_answer` violates, it says that this is the only way there.
- `LineIsExclusive`: refinement of CallLine.

### Properties of SecZone

- `RestartKeepsSettings`, `RestartArmsNothing`: the file against the memory, between and within saves. The
  second rests on the order of lines: modes before zones, a zone's `normalstate` before its `online`.
- `DecisionMatches`: the check against the settings that change under it. It excludes a change of the very
  zone, which does go wrong (`zone_torn`), and two changes of mode or mask during one check.

### Properties of SensorLink

- `NoByteLost`: however reads fall, lines and rest are the bytes read.
- `Delivery`: the guard gets what was sent, in order and never twice, with noise; all of it without. In
  particular no clean message is ever split into the short lines that harm `parse`.
- `OfflineIsTrue`: `last_heartbeat_time` is written by two threads, and a heard board is never taken for silent.
- `LinkIsLossyLine`: refinement of LossyLine: also step by step the guard gets at most one message more, never
  takes one back, and never gets one before it is sent.
- `NothingStaysBehind` (liveness): no complete line waits in the buffer for bytes after it.

### Properties of BoxController

- `AddressKept`: an address set by request is what `settings.user` holds, whatever answers save it again. It speaks
  of one life of the process and of the time between saves: a crash within one leaves the file empty.
- `StatusIsTrue`: `getStatusInfo` compares the age of an answer with twice the interval, and checks are made on
  rounds of another timer: a server down for that long is offline, one up for longer than an interval and a
  round is online and stays so between checks. It needs the address and the timer to go on; an outage, a
  restart or initial data in between start the count anew.
- `KeepsAsking` (liveness): while there are no data the timer comes back to asking, whatever fails.

### Properties of AppAgent

- `CallsGoToIdle`: an app that gets a call was idle at some time since the poller began to ask it, which rests on
  the reset to offline before the question. It may be taken by now: two calls may go to one app.
- `NoNeedlessRefusal`: line_is_busy means that each app that answers was seen not idle, or is being asked now.
- `SkipsOnlyPolled`: the loop of `broadcast_call_ending` waits between apps, and polls come between; of the apps
  that answered their last poll it passes over none but one that is being asked again. The loop still ends
  early at an app it cannot reach, and misses the polled one (`agent_ending`).
- `DeadAppNoticed`, `OnlyCallsWait` (liveness): one poller serves all apps and survives their failures; no
  connection lasts but one that waits in `do_app_call`, which has no timeout. Nothing is claimed of that one.

### Properties of BoxSupervisor

- `KillsTheHolder`: pid and lock are read in two steps, and any instance may empty the file meanwhile; still, a
  pid that is killed is gone or holds the lock. It rests on the pid being written after the lock.
- `HungIsKilled` (liveness): the check reaches a hung program, as long as the pid file names it. The condition is
  needed: `write_pid_file` empties the file first, so an instance launched while the first one still waited
  for an address wipes out its pid, and a program that hangs then is never killed (`pid > 0` fails).
- `RestartedAgain` (liveness): once crashes and power cuts stop, some instance has the lock again and again (it
  need not serve: one that starts slowly may be killed by a check, one that hangs keeps the lock), through failed locks, kills during the start, and a torn program replaced by its backup.

### What the code does otherwise than it says

1. `acceptCall()` answers an empty pointer instead of a MessageCallEnd when the line is gone
   (`call_manager.cpp:337`), so the branch at `inner_device_mgr.cpp:242` is dead; the screen stays in a call
   without a line until it hangs up itself.
2. A zone that is being bypassed may raise an alarm by its old `online` and its new `normalstate`
   (`seczone.cpp:253-259` against `443-447`).
3. A silent board is never noticed: `check_heartbeat` renews the very time it compares (`seczone.cpp:194`).
   Nor does it send the heartbeat its comment speaks of: `hearbeat()` has no caller.
4. Initial data that name an entrance box save an address nothing has loaded (`InnerController.cpp:200`): after
   the next start the box does not know its server.
5. A call_ending misses the app that is being polled, and all apps after one that cannot be reached
   (`appserver.py:181`, `188`).
6. An upgrade tried again after a failed one copies the torn program over the good backup (`upgrade.c:63`).

Read in the code while modelling, and not among the runs: `onSecZonePortStatus` alarms when the level equals
`normalstate` (`seczone.cpp:447`), which `seczone.h:40` calls the value without alarm; a reset lasts until the
next save, since `reboot()` is empty (`seczone.cpp:521`); the time of the last key is never stored, so a key
does not last its 60 minutes (`seczone.cpp:469`); an idle app that cannot be reached leaves the caller without the
line_is_busy of the agent's README (`appserver.py:170`).

## Proofs

The modules named `...Proofs` hold the theorems, for all values of the constants under the assumption each module
names (`SignallingAssumption`, `SecZoneAssumption`, `LinkAssumption`, `ControllerAssumption`, `AgentAssumption`,
`SupervisorAssumption`). They only type the constants, and say that stripping a password twice is stripping it once,
that the separator is no byte of a message, that the timer of the controller is shorter than its check interval (5
and 60 seconds in the code), and that the empty address and the empty pid file are nobody's.

CallSignalling. `OneLine` is not inductive: a message of a connection closed earlier in the same read must
be known not to meet a new call. `LineInv` adds `ReadLoop` (a stopped connection belongs to the read
loop, and there is no call meanwhile) to the type and the invariants. `LineStep` proves it step by step;
`LineIsOne`, `CallingConnected`, `OutgoingAnswered`, `NullDereference` follow. `RingInv` adds what a caller's
batch may contain and that ringing screens have joined; it gives `RingingStops`. `PeerTold`,
`ScreenTold` and `LineRefinement` are step properties from the same invariant; for the last, `LineMoves`
shows that every step seizes, releases or leaves the line. `CallsEndTogether` goes
through the handlers once (`AnswerStep`): each that lets go of `callreq` lets go of `calling_conn` in the same step.

SecZone. `FileInv` says what the file is next to the memory: the settings in force while it is written and
between requests, unless a reset removed it. `CompleteFile` and `PrefixArmsNothing` are the facts about
`Load`; the second uses `LineOrder`, the order of the lines. `SettingsSurvive` and `RestartIsQuiet` follow.
`CheckInv` says what a check under way has seen; with it `ChecksAreSound`.

SensorLink. `ByteStep` proves `NoByteLost` from the types alone; its heart is `CutKeepsBytes`, that cutting at a
separator only moves bytes. `OfflineSound` needs `AgeInv`: the time the guard goes by is never more than the
true silence.

`Delivered` needs to know where in the bytes under way, `databuf` and then `wire` (`Stream`), the messages are.
Induction over them is avoided by naming positions. `TracedInv` says that there are two maps to positions
in `sent`, one from the messages delivered and one from the last bytes of messages in the stream, that keep
the order and the message, the first wholly before the second; a line that is a message ends in such a byte, and
noise makes none. `Thinned` (bytes go or change), `Taken` (a message is delivered) and `SentTraced` (one more is
sent) are the only changes. `CleanInv` is for a line without noise: the stream is what was sent and not
delivered, message k beginning at a multiple of its length (`Start`), so that the first separator ends the first
message and no line is rejected or too short. `LinkRefinement` follows step by step (`LossyStep`).

BoxController. `AddressKept` is inductive with the types. `StatusTrue` needs `StatusInv`, which bounds the ages: a
server up for longer than the time since the last check has answered it, and the time since the last check
is never more than an interval and a round, wherever the main thread is.

AppAgent. `StatusInv` ties what the poller stored, and the answer on its way to it, to what the app was since it was
asked; `IdleAppsGetCalls` and `RefusalsAreNeeded` are step properties from it. `BroadcastSkipsPolled` rests on `KnownInv`:
an app that answered is not taken for offline until it is asked again, whatever other apps, failures and
connections do.

BoxSupervisor. `KillsTheHolder` speaks of the moment of the kill only. `Inv` says of both names, in the pid file and in
the supervisor's hand, that a running instance with that pid has the lock; `KeptHolder` is that an instance
leaves the lock only by ending.

Causes of what goes wrong. Five theorems are about properties the code violates, and say why for every instance.
The first four assume what the code does not see to and prove that nothing else is needed, so that what is
assumed away is the only cause there is:

- `AnswersInTime`: if `acceptCall()` never meets a lost line (`NoLateAnswer`), no screen is in a call without one
  (`NoCallWithoutLine`); a corollary of `CallsEndTogether`'s lemma.
- `UndisturbedEnding`: if no app is asked while a call_ending is owed to it (`NotAsked`) and those it is sent to can be
  reached (`AllReachable`), it reaches all (`EndingReachesAll`), whatever else polls, apps and boxes do. `OwedInv`
  says that apps it is owed to are ahead of the loop and answered their last poll.
- `AddressLost`: if initial data only arrive in a process to which an address was set (`DataAfterAddress`), the box
  knows its server (`ServerKnown`) through every request, crash in the middle of a save and restart. The
  invariant is `AddressInv`: neither process nor file is without an address, and none is written that is not set.
- `SafeCopiesSuffice`: if no copy is made from a torn file and no two copies overlap (`CopiesAreSafe`), one of
  program and backup is whole (`OneIsWhole`), also when the power goes in the middle of a copy.
  `start_innerproc` and `upgrade` see to neither.
- `SilenceNeverReported`: with a punctual timer (`TimerIsPunctual`) and an interval no longer than
  `sensor_offline_time`, as the defaults of 5 and 3600 seconds are, no silence is ever reported.

The hypotheses are met in ordinary runs: where screens answer before the caller gives up, where the poller rests or is
at another app during a broadcast, where an address is set before initial data arrive, where an upgrade and the
copies of the supervisor come one after the other and from whole files, and where the main thread is free when its
timer expires. The sixth finding, `zone_torn`, has its cause in `ChecksAreSound`: a check during which its zone is not set,
and the mode and the masks change once at most, decides as settings that were in force.

Only model-checked: the liveness properties, which the provers at hand cannot handle (they rest on ENABLED):
`NothingStaysBehind`, `KeepsAsking`, `DeadAppNoticed`, `OnlyCallsWait`, `HungIsKilled`, `RestartedAgain`; and that the
violated properties are violated, which needs a behaviour and not a proof. All other properties of the passing runs have proofs. No module uses RECURSIVE,
and none of the proofs is by induction over data.

## Not modelled

Most lines of the tree are libraries kept beside the code (`sqlite3.c` twice, mongoose twice with its examples,
cJSON, iniparser, libev): what is modelled of them is what the code relies on. Of the rest:

- Call signalling: the no-calls period (`setCallInDenied` has no caller), `work_timer`, `postEmergency`, message
  fields, partial writes and the lifetime of the buffers given to asio; ids of connections, which count
  seconds (`utils.cpp:19`), so that two screens accepted within one overwrite each other in `conn_ids_` and `device_ids_`,
  and the loss of one erases the other. `NoStaleRing` and `ScreenIsTold`, and the theorems `RingingStops` and
  `ScreenTold`, therefore hold as long as no two screens connect within one second.
- Zones and sensor: `openDoor`, the checksum, a disk that loses what was flushed.
- Controller: parameters that set members nothing reads, reports of events, the string `outerbox` read by one
  thread while the other assigns it.
- Supervisor: descriptors `send_cmd_to_local` leaks when it is refused; the hardware watchdog, which a thread of
  innerproc feeds even when its server hangs; pids that are used again.
- WatchDog and logging: no state the rest depends on. PropertyServer and InspectServer: request, database,
  response.
- innerproc beyond its start: its call line, zones and history are those of the box that InnerBox replaces.
