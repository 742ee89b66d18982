------------------------------ MODULE SecZone -------------------------------
(***************************************************************************)
(* SecZoneGuard: the alarm zones of the flat, their settings and the user  *)
(* file seczone.user that carries the settings over a restart.             *)
(*                                                                         *)
(* Two threads meet here and neither takes a lock.  The HTTP thread        *)
(* changes the settings and writes the file, line by line, each line       *)
(* flushed by endl; the sensor thread reads the settings, one field after  *)
(* the other, when the sensor board reports the level of a port.  The      *)
(* process may die between any two of these steps.                         *)
(*                                                                         *)
(* The settings keep the fields the alarm decision reads.  The file is the *)
(* settings it was written from and the number of its lines on disk; the   *)
(* lines of fields no code acts on (name, delaytime, ...) are left out.    *)
(***************************************************************************)
EXTENDS Naturals

CONSTANTS
  ZoneNumber,      \* ZONE_NUMBER
  ModeNumber,      \* MODE_NUMBER
  Masks,           \* the zone masks that are offered for a mode
  Passwords,       \* the zone passwords that are offered
  Reports,         \* the ports and levels the sensor board reports
  Stripped,        \* what Config::load keeps of a password: it removes blanks
  NoPassword,      \* nothing is left of it
  FactoryPassword, \* the password of seczone.txt
  NewKeys,         \* what generateUUID() returns
  NoKey            \* the empty rand_key_

Zone  == 0 .. ZoneNumber - 1
Mode  == 0 .. ModeNumber - 1
Level == {0, 1}

ASSUME SecZoneAssumption ==
  /\ ZoneNumber \in Nat \ {0}
  /\ ModeNumber \in Nat \ {0}
  /\ Masks \subseteq SUBSET Zone
  /\ Reports \subseteq Zone \X Level
  /\ FactoryPassword \in Passwords
  /\ NoPassword \notin Passwords
  /\ Stripped \in [Passwords -> Passwords \cup {NoPassword}]
  /\ \A p \in Passwords : Stripped[p] # NoPassword => Stripped[Stripped[p]] = Stripped[p]
  /\ Stripped[FactoryPassword] = FactoryPassword
  /\ NoKey \notin NewKeys

VARIABLES
  settings,      \* seczone_settings_
  file,          \* seczone.user
  http,          \* the request the HTTP thread is executing
  sensor,        \* the report the sensor thread is executing, or the last one
  rand_key,      \* rand_key_
  last_key_time, \* last_rand_key_time_: more than an hour ago, or not
  reset          \* the factory settings were asked for, and no zone was set since

vars == <<settings, file, http, sensor, rand_key, last_key_time, reset>>

ZoneConf == [normalstate : Level, online : BOOLEAN]
Settings == [password : Passwords, mode_index : Mode,
             mask : [Mode -> SUBSET Zone], zone : [Zone -> ZoneConf]]

\* seczone.txt: modes 0 and 1 watch every zone, the others none; the "online" of
\* its zones is empty, which get_int() reads as 0.
Factory ==
  [password   |-> FactoryPassword,
   mode_index |-> 0,
   mask       |-> [m \in Mode |-> IF m < 2 THEN Zone ELSE {}],
   zone       |-> [z \in Zone |-> [normalstate |-> 0, online |-> FALSE]]]

-----------------------------------------------------------------------------
(* The file.  save_configs() writes these lines in this order.             *)

PasswordLine == 1
ModeNumLine  == 2
IndexLine    == 3
MaskLine(m)  == 4 + m
ZoneNumLine  == 4 + ModeNumber
NormalLine(z) == 5 + ModeNumber + 2 * z

\* Mutant: a zone's online before its normalstate.
OnlineLineEarly(z) == 4 + ModeNumber + 2 * z
OnlineLine(z) == 6 + ModeNumber + 2 * z

LastLine == 4 + ModeNumber + 2 * ZoneNumber

Written(f, line) == line <= f.lines

\* What is read back of password p, where password base was set before.
Reread(p, base) == IF Stripped[p] = NoPassword THEN base ELSE Stripped[p]

\* load_configs(): a missing password or index keeps what was there, a missing
\* count of modes or zones keeps all of them, any other missing value is 0.
Load(base, f) ==
  [password   |-> IF Written(f, PasswordLine) THEN Reread(f.of.password, base.password)
                  ELSE base.password,
   mode_index |-> IF Written(f, IndexLine) THEN f.of.mode_index ELSE base.mode_index,
   mask       |-> [m \in Mode |-> IF ~Written(f, ModeNumLine) THEN base.mask[m]
                                  ELSE IF Written(f, MaskLine(m)) THEN f.of.mask[m] ELSE {}],
   zone       |-> [z \in Zone |->
                     IF ~Written(f, ZoneNumLine) THEN base.zone[z]
                     ELSE [normalstate |-> IF Written(f, NormalLine(z))
                                           THEN f.of.zone[z].normalstate ELSE 0,
                           online      |-> Written(f, OnlineLine(z)) /\ f.of.zone[z].online]]]

NoFile == [of |-> Factory, lines |-> 0]
Files  == [of : Settings, lines : 0 .. LastLine]

\* What a restart would come up with.
Restarted == Load(Factory, file)
-----------------------------------------------------------------------------
(* The two threads.                                                        *)

Idle     == [at |-> "idle"]
HttpPc   == {Idle}
            \cup [at : {"online"}, zone : Zone, online : BOOLEAN, old : ZoneConf]
            \cup [at : {"open", "write"}]

\* verdicts, changes and zone_touched are kept for the properties: what the
\* settings said during the check, how often the mode or a mask changed meanwhile,
\* and whether the zone of the check was being set.
SensorPc == [at : {"normalstate", "mode", "mask", "alarm", "quiet", "raised"},
             port : Zone, status : Level, mode : Mode,
             verdicts : SUBSET {"alarm", "quiet"}, changes : 0 .. 2, zone_touched : BOOLEAN]
Checking == sensor.at \in {"normalstate", "mode", "mask"}

\* Does a report of level v at zone z raise an alarm under settings s?
Fires(s, z, v) ==
  /\ s.zone[z].online
  /\ s.zone[z].normalstate = v
  /\ z \in s.mask[s.mode_index]

\* What becomes of such a report.
Verdict(s, z, v) == IF Fires(s, z, v) THEN "alarm" ELSE "quiet"

\* The settings without a zone change that is half made.
Whole == IF http.at = "online" THEN [settings EXCEPT !.zone[http.zone] = http.old]
         ELSE settings

NoReport == [at |-> "quiet", port |-> 0, status |-> 0, mode |-> 0,
             verdicts |-> {"quiet"}, changes |-> 0, zone_touched |-> FALSE]

TypeOK ==
  /\ settings \in Settings
  /\ file \in Files
  /\ http \in HttpPc
  /\ sensor \in SensorPc
  /\ rand_key \in NewKeys \cup {NoKey}
  /\ last_key_time \in {"old", "recent"}
  /\ reset \in BOOLEAN

Init ==
  /\ settings = Factory
  /\ file = NoFile
  /\ http = Idle
  /\ sensor = NoReport
  /\ rand_key = NoKey
  /\ last_key_time \in {"old", "recent"}  \* no constructor sets it
  /\ reset = FALSE

-----------------------------------------------------------------------------
(* The HTTP thread: a request changes the settings, then saves them.       *)

\* A complete change is seen by the check under way.
Noted(n) ==
  sensor' = IF Checking
            THEN [sensor EXCEPT
                    !.verdicts = @ \cup {Verdict(Whole', sensor.port, sensor.status)},
                    !.changes = IF @ + n > 2 THEN 2 ELSE @ + n]
            ELSE sensor

keyVars == <<rand_key, last_key_time>>

\* setSecZoneParams() fills in the fields of the zone one by one: normalstate ...
SetSecZoneParams(z, n, o) ==
  /\ http = Idle
  /\ settings' = [settings EXCEPT !.zone[z].normalstate = n]
  /\ http' = [at |-> "online", zone |-> z, online |-> o, old |-> settings.zone[z]]
  /\ sensor' = IF Checking /\ sensor.port = z THEN [sensor EXCEPT !.zone_touched = TRUE]
               ELSE sensor
  /\ reset' = FALSE
  /\ UNCHANGED <<file, keyVars>>

\* ... and online last.
SetZoneOnline ==
  /\ http.at = "online"
  /\ settings' = [settings EXCEPT !.zone[http.zone].online = http.online]
  /\ http' = [at |-> "open"]
  /\ Noted(0)
  /\ UNCHANGED <<file, keyVars, reset>>

\* Mutant: save_configs() is not called.
SetSecModeValueUnsaved(m, mask) ==
  /\ http = Idle
  /\ settings' = [settings EXCEPT !.mask[m] = mask]
  /\ Noted(1)
  /\ UNCHANGED <<file, http, keyVars, reset>>

SetSecModeValue(m, mask) ==
  /\ http = Idle
  /\ settings' = [settings EXCEPT !.mask[m] = mask]
  /\ http' = [at |-> "open"]
  /\ Noted(1)
  /\ UNCHANGED <<file, keyVars, reset>>

\* A mode out of range is taken as 0 before it gets here.
SetCurrentMode(m) ==
  /\ http = Idle
  /\ settings' = [settings EXCEPT !.mode_index = m]
  /\ http' = [at |-> "open"]
  /\ Noted(1)
  /\ UNCHANGED <<file, keyVars, reset>>

\* With the right old password; with a wrong one nothing happens.
SetPassword(p) ==
  /\ http = Idle
  /\ settings' = [settings EXCEPT !.password = p]
  /\ http' = [at |-> "open"]
  /\ UNCHANGED <<file, sensor, keyVars, reset>>

\* The ofstream of save_configs() empties the file ...
OpenFile ==
  /\ http.at = "open"
  /\ file' = [of |-> settings, lines |-> 0]
  /\ http' = [at |-> "write"]
  /\ UNCHANGED <<settings, sensor, keyVars, reset>>

\* Mutant: one line more than there is.
WriteLineOneMore ==
  /\ http.at = "write"
  /\ file' = [of |-> settings, lines |-> file.lines + 1]
  /\ http' = IF file.lines + 1 > LastLine THEN Idle ELSE http
  /\ UNCHANGED <<settings, sensor, keyVars, reset>>

\* ... and fills it; with the last line the request ends.
WriteLine ==
  /\ http.at = "write"
  /\ file' = [of |-> settings, lines |-> file.lines + 1]
  /\ http' = IF file.lines + 1 = LastLine THEN Idle ELSE http
  /\ UNCHANGED <<settings, sensor, keyVars, reset>>

\* The file is removed; reboot() has an empty body.
ResetParams ==
  /\ http = Idle
  /\ file' = NoFile
  /\ reset' = TRUE
  /\ UNCHANGED <<settings, http, sensor, keyVars>>

-----------------------------------------------------------------------------
(* The sensor thread: onSecZonePortStatus() and emergencyDetected().       *)

\* A report arrives; a zone that is not online is skipped.
ReadOnline(z, v) ==
  /\ sensor.at \in {"quiet", "raised"}
  /\ sensor' = [at |-> IF settings.zone[z].online THEN "normalstate" ELSE "quiet",
                port |-> z, status |-> v, mode |-> 0,
                verdicts |-> {Verdict(Whole, z, v)}, changes |-> 0,
                zone_touched |-> http.at = "online" /\ http.zone = z]
  /\ UNCHANGED <<settings, file, http, keyVars, reset>>

\* Mutant: the mode is not asked.
ReadNormalStateOnly ==
  /\ sensor.at = "normalstate"
  /\ sensor' = [sensor EXCEPT !.at = IF settings.zone[sensor.port].normalstate = sensor.status
                                     THEN "alarm" ELSE "quiet"]
  /\ UNCHANGED <<settings, file, http, keyVars, reset>>

ReadNormalState ==
  /\ sensor.at = "normalstate"
  /\ sensor' = [sensor EXCEPT !.at = IF settings.zone[sensor.port].normalstate = sensor.status
                                     THEN "mode" ELSE "quiet"]
  /\ UNCHANGED <<settings, file, http, keyVars, reset>>

\* currentMode() returns a reference to the mode of this moment ...
ReadMode ==
  /\ sensor.at = "mode"
  /\ sensor' = [sensor EXCEPT !.at = "mask", !.mode = settings.mode_index]
  /\ UNCHANGED <<settings, file, http, keyVars, reset>>

\* ... whose mask is read afterwards.
ReadMask ==
  /\ sensor.at = "mask"
  /\ sensor' = [sensor EXCEPT !.at = IF sensor.port \in settings.mask[sensor.mode]
                                     THEN "alarm" ELSE "quiet"]
  /\ UNCHANGED <<settings, file, http, keyVars, reset>>

\* A new key unless the last one is recent; last_rand_key_time_ is not updated.
EmergencyDetected(k) ==
  /\ sensor.at = "alarm"
  /\ sensor' = [sensor EXCEPT !.at = "raised"]
  /\ rand_key' = IF last_key_time = "old" THEN k ELSE rand_key
  /\ UNCHANGED <<settings, file, http, last_key_time, reset>>

-----------------------------------------------------------------------------
\* An hour passes over the time that is compared with.
HourPasses ==
  /\ last_key_time = "recent"
  /\ last_key_time' = "old"
  /\ UNCHANGED <<settings, file, http, sensor, rand_key, reset>>

\* The process dies and is started again: init() loads seczone.txt, then the file.
Restart ==
  /\ settings' = Restarted
  /\ http' = Idle
  /\ sensor' = NoReport
  /\ rand_key' = NoKey
  /\ last_key_time' \in {"old", "recent"}
  /\ reset' = FALSE
  /\ UNCHANGED file

Next ==
  \/ \E z \in Zone, n \in Level, o \in BOOLEAN : SetSecZoneParams(z, n, o)
  \/ SetZoneOnline
  \/ \E m \in Mode, mask \in Masks : SetSecModeValue(m, mask)
  \/ \E m \in Mode : SetCurrentMode(m)
  \/ \E p \in Passwords : SetPassword(p)
  \/ OpenFile
  \/ WriteLine
  \/ ResetParams
  \/ \E r \in Reports : ReadOnline(r[1], r[2])
  \/ ReadNormalState
  \/ ReadMode
  \/ ReadMask
  \/ \E k \in NewKeys : EmergencyDetected(k)
  \/ HourPasses
  \/ Restart

Spec == Init /\ [][Next]_vars
-----------------------------------------------------------------------------
(* What should hold.                                                       *)

\* Equal up to the blanks of the password.
Same(s, t) ==
  /\ s.zone = t.zone
  /\ s.mask = t.mask
  /\ s.mode_index = t.mode_index
  /\ s.password = Reread(t.password, FactoryPassword)

\* Between two requests, a restart brings back the settings in force: every change
\* of save_configs() callers has reached the file, and load_configs() reads each
\* value it wrote.  A reset leaves the file and the memory apart until a zone is set.
RestartKeepsSettings == http = Idle /\ ~reset => Same(Restarted, settings)

\* Whenever the process dies, be it in the middle of writing seczone.user, the
\* restarted one raises no alarm the settings before would not have raised: what is
\* missing of a file can only disarm.  It rests on the order of the lines: the modes
\* before the zones, a zone's normalstate before its online.  (Exempt is the moment
\* a change is in memory and the old file still in place.)
RestartArmsNothing ==
  http.at \in {"idle", "write"} =>
    \A z \in Zone, v \in Level : Fires(Restarted, z, v) => Fires(settings, z, v)

\* A check that overlaps no setting of its zone and at most one change of the mode or
\* a mask decides as the settings before or after that change do, although it reads
\* them one by one without a lock.
DecisionMatches ==
  ~Checking /\ ~sensor.zone_touched /\ sensor.changes <= 1 =>
    (IF sensor.at \in {"alarm", "raised"} THEN "alarm" ELSE "quiet") \in sensor.verdicts

\* seczone.cpp:443 skips a zone that is bypassed: an alarm comes from settings that,
\* at some time of the check, were in force together.
AlarmFromOneConfiguration == sensor.at = "raised" => "alarm" \in sensor.verdicts

=============================================================================
