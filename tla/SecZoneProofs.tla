---------------------------- MODULE SecZoneProofs ---------------------------
(***************************************************************************)
(* Theorems about SecZone, for any number of zones and modes, any masks,   *)
(* passwords, reports and keys.                                            *)
(***************************************************************************)
EXTENDS SecZone, TLAPS

\* What the file holds next to the memory: while it is written, the settings in
\* force; between two requests all of them, unless a reset removed it.
FileInv ==
  /\ http.at = "write" => file.of = settings /\ file.lines < LastLine
  /\ http.at = "idle" => Same(Restarted, settings) \/ (reset /\ file = NoFile)

\* What a check under way has found, as long as its zone is not touched: the
\* settings of the moment are among its verdicts, and once the mode is captured, so
\* is the mask it is going to read, unless two changes met it.
CheckInv ==
  /\ DecisionMatches
  /\ Checking /\ ~sensor.zone_touched =>
       /\ settings.zone[sensor.port].online
       /\ http.at = "online" => http.zone # sensor.port
       /\ sensor.at \in {"mode", "mask"} =>
            settings.zone[sensor.port].normalstate = sensor.status
       /\ sensor.at \in {"normalstate", "mode"} =>
            Verdict(settings, sensor.port, sensor.status) \in sensor.verdicts
       /\ sensor.at = "mask" /\ sensor.changes = 0 => sensor.mode = settings.mode_index
       /\ sensor.at = "mask" /\ sensor.changes <= 1 =>
            (IF sensor.port \in settings.mask[sensor.mode] THEN "alarm" ELSE "quiet")
              \in sensor.verdicts

-----------------------------------------------------------------------------
(* Types.                                                                  *)

\* Loading a file gives settings.
LEMMA LoadType ==
  ASSUME NEW b \in Settings, NEW f \in Files
  PROVE  Load(b, f) \in Settings
<1>1. b.password \in Passwords /\ f.of.password \in Passwords
  BY DEF Settings, Files
<1>2. Reread(f.of.password, b.password) \in Passwords
  BY <1>1, SecZoneAssumption DEF Reread
<1>3. [m \in Mode |-> IF ~Written(f, ModeNumLine) THEN b.mask[m]
                      ELSE IF Written(f, MaskLine(m)) THEN f.of.mask[m] ELSE {}]
        \in [Mode -> SUBSET Zone]
  BY DEF Settings, Files
<1>4. [z \in Zone |-> IF ~Written(f, ZoneNumLine) THEN b.zone[z]
                      ELSE [normalstate |-> IF Written(f, NormalLine(z))
                                            THEN f.of.zone[z].normalstate ELSE 0,
                            online |-> Written(f, OnlineLine(z)) /\ f.of.zone[z].online]]
        \in [Zone -> ZoneConf]
  <2> SUFFICES ASSUME NEW z \in Zone
               PROVE (IF ~Written(f, ZoneNumLine) THEN b.zone[z]
                      ELSE [normalstate |-> IF Written(f, NormalLine(z))
                                            THEN f.of.zone[z].normalstate ELSE 0,
                            online |-> Written(f, OnlineLine(z)) /\ f.of.zone[z].online])
                     \in ZoneConf
    OBVIOUS
  <2>1. b.zone[z] \in ZoneConf /\ f.of.zone[z] \in ZoneConf
    BY DEF Settings, Files
  <2>2. (Written(f, OnlineLine(z)) /\ f.of.zone[z].online) \in BOOLEAN
    OBVIOUS
  <2>3. (IF Written(f, NormalLine(z)) THEN f.of.zone[z].normalstate ELSE 0) \in Level
    BY <2>1 DEF ZoneConf, Level
  <2> QED
    BY <2>1, <2>2, <2>3 DEF ZoneConf
<1>5. (IF Written(f, IndexLine) THEN f.of.mode_index ELSE b.mode_index) \in Mode
  BY DEF Settings, Files
<1> QED
  BY <1>1, <1>2, <1>3, <1>4, <1>5 DEF Load, Settings

\* The factory settings and the missing file are of their types.
LEMMA FactoryType == Factory \in Settings /\ NoFile \in Files
<1>1. 0 \in Mode
  BY SecZoneAssumption DEF Mode
<1>2. LastLine \in Nat
  BY SecZoneAssumption DEF LastLine
<1>3. Factory \in Settings
  BY <1>1, SecZoneAssumption DEF Factory, Settings, ZoneConf, Level
<1> QED
  BY <1>2, <1>3 DEF NoFile, Files

\* The first report of the sensor thread is of its type.
LEMMA NoReportType == NoReport \in SensorPc
<1>1. 0 \in Mode /\ 0 \in Zone
  BY SecZoneAssumption DEF Mode, Zone
<1> QED
  BY <1>1 DEF NoReport, SensorPc, Level

\* Noting a change keeps the sensor's type.
LEMMA NotedType ==
  ASSUME TypeOK, NEW n \in 0 .. 1, Noted(n)
  PROVE  sensor' \in SensorPc
<1>1. Verdict(Whole', sensor.port, sensor.status) \in {"alarm", "quiet"}
  BY DEF Verdict
<1>2. CASE Checking
  <2>1. sensor.changes \in 0 .. 2 /\ sensor.verdicts \in SUBSET {"alarm", "quiet"}
    BY DEF TypeOK, SensorPc
  <2>2. (IF sensor.changes + n > 2 THEN 2 ELSE sensor.changes + n) \in 0 .. 2
    BY <2>1
  <2>3. sensor.verdicts \cup {Verdict(Whole', sensor.port, sensor.status)} \in SUBSET {"alarm", "quiet"}
    BY <1>1, <2>1
  <2>4. sensor' = [sensor EXCEPT
                     !.verdicts = sensor.verdicts \cup {Verdict(Whole', sensor.port, sensor.status)},
                     !.changes = IF sensor.changes + n > 2 THEN 2 ELSE sensor.changes + n]
    BY <1>2 DEF Noted
  <2> QED
    BY <2>2, <2>3, <2>4 DEF TypeOK, SensorPc
<1>3. CASE ~Checking
  BY <1>3 DEF TypeOK, Noted
<1> QED
  BY <1>2, <1>3

-----------------------------------------------------------------------------
(* Types are kept.                                                         *)

LEMMA TypeStep == TypeOK /\ FileInv /\ [Next]_vars => TypeOK'
<1> SUFFICES ASSUME TypeOK, FileInv, [Next]_vars
             PROVE  TypeOK'
  OBVIOUS
<1> USE SecZoneAssumption
<1>1. LastLine \in Nat /\ Idle \in HttpPc
  BY DEF LastLine, HttpPc
<1>2. ASSUME NEW z \in Zone, NEW n \in Level, NEW o \in BOOLEAN, SetSecZoneParams(z, n, o)
      PROVE  TypeOK'
  <2>1. settings' \in Settings
    BY <1>2 DEF SetSecZoneParams, TypeOK, Settings, ZoneConf
  <2>2. http' \in HttpPc
    BY <1>2 DEF SetSecZoneParams, TypeOK, Settings, HttpPc
  <2>3. sensor' \in SensorPc
    BY <1>2 DEF SetSecZoneParams, TypeOK, SensorPc
  <2> QED
    BY <1>2, <2>1, <2>2, <2>3 DEF SetSecZoneParams, TypeOK, keyVars
<1>3. CASE SetZoneOnline
  <2>1. http.zone \in Zone /\ http.online \in BOOLEAN
    BY <1>3 DEF SetZoneOnline, TypeOK, HttpPc, Idle
  <2>2. settings' \in Settings
    <3>1. settings.zone \in [Zone -> ZoneConf]
      BY DEF TypeOK, Settings
    <3>2. [settings.zone[http.zone] EXCEPT !.online = http.online] \in ZoneConf
      BY <2>1, <3>1 DEF ZoneConf
    <3>3. [settings.zone EXCEPT ![http.zone].online = http.online] \in [Zone -> ZoneConf]
      BY <2>1, <3>1, <3>2
    <3> QED
      BY <1>3, <3>3 DEF SetZoneOnline, TypeOK, Settings
  <2>3. http' \in HttpPc
    BY <1>3 DEF SetZoneOnline, HttpPc
  <2>4. sensor' \in SensorPc
    BY <1>3, NotedType DEF SetZoneOnline
  <2> QED
    BY <1>3, <2>2, <2>3, <2>4 DEF SetZoneOnline, TypeOK, keyVars
<1>4. ASSUME NEW m \in Mode, NEW mask \in Masks, SetSecModeValue(m, mask)
      PROVE  TypeOK'
  <2>1. settings' \in Settings
    BY <1>4 DEF SetSecModeValue, TypeOK, Settings
  <2>2. http' \in HttpPc
    BY <1>4 DEF SetSecModeValue, HttpPc
  <2>3. sensor' \in SensorPc
    BY <1>4, NotedType DEF SetSecModeValue
  <2> QED
    BY <1>4, <2>1, <2>2, <2>3 DEF SetSecModeValue, TypeOK, keyVars
<1>5. ASSUME NEW m \in Mode, SetCurrentMode(m)
      PROVE  TypeOK'
  <2>1. settings' \in Settings
    BY <1>5 DEF SetCurrentMode, TypeOK, Settings
  <2>2. http' \in HttpPc
    BY <1>5 DEF SetCurrentMode, HttpPc
  <2>3. sensor' \in SensorPc
    BY <1>5, NotedType DEF SetCurrentMode
  <2> QED
    BY <1>5, <2>1, <2>2, <2>3 DEF SetCurrentMode, TypeOK, keyVars
<1>6. ASSUME NEW p \in Passwords, SetPassword(p)
      PROVE  TypeOK'
  BY <1>6 DEF SetPassword, TypeOK, Settings, HttpPc, keyVars
<1>7. CASE OpenFile
  BY <1>1, <1>7 DEF OpenFile, TypeOK, Files, HttpPc, keyVars
<1>8. CASE WriteLine
  <2>1. file' \in Files /\ http' \in HttpPc
    BY <1>1, <1>8 DEF WriteLine, TypeOK, FileInv, Files
  <2> QED
    BY <1>8, <2>1 DEF WriteLine, TypeOK, keyVars
<1>9. CASE ResetParams
  BY <1>9, FactoryType DEF ResetParams, TypeOK, keyVars
<1>10. ASSUME NEW r \in Reports, ReadOnline(r[1], r[2])
       PROVE  TypeOK'
  <2>1. r[1] \in Zone /\ r[2] \in Level /\ 0 \in Mode
    BY DEF Mode
  <2>2. Verdict(Whole, r[1], r[2]) \in {"alarm", "quiet"}
    BY DEF Verdict
  <2>3. (http.at = "online" /\ http.zone = r[1]) \in BOOLEAN
    OBVIOUS
  <2>4. sensor' \in SensorPc
    BY <1>10, <2>1, <2>2, <2>3 DEF ReadOnline, SensorPc
  <2> QED
    BY <1>10, <2>4 DEF ReadOnline, TypeOK, keyVars
<1>11. CASE ReadNormalState
  BY <1>11 DEF ReadNormalState, TypeOK, SensorPc, keyVars
<1>12. CASE ReadMode
  BY <1>12 DEF ReadMode, TypeOK, SensorPc, Settings, keyVars
<1>13. CASE ReadMask
  BY <1>13 DEF ReadMask, TypeOK, SensorPc, keyVars
<1>14. ASSUME NEW k \in NewKeys, EmergencyDetected(k)
       PROVE  TypeOK'
  BY <1>14 DEF EmergencyDetected, TypeOK, SensorPc
<1>15. CASE HourPasses
  BY <1>15 DEF HourPasses, TypeOK
<1>16. CASE Restart
  <2>1. settings' \in Settings
    BY <1>16, FactoryType, LoadType DEF Restart, Restarted, TypeOK
  <2> QED
    BY <1>1, <1>16, <2>1, NoReportType DEF Restart, TypeOK
<1>17. CASE UNCHANGED vars
  BY <1>17 DEF vars, TypeOK
<1> QED
  BY <1>2, <1>3, <1>4, <1>5, <1>6, <1>7, <1>8, <1>9, <1>10, <1>11, <1>12, <1>13, <1>14,
     <1>15, <1>16, <1>17 DEF Next

-----------------------------------------------------------------------------
(* What a file gives back.                                                 *)

\* Reading a password back a second time changes nothing.
LEMMA RereadTwice ==
  ASSUME NEW p \in Passwords
  PROVE  /\ Reread(p, FactoryPassword) \in Passwords
         /\ Reread(Reread(p, FactoryPassword), FactoryPassword) = Reread(p, FactoryPassword)
         /\ Reread(FactoryPassword, FactoryPassword) = FactoryPassword
BY SecZoneAssumption DEF Reread

\* The lines are numbered from 1 to LastLine, the modes before the zones, and the
\* online of a zone after everything else of it.
LEMMA LineOrder ==
  ASSUME NEW z \in Zone, NEW m \in Mode
  PROVE  /\ PasswordLine \in 1 .. LastLine
         /\ ModeNumLine \in 1 .. OnlineLine(z)
         /\ IndexLine \in 1 .. OnlineLine(z)
         /\ MaskLine(m) \in 1 .. OnlineLine(z)
         /\ ZoneNumLine \in 1 .. OnlineLine(z)
         /\ NormalLine(z) \in 1 .. OnlineLine(z)
         /\ OnlineLine(z) \in 1 .. LastLine
BY SecZoneAssumption DEF Zone, Mode, PasswordLine, ModeNumLine, IndexLine, MaskLine,
     ZoneNumLine, NormalLine, OnlineLine, LastLine

\* A complete file gives its settings back, a missing one the factory's.
LEMMA CompleteFile ==
  ASSUME NEW f \in Files, f.lines = LastLine
  PROVE  Same(Load(Factory, f), f.of)
<1> USE LineOrder
<1>1. LastLine \in Nat /\ 0 \in Zone /\ 0 \in Mode
  BY SecZoneAssumption DEF LastLine, Zone, Mode
<1>2. Written(f, PasswordLine) /\ Written(f, ModeNumLine) /\ Written(f, IndexLine)
      /\ Written(f, ZoneNumLine)
  BY <1>1 DEF Written
<1>3. \A m \in Mode : Written(f, MaskLine(m))
  BY <1>1 DEF Written
<1>4. \A z \in Zone : Written(f, NormalLine(z)) /\ Written(f, OnlineLine(z))
  BY <1>1 DEF Written
<1>5. Load(Factory, f).zone = f.of.zone
  <2>1. f.of.zone \in [Zone -> ZoneConf]
    BY DEF Files, Settings
  <2>2. \A z \in Zone : Load(Factory, f).zone[z] =
          [normalstate |-> f.of.zone[z].normalstate, online |-> f.of.zone[z].online]
    BY <1>2, <1>4, <2>1 DEF Load, ZoneConf
  <2>3. \A z \in Zone : f.of.zone[z] =
          [normalstate |-> f.of.zone[z].normalstate, online |-> f.of.zone[z].online]
    BY <2>1 DEF ZoneConf
  <2> QED
    BY <2>1, <2>2, <2>3 DEF Load
<1>6. Load(Factory, f).mask = f.of.mask
  BY <1>2, <1>3 DEF Load, Files, Settings
<1>7. Load(Factory, f).mode_index = f.of.mode_index
  BY <1>2 DEF Load
<1>8. Load(Factory, f).password = Reread(f.of.password, FactoryPassword)
  BY <1>2 DEF Load, Factory
<1> QED
  BY <1>5, <1>6, <1>7, <1>8 DEF Same

LEMMA MissingFile == Load(Factory, NoFile) = Factory
<1> USE LineOrder
<1>1. 0 \in Zone /\ 0 \in Mode
  BY SecZoneAssumption DEF Zone, Mode
<1>2. ~Written(NoFile, PasswordLine) /\ ~Written(NoFile, ModeNumLine)
      /\ ~Written(NoFile, IndexLine) /\ ~Written(NoFile, ZoneNumLine)
  BY <1>1 DEF Written, NoFile
<1> QED
  BY <1>2 DEF Load, Factory

\* No file makes an alarm fire that the settings it was written from would not.
LEMMA PrefixArmsNothing ==
  ASSUME NEW f \in Files, NEW z \in Zone, NEW v \in Level,
         Fires(Load(Factory, f), z, v)
  PROVE  Fires(f.of, z, v)
<1> USE LineOrder
<1>1. f.lines \in Nat /\ LastLine \in Nat
  BY SecZoneAssumption DEF Files, LastLine
<1>2. Written(f, OnlineLine(z)) /\ f.of.zone[z].online
  <2>1. Load(Factory, f).zone[z].online
    BY DEF Fires
  <2>2. ~Factory.zone[z].online
    BY DEF Factory
  <2> QED
    BY <2>1, <2>2 DEF Load
<1>3. 0 \in Mode
  BY SecZoneAssumption DEF Mode
<1>4. Written(f, ModeNumLine) /\ Written(f, IndexLine) /\ Written(f, ZoneNumLine)
      /\ Written(f, NormalLine(z)) /\ \A m \in Mode : Written(f, MaskLine(m))
  BY <1>1, <1>2, <1>3 DEF Written
<1>5. Load(Factory, f).zone[z].normalstate = f.of.zone[z].normalstate
  BY <1>4 DEF Load
<1>6. Load(Factory, f).mode_index = f.of.mode_index
  BY <1>4 DEF Load
<1>7. f.of.mode_index \in Mode
  BY DEF Files, Settings
<1>8. Load(Factory, f).mask[f.of.mode_index] = f.of.mask[f.of.mode_index]
  BY <1>4, <1>7 DEF Load
<1> QED
  BY <1>2, <1>5, <1>6, <1>8 DEF Fires

-----------------------------------------------------------------------------
(* File and memory.                                                        *)

LEMMA FileStep == TypeOK /\ FileInv /\ [Next]_vars => FileInv'
<1> SUFFICES ASSUME TypeOK, FileInv, [Next]_vars
             PROVE  FileInv'
  OBVIOUS
<1>1. LastLine \in Nat /\ LastLine > 0
  BY SecZoneAssumption DEF LastLine
<1>2. ASSUME UNCHANGED <<settings, file, http, reset>>
      PROVE  FileInv'
  BY <1>2 DEF FileInv, Restarted
<1>3. ASSUME NEW z \in Zone, NEW n \in Level, NEW o \in BOOLEAN, SetSecZoneParams(z, n, o)
      PROVE  FileInv'
  BY <1>3 DEF SetSecZoneParams, FileInv
<1>4. CASE SetZoneOnline
  BY <1>4 DEF SetZoneOnline, FileInv
<1>5. ASSUME NEW m \in Mode, NEW mask \in Masks, SetSecModeValue(m, mask)
      PROVE  FileInv'
  BY <1>5 DEF SetSecModeValue, FileInv
<1>6. ASSUME NEW m \in Mode, SetCurrentMode(m)
      PROVE  FileInv'
  BY <1>6 DEF SetCurrentMode, FileInv
<1>7. ASSUME NEW p \in Passwords, SetPassword(p)
      PROVE  FileInv'
  BY <1>7 DEF SetPassword, FileInv
<1>8. CASE OpenFile
  BY <1>1, <1>8 DEF OpenFile, FileInv
<1>9. CASE WriteLine
  <2>1. CASE file.lines + 1 = LastLine
    <3>1. file' \in Files /\ file'.lines = LastLine /\ file'.of = settings'
      BY <1>9, <2>1, <1>1 DEF WriteLine, TypeOK, Files
    <3>2. Same(Restarted', settings')
      BY <3>1, CompleteFile DEF Restarted
    <3> QED
      BY <1>9, <2>1, <3>2 DEF WriteLine, FileInv, Idle
  <2>2. CASE file.lines + 1 # LastLine
    BY <1>1, <1>9, <2>2 DEF WriteLine, FileInv, TypeOK, Files
  <2> QED
    BY <2>1, <2>2
<1>10. CASE ResetParams
  BY <1>10 DEF ResetParams, FileInv, Idle
<1>11. CASE Restart
  <2>1. Same(Restarted, Restarted)
    <3>1. file \in Files /\ file.of.password \in Passwords
      BY DEF TypeOK, Files, Settings
    <3>2. Restarted.password \in {Reread(file.of.password, FactoryPassword), FactoryPassword}
      BY DEF Restarted, Load, Factory
    <3> QED
      BY <3>1, <3>2, RereadTwice, SecZoneAssumption DEF Same
  <2> QED
    BY <1>11, <2>1 DEF Restart, FileInv, Idle, Restarted
<1> QED
  BY <1>2, <1>3, <1>4, <1>5, <1>6, <1>7, <1>8, <1>9, <1>10, <1>11
  DEF Next, vars, keyVars, ReadOnline, ReadNormalState, ReadMode, ReadMask,
      EmergencyDetected, HourPasses

\* The invariant holds in every reachable state.
LEMMA FileInvariant == Spec => [](TypeOK /\ FileInv)
<1>1. Init => TypeOK
  BY FactoryType, NoReportType DEF Init, TypeOK, HttpPc
<1>2. Init => FileInv
  <2>1. Same(Factory, Factory)
    BY RereadTwice, SecZoneAssumption DEF Same, Factory
  <2> QED
    BY <2>1, MissingFile DEF Init, FileInv, Restarted, Idle
<1> QED
  BY <1>1, <1>2, TypeStep, FileStep, PTL DEF Spec

\* TypeOK: a file never has more lines than save_configs() writes, and what
\* load_configs() makes of any of its prefixes is again a complete set of settings.
THEOREM TypeCorrect == Spec => []TypeOK
BY FileInvariant, PTL

\* RestartKeepsSettings: between two requests a restart brings back the settings in
\* force, for any number of zones and modes.
THEOREM SettingsSurvive == Spec => []RestartKeepsSettings
<1>1. TypeOK /\ FileInv => RestartKeepsSettings
  BY DEF FileInv, RestartKeepsSettings, Idle
<1> QED
  BY <1>1, FileInvariant, PTL

\* RestartArmsNothing: a crash at any line of the file can only disarm.
THEOREM RestartIsQuiet == Spec => []RestartArmsNothing
<1>1. TypeOK /\ FileInv => RestartArmsNothing
  <2> SUFFICES ASSUME TypeOK, FileInv, http.at \in {"idle", "write"},
                      NEW z \in Zone, NEW v \in Level, Fires(Restarted, z, v)
               PROVE  Fires(settings, z, v)
    BY DEF RestartArmsNothing
  <2>1. CASE http.at = "write"
    BY <2>1, PrefixArmsNothing DEF FileInv, Restarted, TypeOK
  <2>2. CASE http.at = "idle" /\ Same(Restarted, settings)
    BY <2>2 DEF Same, Fires
  <2>3. CASE file = NoFile
    BY <2>3, MissingFile DEF Restarted, Fires, Factory
  <2> QED
    BY <2>1, <2>2, <2>3 DEF FileInv
<1> QED
  BY <1>1, FileInvariant, PTL

-----------------------------------------------------------------------------
(* Checks and changes.                                                     *)

\* A zone change that is half made concerns that zone only.
LEMMA WholeFires ==
  ASSUME TypeOK, NEW z \in Zone, NEW v \in Level, ~(http.at = "online" /\ http.zone = z)
  PROVE  Verdict(Whole, z, v) = Verdict(settings, z, v)
<1>1. Whole.mask = settings.mask /\ Whole.mode_index = settings.mode_index
  BY DEF Whole, TypeOK, Settings
<1>2. Whole.zone[z] = settings.zone[z]
  BY DEF Whole, TypeOK, Settings
<1> QED
  BY <1>1, <1>2 DEF Fires, Verdict

LEMMA CheckStep == TypeOK /\ CheckInv /\ [Next]_vars => CheckInv'
<1> SUFFICES ASSUME TypeOK, CheckInv, [Next]_vars
             PROVE  CheckInv'
  OBVIOUS
<1>a. /\ sensor.port \in Zone /\ sensor.status \in Level /\ sensor.mode \in Mode
      /\ sensor.changes \in 0 .. 2 /\ sensor.verdicts \in SUBSET {"alarm", "quiet"}
      /\ sensor \in SensorPc
  BY DEF TypeOK, SensorPc
<1>1. ASSUME UNCHANGED <<settings, http, sensor>>
      PROVE  CheckInv'
  BY <1>1 DEF CheckInv, DecisionMatches, Checking, Fires, Verdict
<1>2. ASSUME NEW z \in Zone, NEW n \in Level, NEW o \in BOOLEAN, SetSecZoneParams(z, n, o)
      PROVE  CheckInv'
  <2>1. CASE ~Checking
    BY <1>2, <2>1 DEF SetSecZoneParams, CheckInv, DecisionMatches, Checking
  <2>2. CASE Checking /\ sensor.port = z
    BY <1>2, <2>2, <1>a DEF SetSecZoneParams, CheckInv, DecisionMatches, Checking, SensorPc
  <2>3. CASE Checking /\ sensor.port # z
    <3>1. /\ settings'.zone[sensor.port] = settings.zone[sensor.port]
          /\ settings'.mask = settings.mask /\ settings'.mode_index = settings.mode_index
          /\ http'.zone # sensor.port /\ sensor' = sensor
      BY <1>2, <2>3, <1>a DEF SetSecZoneParams, TypeOK, Settings
    <3> QED
      BY <2>3, <3>1 DEF CheckInv, DecisionMatches, Checking, Fires, Verdict
  <2> QED
    BY <2>1, <2>2, <2>3
<1>3. CASE SetZoneOnline
  <2>1. CASE ~Checking
    BY <1>3, <2>1 DEF SetZoneOnline, Noted, CheckInv, DecisionMatches, Checking
  <2>2. CASE Checking /\ sensor.zone_touched
    BY <1>3, <2>2, <1>a DEF SetZoneOnline, Noted, CheckInv, DecisionMatches, Checking, SensorPc
  <2>3. CASE Checking /\ ~sensor.zone_touched
    <3>1. http.zone # sensor.port
      BY <1>3, <2>3 DEF SetZoneOnline, CheckInv
    <3>2. /\ settings'.zone[sensor.port] = settings.zone[sensor.port]
          /\ settings'.mask = settings.mask /\ settings'.mode_index = settings.mode_index
          /\ http'.at = "open"
      BY <1>3, <3>1, <1>a DEF SetZoneOnline, TypeOK, Settings
    <3>3. /\ sensor'.at = sensor.at /\ sensor'.port = sensor.port
          /\ sensor'.status = sensor.status /\ sensor'.mode = sensor.mode
          /\ sensor'.zone_touched = sensor.zone_touched
          /\ sensor'.changes = sensor.changes
          /\ sensor.verdicts \subseteq sensor'.verdicts
      BY <1>3, <2>3, <1>a DEF SetZoneOnline, Noted, SensorPc
    <3> QED
      BY <2>3, <3>2, <3>3 DEF CheckInv, DecisionMatches, Checking, Fires, Verdict
  <2> QED
    BY <2>1, <2>2, <2>3
<1>4. ASSUME settings'.zone = settings.zone, http'.at = "open", Noted(1),
             settings'.mode_index = settings.mode_index \/ settings'.mask = settings.mask
      PROVE  CheckInv'
  <2>1. CASE ~Checking
    BY <1>4, <2>1 DEF Noted, CheckInv, DecisionMatches, Checking
  <2>2. CASE Checking
    <3>1. Whole' = settings'
      BY <1>4 DEF Whole
    <3>2. /\ sensor'.at = sensor.at /\ sensor'.port = sensor.port
          /\ sensor'.status = sensor.status /\ sensor'.mode = sensor.mode
          /\ sensor'.zone_touched = sensor.zone_touched
          /\ sensor'.changes = IF sensor.changes + 1 > 2 THEN 2 ELSE sensor.changes + 1
          /\ sensor'.verdicts = sensor.verdicts
                                  \cup {Verdict(settings', sensor.port, sensor.status)}
      BY <1>4, <2>2, <3>1, <1>a DEF Noted, SensorPc
    <3>3. Verdict(settings', sensor.port, sensor.status) \in sensor'.verdicts
      BY <3>2
    <3>4. ASSUME sensor.at = "mask", ~sensor.zone_touched, sensor'.changes <= 1
          PROVE  (IF sensor.port \in settings'.mask[sensor.mode] THEN "alarm" ELSE "quiet")
                   \in sensor'.verdicts
      <4>1. sensor.changes = 0 /\ sensor.mode = settings.mode_index
        BY <2>2, <3>2, <3>4, <1>a DEF CheckInv, Checking
      <4>2. CASE settings'.mask = settings.mask
        BY <2>2, <3>2, <3>4, <4>1, <4>2 DEF CheckInv, Checking
      <4>3. CASE settings'.mode_index = settings.mode_index
        <5>1. Verdict(settings', sensor.port, sensor.status)
                = (IF sensor.port \in settings'.mask[sensor.mode] THEN "alarm" ELSE "quiet")
          BY <1>4, <2>2, <3>4, <4>1, <4>3 DEF Fires, Verdict, CheckInv, Checking
        <5> QED
          BY <3>2, <5>1
      <4> QED
        BY <1>4, <4>2, <4>3
    <3> QED
      BY <1>4, <2>2, <3>2, <3>3, <3>4, <1>a DEF CheckInv, DecisionMatches, Checking
  <2> QED
    BY <2>1, <2>2
<1>5. ASSUME NEW r \in Reports, ReadOnline(r[1], r[2])
      PROVE  CheckInv'
  <2>1. r[1] \in Zone /\ r[2] \in Level
    BY SecZoneAssumption
  <2>2. /\ sensor'.at = (IF settings.zone[r[1]].online THEN "normalstate" ELSE "quiet")
        /\ sensor'.port = r[1] /\ sensor'.status = r[2]
        /\ sensor'.verdicts = {Verdict(Whole, r[1], r[2])}
        /\ sensor'.zone_touched = (http.at = "online" /\ http.zone = r[1])
        /\ UNCHANGED <<settings, http>>
    BY <1>5 DEF ReadOnline
  <2>3. CASE http.at = "online" /\ http.zone = r[1]
    BY <2>2, <2>3 DEF CheckInv, DecisionMatches
  <2>4. CASE ~(http.at = "online" /\ http.zone = r[1])
    <3>1. Verdict(Whole, r[1], r[2]) = Verdict(settings, r[1], r[2])
      BY <2>1, <2>4, WholeFires
    <3>2. CASE settings.zone[r[1]].online
      BY <2>2, <2>4, <3>1, <3>2 DEF CheckInv, DecisionMatches, Checking, Fires, Verdict
    <3>3. CASE ~settings.zone[r[1]].online
      <4>1. Verdict(settings, r[1], r[2]) = "quiet"
        BY <3>3 DEF Fires, Verdict
      <4> QED
        BY <2>2, <3>1, <3>3, <4>1 DEF CheckInv, DecisionMatches, Checking
    <3> QED
      BY <3>2, <3>3
  <2> QED
    BY <2>3, <2>4
<1>7. CASE ReadNormalState
  <2>1. /\ sensor'.at = (IF settings.zone[sensor.port].normalstate = sensor.status
                         THEN "mode" ELSE "quiet")
        /\ sensor'.port = sensor.port /\ sensor'.status = sensor.status
        /\ sensor'.verdicts = sensor.verdicts /\ sensor'.changes = sensor.changes
        /\ sensor'.zone_touched = sensor.zone_touched
        /\ sensor.at = "normalstate" /\ UNCHANGED <<settings, http>>
    BY <1>7, <1>a DEF ReadNormalState, SensorPc
  <2>2. CASE settings.zone[sensor.port].normalstate = sensor.status
    BY <2>1, <2>2 DEF CheckInv, DecisionMatches, Checking, Fires, Verdict
  <2>3. CASE settings.zone[sensor.port].normalstate # sensor.status
    <3>1. Verdict(settings, sensor.port, sensor.status) = "quiet"
      BY <2>3 DEF Fires, Verdict
    <3> QED
      BY <2>1, <2>3, <3>1 DEF CheckInv, DecisionMatches, Checking
  <2> QED
    BY <2>2, <2>3
<1>8. CASE ReadMode
  <2>1. /\ sensor'.at = "mask" /\ sensor'.mode = settings.mode_index
        /\ sensor'.port = sensor.port /\ sensor'.status = sensor.status
        /\ sensor'.verdicts = sensor.verdicts /\ sensor'.changes = sensor.changes
        /\ sensor'.zone_touched = sensor.zone_touched
        /\ sensor.at = "mode" /\ UNCHANGED <<settings, http>>
    BY <1>8, <1>a DEF ReadMode, SensorPc
  <2>2. ~sensor.zone_touched =>
          Verdict(settings, sensor.port, sensor.status)
            = IF sensor.port \in settings.mask[settings.mode_index] THEN "alarm" ELSE "quiet"
    BY <2>1 DEF CheckInv, Checking, Fires, Verdict
  <2> QED
    BY <2>1, <2>2 DEF CheckInv, DecisionMatches, Checking
<1>9. CASE ReadMask
  <2>1. /\ sensor'.at = (IF sensor.port \in settings.mask[sensor.mode] THEN "alarm" ELSE "quiet")
        /\ sensor'.port = sensor.port /\ sensor'.status = sensor.status
        /\ sensor'.verdicts = sensor.verdicts /\ sensor'.changes = sensor.changes
        /\ sensor'.zone_touched = sensor.zone_touched
        /\ sensor.at = "mask" /\ UNCHANGED <<settings, http>>
    BY <1>9, <1>a DEF ReadMask, SensorPc
  <2> QED
    BY <2>1 DEF CheckInv, DecisionMatches, Checking
<1>10. ASSUME NEW k \in NewKeys, EmergencyDetected(k)
       PROVE  CheckInv'
  <2>1. /\ sensor.at = "alarm" /\ sensor'.at = "raised"
        /\ sensor'.verdicts = sensor.verdicts /\ sensor'.changes = sensor.changes
        /\ sensor'.zone_touched = sensor.zone_touched
    BY <1>10, <1>a DEF EmergencyDetected, SensorPc
  <2> QED
    BY <2>1 DEF CheckInv, DecisionMatches, Checking
<1>11. ASSUME sensor' = NoReport
       PROVE  CheckInv'
  BY <1>11 DEF NoReport, CheckInv, DecisionMatches, Checking
<1>12. ASSUME NEW m \in Mode, NEW mask \in Masks, SetSecModeValue(m, mask)
       PROVE  CheckInv'
  BY <1>4, <1>12 DEF SetSecModeValue, TypeOK, Settings
<1>13. ASSUME NEW m \in Mode, SetCurrentMode(m)
       PROVE  CheckInv'
  BY <1>4, <1>13 DEF SetCurrentMode, TypeOK, Settings
<1>14. ASSUME NEW p \in Passwords, SetPassword(p)
       PROVE  CheckInv'
  <2>1. /\ settings'.zone = settings.zone /\ settings'.mask = settings.mask
        /\ settings'.mode_index = settings.mode_index
        /\ http'.at = "open" /\ sensor' = sensor
    BY <1>14 DEF SetPassword, TypeOK, Settings
  <2> QED
    BY <2>1 DEF CheckInv, DecisionMatches, Checking, Fires, Verdict
<1>15. ASSUME settings' = settings, sensor' = sensor, http'.at # "online"
       PROVE  CheckInv'
  BY <1>15 DEF CheckInv, DecisionMatches, Checking, Fires, Verdict
<1>16. CASE OpenFile
  BY <1>15, <1>16 DEF OpenFile
<1>17. CASE WriteLine
  BY <1>15, <1>17 DEF WriteLine, Idle
<1> QED
  BY <1>1, <1>2, <1>3, <1>5, <1>7, <1>8, <1>9, <1>10, <1>11, <1>12, <1>13, <1>14, <1>16, <1>17
  DEF Next, vars, ResetParams, HourPasses, Restart

\* DecisionMatches: without a lock, a check still decides as the settings before or
\* after a single change of the mode or a mask.
THEOREM ChecksAreSound == Spec => []DecisionMatches
<1>1. Init => CheckInv
  BY DEF Init, NoReport, CheckInv, DecisionMatches, Checking
<1>2. CheckInv => DecisionMatches
  BY DEF CheckInv
<1> QED
  BY <1>1, <1>2, CheckStep, TypeCorrect, PTL DEF Spec
=============================================================================
