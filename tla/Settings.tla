------------------------------ MODULE Settings ------------------------------
(***************************************************************************)
(* The launcher's own settings: the configuration sets of config.c, what   *)
(* _loadConfig makes of them when the launcher starts, and what            *)
(* _saveConfig makes of them when settings are saved (opl.c), with the     *)
(* search for another device when the current one has none or cannot be    *)
(* written.                                                                *)
(*                                                                         *)
(* All keys of a set are one value.  "opl" and "net" are kept in variables *)
(* of the program and are put in their set by a save; "game" stands for    *)
(* the sets (game, last, apps) whose keys are changed in place.  A file    *)
(* that was opened for writing and not yet closed is Empty.                *)
(***************************************************************************)
EXTENDS Naturals, Sequences, FiniteSets

CONSTANTS Values,      \* the settings, each the keys and values of a set
          Default,     \* setDefaults
          Legacy,      \* what IPCONFIG.DAT says of the network
          NoFile,      \* there is no such file
          Empty,       \* a file, or a set, without keys
          Machines,    \* bound: what is connected, and started from, at a start
          MaxStarts,   \* bound: the times the launcher is started
          MaxChanges,  \* bound: the settings changed, and the saves
          MaxGlitches  \* bound: devices that come or go, files that cannot be written

Stores == {"mc", "usb", "hdd"}
SetTypes == {"opl", "net", "game"}
InOrder(ts) == (IF "opl" \in ts THEN <<"opl">> ELSE <<>>)
               \o (IF "net" \in ts THEN <<"net">> ELSE <<>>)
               \o (IF "game" \in ts THEN <<"game">> ELSE <<>>)
SaveTypes == {{"opl"}, {"game"}, {"opl", "net", "game"}}

ASSUME SettingsAssumption ==
  /\ {Default, Legacy} \subseteq Values
  /\ NoFile \notin Values /\ Empty \notin Values /\ NoFile # Empty
  /\ Machines \subseteq (SUBSET Stores) \X Stores
  /\ {MaxStarts, MaxChanges, MaxGlitches} \subseteq Nat

VARIABLES
  files,    \* on each device, the file of each type
  legacyOn, \* the devices that have an IPCONFIG.DAT
  present,  \* the devices that are connected and formatted
  hddUp,    \* hddSupportModulesLoaded: hdd0: and pfs0: exist
  cwd,      \* the device the launcher was started from
  dir,      \* the device of the file names of the sets (cfgDevice)
  legacyAt, \* the device of legacyNetConfigPath
  vals,     \* the keys of each set
  modified, \* the modified flag of each set
  globals,  \* the settings in use, of the types that have variables
  job,      \* off, first, opl, net (stages of _loadConfig), idle, write, close
  plan,     \* the devices that are still to be tried
  types,    \* lscstatus: the types of the save
  todo,     \* the types configWriteMulti has still to write
  found,    \* what the load has found
  result,   \* how many sets the save counts
  told,     \* history: what the last save said, and of which changed sets
  loaded,   \* history: a load has ended, and nothing was changed or saved since
  steady,   \* history: since the start no device came or went, no write failed
  stored,   \* history: the last "opl" settings a save has put on a device
  counts    \* starts, changes and glitches so far

machine == <<files, legacyOn, present, hddUp, cwd>>
confs == <<dir, legacyAt, vals, modified>>
task == <<job, plan, types, todo, found, result>>
history == <<told, loaded, steady, stored, counts>>
stVars == <<machine, confs, globals, task, history>>

NoReport == [ok |-> FALSE, types |-> {}, changed |-> {}]
Nowhere == [dev |-> "mc", val |-> NoFile]

StTypeOK ==
  /\ files \in [Stores -> [SetTypes -> Values \cup {NoFile, Empty}]]
  /\ {cwd, dir, legacyAt} \subseteq Stores /\ present \subseteq Stores
  /\ vals \in [SetTypes -> Values \cup {Empty}] /\ modified \in [SetTypes -> BOOLEAN]
  /\ globals \in [{"opl", "net"} -> Values]
  /\ found \subseteq SetTypes /\ result \in 0 .. 3
  /\ told.changed \subseteq told.types

\* The memory of the program before it runs: setDefaults and configInit(NULL).
Blank ==
  [dir |-> "mc", legacyAt |-> "mc", vals |-> [t \in SetTypes |-> Empty],
   modified |-> [t \in SetTypes |-> FALSE], globals |-> [t \in {"opl", "net"} |-> Default]]

StInit ==
  /\ files = [d \in Stores |-> [t \in SetTypes |-> NoFile]]
  /\ legacyOn \in {{}, {"mc"}}
  /\ present = {} /\ hddUp = FALSE /\ cwd = "mc"
  /\ dir = Blank.dir /\ legacyAt = Blank.legacyAt
  /\ vals = Blank.vals /\ modified = Blank.modified /\ globals = Blank.globals
  /\ job = "off" /\ plan = <<>> /\ types = {} /\ todo = <<>> /\ found = {} /\ result = 0
  /\ told = NoReport /\ loaded = FALSE /\ steady = TRUE /\ stored = Nowhere
  /\ counts = [starts |-> 0, changes |-> 0, glitches |-> 0]

-----------------------------------------------------------------------------
(* The devices.                                                            *)

\* sysCheckMC, bdmFindPartition and hddCheck.
Answers(d) == d \in present /\ (d = "hdd" => hddUp)

\* bdmFindPartition, asked to write, looks for conf_opl.cfg by creating it.
Probed(d) == IF d = "usb" THEN [files EXCEPT !["usb"]["opl"] = Empty] ELSE files

\* The order of tryAlternateDevice and trySaveAlternateDevice.
Alternates == (IF cwd = "mc" THEN <<>> ELSE <<cwd>>) \o <<"mc", "usb", "hdd">>

\* configInit and configSetMove leave the path of the card's IPCONFIG.DAT alone.
LegacyPath(d) == IF d = "mc" THEN legacyAt ELSE d

Bound == [starts |-> MaxStarts, changes |-> MaxChanges, glitches |-> MaxGlitches]
Spent(c) == counts[c] < Bound[c] /\ counts' = [counts EXCEPT ![c] = @ + 1]

-----------------------------------------------------------------------------
(* Loading: init and _loadConfig, which reads all types.                   *)

\* configRead: the types of which device d has a file, fs being the files.
ConfigRead(d, fs) == {t \in SetTypes : Answers(d) /\ fs[d][t] # NoFile}

\* configReadLegacyIP: IPCONFIG.DAT can be read on device at.
LegacyIP(at) == at \in legacyOn /\ Answers(at)

\* configReadMulti of the files of device d, after the sets were emptied;
\* fs are the files, at is the device of IPCONFIG.DAT.
ReadMulti(d, fs, at) ==
  LET got == ConfigRead(d, fs)
      old == "net" \notin got /\ LegacyIP(at)
  IN /\ found' = got \cup (IF old THEN {"net"} ELSE {})
     /\ vals' = [t \in SetTypes |-> IF t = "net" /\ old THEN Legacy
                                 ELSE IF t \in got THEN fs[d][t] ELSE Empty]
     /\ modified' = [t \in SetTypes |-> t = "net" /\ old]
     /\ globals' = IF old THEN [globals EXCEPT !.net = Legacy] ELSE globals

\* The launcher starts.  With Start held the settings are not loaded.
PowerOn ==
  /\ job = "off" /\ Spent("starts")
  /\ \E m \in Machines : present' = m[1] /\ cwd' = m[2]
  /\ job' \in {"first", "idle"}
  /\ UNCHANGED <<files, legacyOn, hddUp, confs, globals, plan, types, todo, found, result,
                 told, loaded, steady, stored>>

\* A mutant of LoadCard: any type that is missing makes it look further.
LoadCardAllTypes ==
  /\ job = "first" /\ job' = "opl"
  /\ ReadMulti("mc", files, legacyAt)
  /\ plan' = IF SetTypes \subseteq found' THEN <<>> ELSE Alternates
  /\ UNCHANGED <<machine, dir, legacyAt, types, todo, result, history>>

\* _loadConfig reads the memory card, and looks further if "opl" is not there.
LoadCard ==
  /\ job = "first" /\ job' = "opl"
  /\ ReadMulti("mc", files, legacyAt)
  /\ plan' = IF "opl" \in found' THEN <<>> ELSE Alternates
  /\ UNCHANGED <<machine, dir, legacyAt, types, todo, result, history>>

\* tryAlternateDevice: the next device.  The first one with any of the types is
\* taken, and the last one whatever it has.
TryDevice ==
  LET d == Head(plan) IN
  /\ job \in {"opl", "net"} /\ plan # <<>> /\ Answers(d)
  /\ files' = Probed(d) /\ dir' = d /\ legacyAt' = LegacyPath(d)
  /\ ReadMulti(d, files', legacyAt')
  /\ plan' = IF found' # {} \/ Len(plan) = 1 THEN <<>> ELSE Tail(plan)
  /\ UNCHANGED <<legacyOn, present, hddUp, cwd, job, types, todo, result, history>>

SkipDevice ==
  /\ job \in {"opl", "net"} /\ plan # <<>> /\ ~Answers(Head(plan))
  /\ plan' = Tail(plan)
  /\ found' = IF Len(plan) = 1 THEN {} ELSE found
  /\ UNCHANGED <<machine, confs, globals, job, types, todo, result, history>>

\* The keys of a set that are there replace the defaults.
Applied(t) == IF t \in found /\ vals[t] # Empty THEN vals[t] ELSE globals[t]

\* The settings are taken, and if the network's were not found with them the
\* other devices are tried again, for all types.  A set without keys is given
\* one (ps5_smb_default_set), which a save writes over, and is marked.
ApplyOpl ==
  /\ job = "opl" /\ plan = <<>> /\ job' = "net"
  /\ globals' = [globals EXCEPT !.opl = Applied("opl")]
  /\ modified' = [modified EXCEPT !.opl = @ \/ ("opl" \in found /\ vals["opl"] = Empty)]
  /\ plan' = IF "net" \in found THEN <<>> ELSE Alternates
  /\ UNCHANGED <<machine, dir, legacyAt, vals, types, todo, found, result, history>>

ApplyNet ==
  /\ job = "net" /\ plan = <<>> /\ job' = "idle"
  /\ globals' = [globals EXCEPT !.net = Applied("net")]
  /\ loaded' = TRUE /\ found' = {}
  /\ UNCHANGED <<machine, confs, plan, types, todo, result, told, steady, stored, counts>>

-----------------------------------------------------------------------------
(* Changing and saving.                                                    *)

\* A setting is changed in its variable, or (configSetStr) in its set.
ChangeSetting(t, v) ==
  /\ job = "idle" /\ Spent("changes")
  /\ IF t = "game"
     THEN /\ v # vals[t] /\ vals' = [vals EXCEPT ![t] = v]
          /\ modified' = [modified EXCEPT ![t] = TRUE] /\ UNCHANGED globals
     ELSE /\ v # globals[t] /\ globals' = [globals EXCEPT ![t] = v]
          /\ UNCHANGED <<vals, modified>>
  /\ told' = NoReport /\ loaded' = FALSE
  /\ UNCHANGED <<machine, dir, legacyAt, task, steady, stored>>

\* _saveConfig puts the variables in their sets and starts to write.
SaveBegin(ts) ==
  LET new == {t \in ts \cap {"opl", "net"} : vals[t] # globals[t]} IN
  /\ job = "idle" /\ Spent("changes")
  /\ vals' = [t \in SetTypes |-> IF t \in new THEN globals[t] ELSE vals[t]]
  /\ modified' = [t \in SetTypes |-> t \in new \/ modified[t]]
  /\ job' = "write" /\ types' = ts /\ todo' = InOrder(ts) /\ result' = 0
  /\ plan' = Alternates
  /\ told' = [ok |-> FALSE, types |-> ts, changed |-> {t \in ts : modified'[t]}]
  /\ loaded' = FALSE
  /\ UNCHANGED <<machine, dir, legacyAt, globals, found, steady, stored>>

\* configWrite of a set that was not modified.
Unmodified ==
  /\ job = "write" /\ todo # <<>> /\ ~modified[Head(todo)]
  /\ todo' = Tail(todo) /\ result' = result + 1
  /\ UNCHANGED <<machine, confs, globals, job, plan, types, found, history>>

\* openFileBuffer truncates the file.
OpenFile ==
  /\ job = "write" /\ todo # <<>> /\ modified[Head(todo)] /\ Answers(dir)
  /\ files' = [files EXCEPT ![dir][Head(todo)] = Empty]
  /\ job' = "close"
  /\ stored' = IF stored.dev = dir /\ Head(todo) = "opl" THEN Nowhere ELSE stored
  /\ UNCHANGED <<legacyOn, present, hddUp, cwd, confs, globals, plan, types, todo, found, result,
                 told, loaded, steady, counts>>

OpenFails ==
  /\ job = "write" /\ todo # <<>> /\ modified[Head(todo)]
  /\ \/ ~Answers(dir) /\ UNCHANGED <<steady, counts>>
     \/ Answers(dir) /\ Spent("glitches") /\ steady' = FALSE
  /\ todo' = Tail(todo)
  /\ UNCHANGED <<machine, confs, globals, job, plan, types, found, result, told, loaded, stored>>

\* closeFileBuffer writes the lines.  Nobody looks at the result: the set counts
\* as written even if the device is gone or full.
CloseFile ==
  LET t == Head(todo) IN
  /\ job = "close" /\ job' = "write"
  /\ \/ /\ Answers(dir) /\ files' = [files EXCEPT ![dir][t] = vals[t]]
        /\ stored' = IF t = "opl" THEN [dev |-> dir, val |-> vals[t]] ELSE stored
        /\ UNCHANGED <<steady, counts>>
     \/ ~Answers(dir) /\ UNCHANGED <<files, stored, steady, counts>>
     \/ Answers(dir) /\ Spent("glitches") /\ steady' = FALSE /\ UNCHANGED <<files, stored>>
  /\ modified' = [modified EXCEPT ![t] = FALSE]
  /\ todo' = Tail(todo) /\ result' = result + 1
  /\ UNCHANGED <<legacyOn, present, hddUp, cwd, dir, legacyAt, vals, globals, plan, types, found,
                 told, loaded>>

\* trySaveAlternateDevice, when nothing counted: configSetMove and again.
MoveSets ==
  LET d == Head(plan) IN
  /\ job = "write" /\ todo = <<>> /\ result = 0 /\ plan # <<>> /\ Answers(d)
  /\ files' = Probed(d) /\ dir' = d /\ legacyAt' = LegacyPath(d)
  /\ todo' = InOrder(types) /\ plan' = Tail(plan)
  /\ UNCHANGED <<legacyOn, present, hddUp, cwd, vals, modified, globals, job, types, found, result,
                 history>>

MoveNot ==
  /\ job = "write" /\ todo = <<>> /\ result = 0 /\ plan # <<>> /\ ~Answers(Head(plan))
  /\ plan' = Tail(plan)
  /\ UNCHANGED <<machine, confs, globals, job, types, todo, found, result, history>>

\* saveConfig says "Settings saved to" the device, or "Error writing settings".
SaveEnd ==
  /\ job = "write" /\ todo = <<>> /\ (result > 0 \/ plan = <<>>)
  /\ job' = "idle" /\ told' = [told EXCEPT !.ok = result > 0]
  /\ types' = {} /\ plan' = <<>> /\ result' = 0
  /\ UNCHANGED <<machine, confs, globals, todo, found, loaded, steady, stored, counts>>

-----------------------------------------------------------------------------
(* The surroundings.                                                       *)

\* hddInitModules, by the worker, once the menus are up.
HddInit ==
  /\ job = "idle" /\ "hdd" \in present /\ ~hddUp /\ hddUp' = TRUE
  /\ UNCHANGED <<files, legacyOn, present, cwd, confs, globals, task, history>>

Replug(d) ==
  /\ job # "off" /\ Spent("glitches")
  /\ present' = IF d \in present THEN present \ {d} ELSE present \cup {d}
  /\ steady' = FALSE
  /\ UNCHANGED <<files, legacyOn, hddUp, cwd, confs, globals, task, told, loaded, stored>>

PowerOff ==
  /\ job # "off" /\ counts.starts < MaxStarts
  /\ job' = "off" /\ present' = {} /\ hddUp' = FALSE /\ cwd' = "mc"
  /\ dir' = Blank.dir /\ legacyAt' = Blank.legacyAt
  /\ vals' = Blank.vals /\ modified' = Blank.modified /\ globals' = Blank.globals
  /\ plan' = <<>> /\ types' = {} /\ todo' = <<>> /\ found' = {} /\ result' = 0
  /\ told' = NoReport /\ loaded' = FALSE /\ steady' = TRUE
  /\ UNCHANGED <<files, legacyOn, stored, counts>>

StNext ==
  \/ PowerOn \/ PowerOff \/ HddInit
  \/ LoadCard \/ TryDevice \/ SkipDevice \/ ApplyOpl \/ ApplyNet
  \/ \E t \in SetTypes, v \in Values : ChangeSetting(t, v)
  \/ \E ts \in SaveTypes : SaveBegin(ts)
  \/ Unmodified \/ OpenFile \/ OpenFails \/ CloseFile \/ MoveSets \/ MoveNot \/ SaveEnd
  \/ \E d \in Stores : Replug(d)

StSpec == StInit /\ [][StNext]_stVars

-----------------------------------------------------------------------------
(* A start with the memory card in its slot uses the settings the card's   *)
(* conf_opl.cfg has, whatever else is connected and although the search    *)
(* for the network's settings may have emptied the sets and read those of  *)
(* another device since.                                                   *)
CardIsLoaded ==
  loaded /\ steady /\ job = "idle" /\ "mc" \in present /\ files["mc"]["opl"] \in Values
    => globals.opl = files["mc"]["opl"]

(* A save of one changed set that says "Settings saved to" a device has    *)
(* put it there, after however many devices it had to try; one that says   *)
(* "Error writing settings" leaves it marked, so that the next save writes *)
(* it.                                                                     *)
SaveTellsTruth ==
  \A t \in told.changed :
    /\ job = "idle" /\ steady /\ told.ok /\ told.types = {t} => files[dir][t] = vals[t]
    /\ job = "idle" /\ ~told.ok => modified[t]

(* Both, so that changed settings are in use again after a restart.        *)
SettingsAreKept == CardIsLoaded /\ SaveTellsTruth

(* The next start restores the settings that were saved ("Settings saved   *)
(* to %s"), if the device they were saved to is there and no other device  *)
(* has settings.                                                           *)
SavedIsRestored ==
  LET others == Stores \ {stored.dev} IN
  (/\ loaded /\ steady /\ job = "idle" /\ stored.val # NoFile /\ stored.dev \in present
   /\ \A d \in others : d \notin legacyOn /\ \A t \in SetTypes : files[d][t] = NoFile)
  => globals.opl = stored.val
=============================================================================
