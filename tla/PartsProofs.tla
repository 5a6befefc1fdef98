---------------------------- MODULE PartsProofs ----------------------------
(***************************************************************************)
(* Proofs about the parts of MCParts, for every value of their constants   *)
(* and any number of operations and faults: the settings of the launcher   *)
(* (Settings), the creation of virtual memory cards (GenVmc), the list of  *)
(* the games of a device (GameList), the carousel (Carousel), the wireless *)
(* controllers (Ds34Bt), and all of them together.                         *)
(***************************************************************************)
EXTENDS MCParts, SequenceTheorems, FiniteSetTheorems, WellFoundedInduction, TLAPS

(* A set of numbers has a smallest one.                                    *)
LEMMA NatHasMin ==
    ASSUME NEW S \in SUBSET Nat, S # {} PROVE \E i \in S : \A j \in S : i <= j
<1> DEFINE R == {ab \in Nat \X Nat : ab[1] < ab[2]}
<1>1. IsWellFoundedOn(R, Nat) BY NatLessThanWellFounded, Zenon DEF OpToRel
<1>2. PICK i \in S : \A j \in S : ~(<<j, i>> \in R)
  <2> HIDE DEF R
  <2> QED BY <1>1, WFMin
<1>3. \A a, b \in Nat : a < b => <<a, b>> \in R OBVIOUS
<1> HIDE DEF R
<1>4. ASSUME NEW j \in S PROVE i <= j
  <2>1. i \in Nat /\ j \in Nat OBVIOUS
  <2>2. ~(j < i) BY <1>2, <1>3, <2>1
  <2> QED BY <2>1, <2>2
<1> QED BY <1>4

----------------------------------------------------------------------------
(* The settings of the launcher.                                           *)

Reports == [ok : BOOLEAN, types : SUBSET SetTypes, changed : SUBSET SetTypes]

(* What the files, the sets and the lists of a load or a save may be.      *)
StTypes ==
    /\ files \in [Stores -> [SetTypes -> Values \cup {NoFile, Empty}]]
    /\ cwd \in Stores /\ dir \in Stores /\ legacyAt \in Stores /\ present \subseteq Stores
    /\ vals \in [SetTypes -> Values \cup {Empty}] /\ modified \in [SetTypes -> BOOLEAN]
    /\ globals \in [{"opl", "net"} -> Values]
    /\ job \in {"off", "first", "opl", "net", "idle", "write", "close"}
    /\ plan \in Seq(Stores) /\ todo \in Seq(SetTypes) /\ types \subseteq SetTypes
    /\ found \subseteq SetTypes /\ result \in Nat /\ result + Len(todo) <= 3
    /\ told \in Reports /\ told.changed \subseteq told.types
    /\ hddUp \in BOOLEAN /\ loaded \in BOOLEAN /\ steady \in BOOLEAN

(* With the card in its slot its settings are read first, and what the     *)
(* search for those of the network does to the sets comes after they were  *)
(* put in the variables.                                                   *)
LoadInv ==
    /\ job # "idle" => ~loaded
    /\ (steady /\ "mc" \in present /\ files["mc"]["opl"] \in Values) =>
           /\ job = "opl" => plan = <<>> /\ "opl" \in found /\ vals["opl"] = files["mc"]["opl"]
           /\ job = "net" => globals["opl"] = files["mc"]["opl"]
           /\ job = "idle" /\ loaded => globals["opl"] = files["mc"]["opl"]

(* A changed set stays marked until it is written, a set of a save of its  *)
(* own counts only when it was, and a file that was opened can be written  *)
(* as long as nothing was unplugged.                                       *)
SaveInv ==
    /\ job \in {"off", "first", "opl", "net"} => told.changed = {}
    /\ job = "close" => todo # <<>> /\ (steady => Answers(dir))
    /\ job \in {"write", "close"} =>
           /\ ~told.ok /\ told.types = types
           /\ result = 0 => \A t \in told.changed : modified[t]
           /\ \A t \in told.changed : types = {t} =>
                  /\ todo \in {<<>>, <<t>>} /\ (todo # <<>> => result = 0)
                  /\ result > 0 /\ steady => files[dir][t] = vals[t]
    /\ SaveTellsTruth

StInv == StTypes /\ LoadInv /\ SaveInv

----------------------------------------------------------------------------
(* The lists of sets and devices.                                          *)
LEMMA StLists ==
    /\ \A ts \in SUBSET SetTypes : InOrder(ts) \in Seq(SetTypes) /\ Len(InOrder(ts)) <= 3
    /\ \A t \in SetTypes : InOrder({t}) = <<t>>
    /\ \A ts \in SUBSET SetTypes : ts # {} => InOrder(ts) # <<>>
    /\ cwd \in Stores => Alternates \in Seq(Stores)
<1> USE DEF InOrder, SetTypes, Stores, Alternates
<1>1. ASSUME NEW ts \in SUBSET SetTypes PROVE InOrder(ts) \in Seq(SetTypes) /\ Len(InOrder(ts)) <= 3 /\ (ts # {} => InOrder(ts) # <<>>)
  <2> DEFINE a == IF "opl" \in ts THEN <<"opl">> ELSE <<>>
             b == IF "net" \in ts THEN <<"net">> ELSE <<>>
             c == IF "game" \in ts THEN <<"game">> ELSE <<>>
  <2>1. a \in Seq(SetTypes) /\ Len(a) <= 1 /\ Len(a) \in Nat /\ ("opl" \in ts => Len(a) = 1)
    <3>1. CASE "opl" \in ts
      BY <3>1
    <3>2. CASE "opl" \notin ts
      BY <3>2
    <3> QED
      BY <3>1, <3>2
  <2>2. b \in Seq(SetTypes) /\ Len(b) <= 1 /\ Len(b) \in Nat /\ ("net" \in ts => Len(b) = 1)
    <3>1. CASE "net" \in ts
      BY <3>1
    <3>2. CASE "net" \notin ts
      BY <3>2
    <3> QED
      BY <3>1, <3>2
  <2>3. c \in Seq(SetTypes) /\ Len(c) <= 1 /\ Len(c) \in Nat /\ ("game" \in ts => Len(c) = 1)
    <3>1. CASE "game" \in ts
      BY <3>1
    <3>2. CASE "game" \notin ts
      BY <3>2
    <3> QED
      BY <3>1, <3>2
  <2> HIDE DEF a, b, c
  <2>4. (a \o b) \o c \in Seq(SetTypes) /\ Len((a \o b) \o c) = (Len(a) + Len(b)) + Len(c)
    BY <2>1, <2>2, <2>3
  <2>5. InOrder(ts) = (a \o b) \o c
    BY DEF a, b, c
  <2>6. ts # {} => "opl" \in ts \/ "net" \in ts \/ "game" \in ts
    OBVIOUS
  <2> HIDE DEF InOrder
  <2> QED
    BY <2>1, <2>2, <2>3, <2>4, <2>5, <2>6
<1>2. InOrder({"opl"}) = <<"opl">> /\ InOrder({"net"}) = <<"net">> /\ InOrder({"game"}) = <<"game">>
  OBVIOUS
<1>3. ASSUME cwd \in Stores PROVE Alternates \in Seq(Stores)
  <2>1. <<cwd>> \in Seq(Stores) /\ <<"mc", "usb", "hdd">> \in Seq(Stores) /\ <<>> \in Seq(Stores)
    BY <1>3
  <2>2. (IF cwd = "mc" THEN <<>> ELSE <<cwd>>) \in Seq(Stores)
    BY <2>1
  <2> QED
    BY <2>1, <2>2
<1> QED
  BY <1>1, <1>2, <1>3

(* The types, step by step.                                                *)
LEMMA StTypesStep ==
    ASSUME StTypes, SaveInv, [StNext]_stVars
    PROVE  StTypes'
<1>0. /\ plan # <<>> => Head(plan) \in Stores /\ Tail(plan) \in Seq(Stores)
      /\ todo # <<>> => Head(todo) \in SetTypes /\ Tail(todo) \in Seq(SetTypes) /\ Len(Tail(todo)) = Len(todo) - 1
      /\ Len(todo) \in Nat /\ <<>> \in Seq(Stores) /\ <<>> \in Seq(SetTypes) /\ Len(<<>>) = 0
      /\ Alternates \in Seq(Stores) /\ {Default, Legacy} \subseteq Values
      /\ NoFile \notin Values /\ Empty \notin Values /\ NoFile # Empty
  BY StLists, SettingsAssumption DEF StTypes
<1>1. ASSUME PowerOn PROVE StTypes'
  <2>1. PICK m \in Machines : present' = m[1] /\ cwd' = m[2]
    BY <1>1 DEF PowerOn
  <2>2. m[1] \subseteq Stores /\ m[2] \in Stores
    BY SettingsAssumption
  <2> HIDE DEF Stores
  <2> QED
    BY <2>1, <2>2, <1>1 DEF PowerOn, Spent, StTypes, confs
<1>2. ASSUME PowerOff PROVE StTypes'
  <2>1. vals' \in [SetTypes -> Values \cup {Empty}] /\ modified' \in [SetTypes -> BOOLEAN] /\ globals' \in [{"opl", "net"} -> Values]
    BY <1>0, <1>2 DEF PowerOff, Blank
  <2>2. told' \in Reports /\ told'.changed \subseteq told'.types
    BY <1>2 DEF PowerOff, NoReport, Reports
  <2>4. dir' \in Stores /\ legacyAt' \in Stores /\ cwd' \in Stores
    BY <1>2 DEF PowerOff, Blank, Stores
  <2>5. result' \in Nat /\ result' + Len(todo') <= 3
    BY <1>0, <1>2 DEF PowerOff
  <2> QED
    BY <1>0, <2>1, <2>2, <2>4, <2>5, <1>2 DEF PowerOff, StTypes
<1>3. ASSUME HddInit PROVE StTypes'
  BY <1>0, <1>3 DEF HddInit, StTypes, Stores, SetTypes, Reports, machine, confs,
     task, history
<1>4. ASSUME LoadCard PROVE StTypes'
  <2>1. ReadMulti("mc", files, legacyAt)
    BY <1>4 DEF LoadCard
  <2>2. /\ vals' \in [SetTypes -> Values \cup {Empty}] /\ modified' \in [SetTypes -> BOOLEAN]
        /\ globals' \in [{"opl", "net"} -> Values] /\ found' \subseteq SetTypes
    BY <1>0, <2>1 DEF ReadMulti, ConfigRead, StTypes, SetTypes, Stores
  <2>3. plan' \in Seq(Stores)
    BY <1>0, <1>4 DEF LoadCard
  <2> QED
    BY <1>0, <2>2, <2>3, <1>4 DEF LoadCard, StTypes, machine, history
<1>5. ASSUME TryDevice PROVE StTypes'
  BY <1>0, <1>5 DEF TryDevice, ReadMulti, ConfigRead, Probed, LegacyPath,
     StTypes, Stores, SetTypes, Reports, machine, confs, task, history
<1>6. ASSUME SkipDevice PROVE StTypes'
  BY <1>0, <1>6 DEF SkipDevice, StTypes, Stores, SetTypes, Reports, machine,
     confs, task, history
<1>7. ASSUME ApplyOpl PROVE StTypes'
  BY <1>0, <1>7 DEF ApplyOpl, Applied, StTypes, Stores, SetTypes, Reports,
     machine, confs, task, history
<1>8. ASSUME ApplyNet PROVE StTypes'
  BY <1>0, <1>8 DEF ApplyNet, Applied, StTypes, Stores, SetTypes, Reports,
     machine, confs, task, history
<1>9. ASSUME NEW t \in SetTypes, NEW v \in Values, ChangeSetting(t, v) PROVE StTypes'
  <2>1. vals' \in [SetTypes -> Values \cup {Empty}] /\ modified' \in [SetTypes -> BOOLEAN] /\ globals' \in [{"opl", "net"} -> Values]
    <3>1. CASE t = "game"
      BY <3>1, <1>9 DEF ChangeSetting, StTypes, SetTypes
    <3>2. CASE t # "game"
      BY <3>2, <1>9 DEF ChangeSetting, StTypes, SetTypes
    <3> QED
      BY <3>1, <3>2
  <2>2. told' \in Reports /\ told'.changed \subseteq told'.types
    BY <1>9 DEF ChangeSetting, NoReport, Reports
  <2> QED
    BY <2>1, <2>2, <1>9 DEF ChangeSetting, StTypes, machine, task
<1>10. ASSUME NEW ts \in SaveTypes, SaveBegin(ts) PROVE StTypes'
  <2>1. vals' \in [SetTypes -> Values \cup {Empty}] /\ modified' \in [SetTypes -> BOOLEAN]
    BY <1>10 DEF SaveBegin, StTypes
  <2>2. ts \in SUBSET SetTypes
    BY DEF SaveTypes, SetTypes
  <2>3. told' \in Reports /\ told'.changed \subseteq told'.types
    BY <2>2, <1>10 DEF SaveBegin, Reports
  <2>4. todo' \in Seq(SetTypes) /\ result' \in Nat /\ result' + Len(todo') <= 3
    BY <2>2, StLists, <1>10 DEF SaveBegin
  <2> QED
    BY <1>0, <2>1, <2>2, <2>3, <2>4, <1>10 DEF SaveBegin, StTypes, machine
<1>11. ASSUME Unmodified PROVE StTypes'
  BY <1>0, <1>11 DEF Unmodified, StTypes, Stores, SetTypes, Reports, machine,
     confs, task, history
<1>12. ASSUME OpenFile PROVE StTypes'
  BY <1>0, <1>12 DEF OpenFile, StTypes, Stores, SetTypes, Reports, machine,
     confs, task, history
<1>13. ASSUME OpenFails PROVE StTypes'
  <2>1. todo' \in Seq(SetTypes) /\ result' \in Nat /\ result' + Len(todo') <= 3
    BY <1>0, <1>13 DEF OpenFails, StTypes
  <2>2. steady' \in BOOLEAN
    BY <1>13 DEF OpenFails, StTypes
  <2> QED
    BY <2>1, <2>2, <1>13 DEF OpenFails, StTypes, machine, confs
<1>14. ASSUME CloseFile PROVE StTypes'
  <2>0. todo # <<>>
    BY <1>14 DEF CloseFile, SaveInv
  <2>1. todo' \in Seq(SetTypes) /\ result' \in Nat /\ result' + Len(todo') <= 3
    BY <1>0, <2>0, <1>14 DEF CloseFile, StTypes
  <2>2. files' \in [Stores -> [SetTypes -> Values \cup {NoFile, Empty}]]
    <3>1. vals[Head(todo)] \in Values \cup {NoFile, Empty} /\ Head(todo) \in SetTypes /\ dir \in Stores
      BY <1>0, <2>0 DEF StTypes
    <3>2. [files EXCEPT ![dir][Head(todo)] = vals[Head(todo)]] \in [Stores -> [SetTypes -> Values \cup {NoFile, Empty}]]
      BY <3>1 DEF StTypes
    <3> QED
      BY <3>2, <1>14 DEF CloseFile, StTypes
  <2>3. steady' \in BOOLEAN /\ modified' \in [SetTypes -> BOOLEAN]
    BY <1>14 DEF CloseFile, StTypes
  <2> QED
    BY <2>1, <2>2, <2>3, <1>14 DEF CloseFile, StTypes
<1>15. ASSUME MoveSets PROVE StTypes'
  <2>0. types \in SUBSET SetTypes /\ Head(plan) \in Stores
    BY <1>0, <1>15 DEF MoveSets, StTypes
  <2>1. todo' \in Seq(SetTypes) /\ result' \in Nat /\ result' + Len(todo') <= 3
    BY StLists, <2>0, <1>15 DEF MoveSets
  <2>2. files' \in [Stores -> [SetTypes -> Values \cup {NoFile, Empty}]]
    BY <1>15 DEF MoveSets, StTypes, Probed, Stores, SetTypes
  <2>3. dir' \in Stores /\ legacyAt' \in Stores
    BY <2>0, <1>15 DEF MoveSets, LegacyPath, StTypes
  <2> QED
    BY <1>0, <2>1, <2>2, <2>3, <1>15 DEF MoveSets, StTypes, history
<1>16. ASSUME MoveNot PROVE StTypes'
  BY <1>0, <1>16 DEF MoveNot, StTypes, Stores, SetTypes, Reports, machine,
     confs, task, history
<1>17. ASSUME SaveEnd PROVE StTypes'
  <2>1. told' \in Reports /\ told'.changed \subseteq told'.types
    <3>1. \A b \in BOOLEAN : LET r == [told EXCEPT !.ok = b] IN r \in Reports /\ r.changed \subseteq r.types
      BY DEF StTypes, Reports
    <3>2. (result > 0) \in BOOLEAN /\ told' = [told EXCEPT !.ok = result > 0]
      BY <1>17 DEF SaveEnd
    <3> QED
      BY <3>1, <3>2, Zenon
  <2>2. result' + Len(todo') <= 3 /\ result' \in Nat
    BY <1>0, <1>17 DEF SaveEnd, StTypes
  <2> QED
    BY <1>0, <2>1, <2>2, <1>17 DEF SaveEnd, StTypes, machine, confs
<1>18. ASSUME NEW d \in Stores, Replug(d) PROVE StTypes'
  <2>1. present' \subseteq Stores
    BY <1>18 DEF Replug, StTypes
  <2> QED
    BY <2>1, <1>18 DEF Replug, StTypes, confs, task
<1>19. ASSUME UNCHANGED stVars PROVE StTypes'
  BY <1>0, <1>19 DEF stVars, StTypes, Stores, SetTypes, Reports, machine, confs,
     task, history
<1> QED
  BY <1>1, <1>2, <1>3, <1>4, <1>5, <1>6, <1>7, <1>8, <1>9, <1>10, <1>11, <1>12,
     <1>13, <1>14, <1>15, <1>16, <1>17, <1>18, <1>19 DEF StNext

(* The settings of the card, step by step.                                 *)
LEMMA LoadStep ==
    ASSUME StTypes, LoadInv, [StNext]_stVars
    PROVE  LoadInv'
<1>0. /\ plan # <<>> => Head(plan) \in Stores /\ Tail(plan) \in Seq(Stores)
      /\ todo # <<>> => Head(todo) \in SetTypes /\ Tail(todo) \in Seq(SetTypes) /\ Len(Tail(todo)) = Len(todo) - 1
      /\ Len(todo) \in Nat /\ <<>> \in Seq(Stores) /\ <<>> \in Seq(SetTypes) /\ Len(<<>>) = 0
      /\ Alternates \in Seq(Stores) /\ {Default, Legacy} \subseteq Values
      /\ NoFile \notin Values /\ Empty \notin Values /\ NoFile # Empty
  BY StLists, SettingsAssumption DEF StTypes
<1>1. ASSUME PowerOn PROVE LoadInv'
  BY <1>0, <1>1 DEF PowerOn, Spent, LoadInv, StTypes, Stores, SetTypes, Answers,
     machine, confs, task, history
<1>2. ASSUME PowerOff PROVE LoadInv'
  BY <1>0, <1>2 DEF PowerOff, Blank, NoReport, LoadInv, StTypes, Stores,
     SetTypes, Answers, machine, confs, task, history
<1>3. ASSUME HddInit PROVE LoadInv'
  BY <1>0, <1>3 DEF HddInit, LoadInv, StTypes, Stores, SetTypes, Answers,
     machine, confs, task, history
<1>4. ASSUME LoadCard PROVE LoadInv'
  BY <1>0, <1>4 DEF LoadCard, ReadMulti, ConfigRead, LoadInv, StTypes, Stores,
     SetTypes, Answers, machine, confs, task, history
<1>5. ASSUME TryDevice PROVE LoadInv'
  BY <1>0, <1>5 DEF TryDevice, ReadMulti, ConfigRead, Probed, LegacyPath,
     LoadInv, StTypes, Stores, SetTypes, Answers, machine, confs, task, history
<1>6. ASSUME SkipDevice PROVE LoadInv'
  BY <1>0, <1>6 DEF SkipDevice, LoadInv, StTypes, Stores, SetTypes, Answers,
     machine, confs, task, history
<1>7. ASSUME ApplyOpl PROVE LoadInv'
  BY <1>0, <1>7 DEF ApplyOpl, Applied, LoadInv, StTypes, Stores, SetTypes,
     Answers, machine, confs, task, history
<1>8. ASSUME ApplyNet PROVE LoadInv'
  BY <1>0, <1>8 DEF ApplyNet, Applied, LoadInv, StTypes, Stores, SetTypes,
     Answers, machine, confs, task, history
<1>9. ASSUME NEW t \in SetTypes, NEW v \in Values, ChangeSetting(t, v) PROVE LoadInv'
  BY <1>0, <1>9 DEF ChangeSetting, Spent, NoReport, LoadInv, StTypes, Stores,
     SetTypes, Answers, machine, confs, task, history
<1>10. ASSUME NEW ts \in SaveTypes, SaveBegin(ts) PROVE LoadInv'
  BY <1>0, <1>10 DEF SaveBegin, Spent, LoadInv, StTypes, Stores, SetTypes,
     Answers, machine, confs, task, history
<1>11. ASSUME Unmodified PROVE LoadInv'
  BY <1>0, <1>11 DEF Unmodified, LoadInv, StTypes, Stores, SetTypes, Answers,
     machine, confs, task, history
<1>12. ASSUME OpenFile PROVE LoadInv'
  BY <1>0, <1>12 DEF OpenFile, LoadInv, StTypes, Stores, SetTypes, Answers,
     machine, confs, task, history
<1>13. ASSUME OpenFails PROVE LoadInv'
  BY <1>0, <1>13 DEF OpenFails, LoadInv, StTypes, Stores, SetTypes, Answers,
     machine, confs, task, history
<1>14. ASSUME CloseFile PROVE LoadInv'
  BY <1>0, <1>14 DEF CloseFile, LoadInv, StTypes, Stores, SetTypes, Answers,
     machine, confs, task, history
<1>15. ASSUME MoveSets PROVE LoadInv'
  BY <1>0, <1>15 DEF MoveSets, Probed, LegacyPath, LoadInv, StTypes, Stores,
     SetTypes, Answers, machine, confs, task, history
<1>16. ASSUME MoveNot PROVE LoadInv'
  BY <1>0, <1>16 DEF MoveNot, LoadInv, StTypes, Stores, SetTypes, Answers,
     machine, confs, task, history
<1>17. ASSUME SaveEnd PROVE LoadInv'
  BY <1>0, <1>17 DEF SaveEnd, LoadInv, StTypes, Stores, SetTypes, Answers,
     machine, confs, task, history
<1>18. ASSUME NEW d \in Stores, Replug(d) PROVE LoadInv'
  BY <1>0, <1>18 DEF Replug, Spent, LoadInv, StTypes, Stores, SetTypes, Answers,
     machine, confs, task, history
<1>19. ASSUME UNCHANGED stVars PROVE LoadInv'
  BY <1>0, <1>19 DEF stVars, LoadInv, StTypes, Stores, SetTypes, Answers,
     machine, confs, task, history
<1> QED
  BY <1>1, <1>2, <1>3, <1>4, <1>5, <1>6, <1>7, <1>8, <1>9, <1>10, <1>11, <1>12,
     <1>13, <1>14, <1>15, <1>16, <1>17, <1>18, <1>19 DEF StNext

(* A save, step by step.                                                   *)
LEMMA SaveStep ==
    ASSUME StTypes, LoadInv, SaveInv, [StNext]_stVars
    PROVE  SaveInv'
<1>0. /\ plan # <<>> => Head(plan) \in Stores /\ Tail(plan) \in Seq(Stores)
      /\ todo # <<>> => Head(todo) \in SetTypes /\ Tail(todo) \in Seq(SetTypes) /\ Len(Tail(todo)) = Len(todo) - 1
      /\ Len(todo) \in Nat /\ <<>> \in Seq(Stores) /\ <<>> \in Seq(SetTypes) /\ Len(<<>>) = 0
      /\ Alternates \in Seq(Stores) /\ {Default, Legacy} \subseteq Values
      /\ NoFile \notin Values /\ Empty \notin Values /\ NoFile # Empty
  BY StLists, SettingsAssumption DEF StTypes
<1>1. ASSUME PowerOn PROVE SaveInv'
  BY <1>0, <1>1 DEF PowerOn, Spent, SaveInv, SaveTellsTruth, StTypes, Stores,
     SetTypes, Answers, Reports, machine, confs, task, history
<1>2. ASSUME PowerOff PROVE SaveInv'
  BY <1>0, <1>2 DEF PowerOff, Blank, NoReport, SaveInv, SaveTellsTruth, StTypes,
     Stores, SetTypes, Answers, Reports, machine, confs, task, history
<1>3. ASSUME HddInit PROVE SaveInv'
  BY <1>0, <1>3 DEF HddInit, SaveInv, SaveTellsTruth, StTypes, Stores, SetTypes,
     Answers, Reports, machine, confs, task, history
<1>4. ASSUME LoadCard PROVE SaveInv'
  BY <1>0, <1>4 DEF LoadCard, ReadMulti, ConfigRead, SaveInv, SaveTellsTruth,
     StTypes, Stores, SetTypes, Answers, Reports, machine, confs, task, history
<1>5. ASSUME TryDevice PROVE SaveInv'
  BY <1>0, <1>5 DEF TryDevice, ReadMulti, ConfigRead, Probed, LegacyPath,
     SaveInv, SaveTellsTruth, StTypes, Stores, SetTypes, Answers, Reports,
     machine, confs, task, history
<1>6. ASSUME SkipDevice PROVE SaveInv'
  BY <1>0, <1>6 DEF SkipDevice, SaveInv, SaveTellsTruth, StTypes, Stores,
     SetTypes, Answers, Reports, machine, confs, task, history
<1>7. ASSUME ApplyOpl PROVE SaveInv'
  BY <1>0, <1>7 DEF ApplyOpl, Applied, SaveInv, SaveTellsTruth, StTypes, Stores,
     SetTypes, Answers, Reports, machine, confs, task, history
<1>8. ASSUME ApplyNet PROVE SaveInv'
  BY <1>0, <1>8 DEF ApplyNet, Applied, SaveInv, SaveTellsTruth, StTypes, Stores,
     SetTypes, Answers, Reports, machine, confs, task, history
<1>9. ASSUME NEW t \in SetTypes, NEW v \in Values, ChangeSetting(t, v) PROVE SaveInv'
  BY <1>0, <1>9 DEF ChangeSetting, Spent, NoReport, SaveInv, SaveTellsTruth,
     StTypes, Stores, SetTypes, Answers, Reports, machine, confs, task, history
<1>10. ASSUME NEW ts \in SaveTypes, SaveBegin(ts) PROVE SaveInv'
  <2>1. ts \in SUBSET SetTypes
    BY DEF SaveTypes, SetTypes
  <2>2. /\ job' = "write" /\ types' = ts /\ todo' = InOrder(ts) /\ result' = 0
        /\ told'.ok = FALSE /\ told'.types = ts /\ told'.changed = {t \in ts : modified'[t]}
    BY <1>10 DEF SaveBegin
  <2>3. \A t \in told'.changed : modified'[t] /\ t \in SetTypes
    BY <2>1, <2>2
  <2>4. \A t \in told'.changed : ts = {t} => todo' = <<t>>
    BY <2>2, <2>3, StLists
  <2> QED
    BY <2>2, <2>3, <2>4 DEF SaveInv, SaveTellsTruth
<1>11. ASSUME Unmodified PROVE SaveInv'
  BY <1>0, <1>11 DEF Unmodified, SaveInv, SaveTellsTruth, StTypes, Stores,
     SetTypes, Answers, Reports, machine, confs, task, history
<1>12. ASSUME OpenFile PROVE SaveInv'
  BY <1>0, <1>12 DEF OpenFile, SaveInv, SaveTellsTruth, StTypes, Stores,
     SetTypes, Answers, Reports, machine, confs, task, history
<1>13. ASSUME OpenFails PROVE SaveInv'
  BY <1>0, <1>13 DEF OpenFails, SaveInv, SaveTellsTruth, StTypes, Stores,
     SetTypes, Answers, Reports, machine, confs, task, history
<1>14. ASSUME CloseFile PROVE SaveInv'
  <2> DEFINE h == Head(todo)
  <2>1. job = "close" /\ job' = "write" /\ todo # <<>> /\ (steady => Answers(dir))
    BY <1>14 DEF CloseFile, SaveInv
  <2>2. result' > 0 /\ UNCHANGED <<dir, vals, told, types>> /\ todo' = Tail(todo)
    BY <1>0, <1>14 DEF CloseFile, StTypes
  <2>3. ASSUME NEW t \in told.changed, types = {t}
        PROVE  /\ todo' \in {<<>>, <<t>>} /\ (todo' # <<>> => result' = 0)
               /\ steady' => files'[dir][t] = vals[t]
    <3>0. todo \in {<<>>, <<t>>}
      BY <2>1, <2>3 DEF SaveInv
    <3>5. Head(<<t>>) = t /\ Tail(<<t>>) = <<>>
      OBVIOUS
    <3>6. todo = <<t>>
      BY <2>1, <3>0
    <3>1. todo = <<t>> /\ h = t /\ Tail(todo) = <<>>
      BY <3>5, <3>6, Zenon
    <3>2. t \in SetTypes /\ dir \in Stores
      BY DEF StTypes, Reports
    <3>3. steady' => steady /\ files' = [files EXCEPT ![dir][t] = vals[t]]
      BY <2>1, <3>1, <1>14 DEF CloseFile
    <3>4. steady' => files'[dir][t] = vals[t]
      BY <3>2, <3>3 DEF StTypes
    <3> QED
      BY <2>2, <3>1, <3>4
  <2> QED
    BY <1>0, <2>1, <2>2, <2>3 DEF SaveInv, SaveTellsTruth, StTypes
<1>15. ASSUME MoveSets PROVE SaveInv'
  <2>1. /\ job = "write" /\ job' = "write" /\ result = 0 /\ result' = 0 /\ todo' = InOrder(types)
        /\ UNCHANGED <<modified, told, types>>
    BY <1>15 DEF MoveSets, history
  <2>2. \A t \in told.changed : t \in SetTypes
    BY DEF StTypes, Reports
  <2>3. \A t \in told.changed : types = {t} => todo' = <<t>>
    BY <2>1, <2>2, StLists
  <2> QED
    BY <2>1, <2>3 DEF SaveInv, SaveTellsTruth
<1>16. ASSUME MoveNot PROVE SaveInv'
  BY <1>0, <1>16 DEF MoveNot, SaveInv, SaveTellsTruth, StTypes, Stores,
     SetTypes, Answers, Reports, machine, confs, task, history
<1>17. ASSUME SaveEnd PROVE SaveInv'
  <2>1. /\ job = "write" /\ job' = "idle" /\ todo = <<>>
        /\ told'.types = told.types /\ told'.changed = told.changed
        /\ UNCHANGED <<modified, files, dir, vals, steady>> /\ result \in Nat
    BY <1>17 DEF SaveEnd, StTypes, Reports, machine, confs
  <2>2. told'.ok <=> result > 0
    BY <1>17 DEF SaveEnd, StTypes, Reports
  <2>3. ~told'.ok => \A t \in told.changed : modified[t]
    BY <2>1, <2>2 DEF SaveInv
  <2>4. \A t \in told.changed : steady /\ told'.ok /\ told.types = {t} => files[dir][t] = vals[t]
    BY <2>1, <2>2 DEF SaveInv
  <2> QED
    BY <2>1, <2>3, <2>4 DEF SaveInv, SaveTellsTruth
<1>18. ASSUME NEW d \in Stores, Replug(d) PROVE SaveInv'
  BY <1>0, <1>18 DEF Replug, Spent, SaveInv, SaveTellsTruth, StTypes, Stores,
     SetTypes, Answers, Reports, machine, confs, task, history
<1>19. ASSUME UNCHANGED stVars PROVE SaveInv'
  BY <1>0, <1>19 DEF stVars, SaveInv, SaveTellsTruth, StTypes, Stores, SetTypes,
     Answers, Reports, machine, confs, task, history
<1> QED
  BY <1>1, <1>2, <1>3, <1>4, <1>5, <1>6, <1>7, <1>8, <1>9, <1>10, <1>11, <1>12,
     <1>13, <1>14, <1>15, <1>16, <1>17, <1>18, <1>19 DEF StNext

(* The invariant of the settings holds in every state.                     *)
THEOREM SettingsInvariance == StSpec => []StInv
<1>1. StInit => StInv
  <2> SUFFICES ASSUME StInit PROVE StInv
    OBVIOUS
  <2>1. {Default, Legacy} \subseteq Values /\ <<>> \in Seq(Stores) /\ <<>> \in Seq(SetTypes) /\ Len(<<>>) = 0
    BY SettingsAssumption
  <2>2. vals \in [SetTypes -> Values \cup {Empty}] /\ modified \in [SetTypes -> BOOLEAN] /\ globals \in [{"opl", "net"} -> Values]
    BY <2>1 DEF StInit, Blank
  <2>3. told \in Reports /\ told.changed = {}
    BY DEF StInit, NoReport, Reports
  <2>4. StTypes
    <3>1. dir \in Stores /\ legacyAt \in Stores /\ cwd \in Stores
      BY DEF StInit, Blank, Stores
    <3>2. result \in Nat /\ result + Len(todo) <= 3
      BY <2>1 DEF StInit
    <3>3. files \in [Stores -> [SetTypes -> Values \cup {NoFile, Empty}]]
      BY DEF StInit
    <3> QED
      BY <2>1, <2>2, <2>3, <3>1, <3>2, <3>3 DEF StInit, StTypes
  <2>5. LoadInv /\ SaveInv
    BY <2>3 DEF StInit, LoadInv, SaveInv, SaveTellsTruth
  <2> QED
    BY <2>4, <2>5 DEF StInv
<1>2. StInv /\ [StNext]_stVars => StInv'
  BY StTypesStep, LoadStep, SaveStep DEF StInv
<1> QED
  BY <1>1, <1>2, PTL DEF StSpec

(* A start with the card in its slot uses the card's settings, and what a  *)
(* save says of a changed set is so, for any settings, whatever is         *)
(* connected and in whichever order devices are tried.                     *)
THEOREM SettingsStayKept == StSpec => []SettingsAreKept
<1>1. StInv => SettingsAreKept
  BY DEF StInv, LoadInv, SaveInv, SettingsAreKept, CardIsLoaded
<1> QED
  BY <1>1, SettingsInvariance, PTL

(* The variables of the settings have their types.                         *)
THEOREM SettingsTyped == StSpec => []StTypeOK
<1>1. StInv => StTypeOK
  <2>. SUFFICES ASSUME StInv PROVE StTypeOK
    OBVIOUS
  <2>1. StTypes
    BY DEF StInv
  <2>2. result \in 0 .. 3
    <3>1. Len(todo) \in Nat /\ result \in Nat /\ result + Len(todo) <= 3
      BY <2>1 DEF StTypes
    <3>. QED BY <3>1
  <2>. QED BY <2>1, <2>2 DEF StTypes, StTypeOK
<1>. QED BY <1>1, SettingsInvariance, PTL

----------------------------------------------------------------------------
(* The creation of virtual memory cards.                                   *)

ErasesN == Ceil(VmcClusters, VmcErase)
FatN == Ceil(AllocEnd - AllocOffset, VmcEntries)
FormatN == ErasesN + IfcLength + FatN + 2

(* The file after the first k writes of vmc_mcformat: its length, and what *)
(* is in a cluster.                                                        *)
PartialLen(k) == IF k < ErasesN THEN k * VmcErase ELSE VmcClusters
Content(k, c) ==
    IF k = FormatN /\ c = 1 THEN "super"
    ELSE IF k > ErasesN + IfcLength + FatN /\ c = AllocOffset + 1 THEN "root"
    ELSE IF FatIndex < c /\ c <= FatIndex + FatN /\ c <= FatIndex + (k - ErasesN - IfcLength) THEN "fat"
    ELSE IF IfcIndex < c /\ c <= FatIndex /\ c <= IfcIndex + (k - ErasesN) THEN "ifc"
    ELSE "erased"
Partial(k) == [c \in 1 .. PartialLen(k) |-> Content(k, c)]

Torn == {Partial(k) : k \in 0 .. FormatN}

(* What a file is: none, or as far as some creation came.                  *)
FileInv ==
    /\ vmcFile \in Torn \cup {NoVmc}
    /\ vmcThread \in {"write", "writing"} => vmcFile = Partial(vmcAt - 1)
    /\ vmcThread = "close" /\ vmcResult = "ok" => vmcFile = Whole

(* The thread works only for an operation of the screen, and one that      *)
(* waits for a semaphore taken by an error waits for ever.                 *)
OwnerInv ==
    /\ vmcThread \in {"none", "start", "open", "write", "writing", "close"}
    /\ vmcAt \in 1 .. FormatN + 1 /\ (vmcThread = "writing" => vmcAt <= FormatN)
    /\ vmcStats \in [busy : BOOLEAN, error : BOOLEAN] /\ vmcOperation \in BOOLEAN /\ vmcRefused \in BOOLEAN
    /\ vmcThread \in {"none", "start", "open"} => vmcAt = 1
    /\ vmcThread \notin {"none", "start"} => ~vmcRefused
    /\ vmcThread \notin {"none", "start"} => vmcOperation /\ vmcStats = [busy |-> TRUE, error |-> FALSE]
    /\ vmcThread \in {"none", "start"} => ~vmcStats.busy
    /\ abortSema \in {"free", "thread", "lost"} /\ (abortSema = "thread" <=> vmcThread = "writing")
    /\ vmcThread = "start" => abortSema = "lost"
    /\ abortSema = "lost" => vmcThread \in {"none", "start", "close"}
    /\ abortSema = "lost" /\ vmcThread = "close" => vmcResult = "error"
    /\ abortSema = "lost" /\ vmcThread # "close" => vmcStats.error

(* What the screen will say, or has said, of the operation.                *)
ToldInv ==
    /\ vmcGui # "idle" => vmcOperation
    /\ finishedSema # "none" => vmcGui = "waits"
    /\ finishedSema = "signalled" => vmcThread \in {"none", "start"} /\ vmcFile = NoVmc
    /\ (vmcOperation /\ vmcThread = "none" /\ ~vmcStats.error /\ ~vmcRefused /\ vmcGui = "idle") => vmcFile = Whole
    /\ (~vmcOperation /\ vmcStatus = 0 /\ ~vmcStats.error /\ ~vmcRefused
           /\ SizeOf(vmcFile) = VmcClusters \div VmcMega) => vmcFile = Whole
    /\ vmcRefused => vmcFile = NoVmc
    /\ ToldIsTrue

VmcInv == FileInv /\ OwnerInv /\ ToldInv

(* The types of the rest.                                                  *)
VmcRest ==
    /\ vmcResult \in {"ok", "abort", "error"}
    /\ finishedSema \in {"none", "locked", "signalled"}
    /\ vmcGui \in {"idle", "abort", "aborted", "waits"} /\ vmcStatus \in -1 .. 2
    /\ vmcUses \in 0 .. MaxVmcUses /\ vmcFaults \in 0 .. MaxVmcFaults
    /\ vmcTold \in {"nothing", "successful", "failed", "aborted"}

----------------------------------------------------------------------------
(* The layout of a virtual memory card.                                    *)

(* The bounds of a division that is rounded up.                            *)
LEMMA CeilPositive ==
    ASSUME NEW n \in Nat \ {0}, NEW d \in Nat \ {0}
    PROVE  Ceil(n, d) \in Nat \ {0}
<1>1. (n - 1) \div d \in Nat
  BY SMT
<1>. QED BY <1>1 DEF Ceil

(* A multiple that is divided, rounded up, is divided exactly: vmc_mcformat *)
(* erases the whole card and nothing behind it.                            *)
LEMMA CeilExact ==
    ASSUME NEW n \in Nat \ {0}, NEW d \in Nat \ {0}, n % d = 0
    PROVE  Ceil(n, d) * d = n
<1>. DEFINE p == (n - 1) \div d
            q == n \div d
<1>1. p \in Int /\ (n - 1) % d \in 0 .. d - 1 /\ n - 1 = d * p + ((n - 1) % d)
  BY SMT
<1>2. q \in Int /\ n = d * q
  BY SMT
<1>3. ASSUME NEW x \in Int, NEW y \in Int, NEW r \in 0 .. d - 1, n - 1 = d * x + r, n = d * y
      PROVE  (x + 1) * d = n
  <2>1. d * (y - x) = r + 1
    BY <1>3, SMT
  <2>2. y - x = 1
    <3>1. CASE y - x <= 0
      BY <1>3, <2>1, <3>1, SMT
    <3>2. CASE y - x >= 2
      <4>1. d * (y - x) >= 2 * d
        BY <3>2, <1>3, SMT
      <4>. QED BY <4>1, <2>1, <1>3, SMT
    <3>. QED BY <3>1, <3>2, <1>3, SMT
  <2>. QED BY <2>2, <1>3, SMT
<1>4. (p + 1) * d = n
  <2>1. PICK r \in 0 .. d - 1 : n - 1 = d * p + r
    BY <1>1
  <2>. HIDE DEF p, q
  <2>. QED BY <1>1, <1>2, <1>3, <2>1
<1>. QED BY <1>4 DEF Ceil

(* The constants are positive.                                             *)
LEMMA VmcConstants ==
    /\ VmcClusters \in Nat \ {0} /\ VmcBlock \in Nat \ {0} /\ VmcEntries \in Nat \ {0}
    /\ VmcErase \in Nat \ {0} /\ VmcMega \in Nat \ {0} /\ VmcMaxIfc \in Nat \ {0}
    /\ MaxVmcUses \in Nat /\ MaxVmcFaults \in Nat
<1>1. {VmcClusters, VmcBlock, VmcEntries, VmcErase, VmcMega, VmcMaxIfc} \subseteq Nat \ {0}
  BY VmcFits
<1>2. {MaxVmcUses, MaxVmcFaults} \subseteq Nat
  BY VmcFits
<1>. QED BY <1>1, <1>2, Zenon

(* The tables follow each other behind the first block and end before the  *)
(* last cluster, and the card is a whole number of erased runs and of      *)
(* megabytes.                                                              *)
LEMMA VmcLayout ==
    /\ ErasesN \in Nat \ {0} /\ ErasesN * VmcErase = VmcClusters
    /\ IfcLength \in Nat /\ FatLength \in Nat /\ FatN \in Nat \ {0} /\ FatN <= FatLength
    /\ IfcIndex \in Nat \ {0} /\ FatIndex = IfcIndex + IfcLength
    /\ AllocOffset = FatIndex + FatLength /\ AllocOffset < VmcClusters
    /\ FormatN = ErasesN + IfcLength + FatN + 2
    /\ VmcClusters \div VmcMega \in Nat \ {0}
<1>1. ErasesN \in Nat \ {0} /\ ErasesN * VmcErase = VmcClusters
  BY VmcConstants, VmcFits, CeilPositive, CeilExact DEF ErasesN
<1>2. 4 * VmcEntries \in Nat \ {0} /\ 4 * VmcClusters \in Nat \ {0} /\ VmcEntries * VmcMaxIfc \in Nat
  BY VmcConstants
<1>3. FatNeeded \in Nat \ {0}
  BY <1>2, CeilPositive DEF FatNeeded
<1>4. Ceil(4 * FatNeeded, 4 * VmcEntries) \in Nat \ {0}
  <2>1. 4 * FatNeeded \in Nat \ {0}
    BY <1>3
  <2>. QED BY <2>1, <1>2, CeilPositive
<1>5. IfcLength \in Nat /\ FatLength \in Nat
  BY <1>2, <1>3, <1>4, VmcConstants DEF IfcLength, FatLength
<1>6. IfcIndex \in Nat \ {0} /\ FatIndex = IfcIndex + IfcLength /\ AllocOffset = FatIndex + FatLength
      /\ AllocOffset < VmcClusters
  BY VmcConstants, VmcFits DEF IfcIndex, FatIndex, AllocOffset
<1>7. AllocEnd \in Int /\ AllocOffset \in Int
  <2>1. ASSUME NEW n \in Nat \ {0}, NEW d \in Nat \ {0} PROVE ((n \div d) - 2) * d \in Int
    BY SMT
  <2>2. AllocEnd \in Int
    BY <2>1, VmcConstants DEF AllocEnd
  <2>. QED BY <2>2, <1>5, <1>6
<1>8. FatN \in Nat \ {0} /\ FatN <= FatLength
  <2>1. AllocEnd - AllocOffset >= VmcBlock /\ Ceil(AllocEnd - AllocOffset, VmcEntries) <= FatLength
    BY VmcFits
  <2>2. AllocEnd - AllocOffset \in Nat \ {0}
    BY <1>7, <2>1, VmcConstants
  <2>. QED BY <2>1, <2>2, VmcConstants, CeilPositive DEF FatN
<1>9. VmcClusters \div VmcMega \in Nat \ {0}
  <2>1. ASSUME NEW n \in Nat \ {0}, NEW d \in Nat \ {0}, n % d = 0 PROVE n \div d \in Nat \ {0}
    BY <2>1, SMT
  <2>. QED BY <2>1, VmcConstants, VmcFits
<1>10. FormatN = ErasesN + IfcLength + FatN + 2
  BY DEF FormatN
<1>. QED BY <1>1, <1>5, <1>6, <1>8, <1>9, <1>10

(* The writes of a creation, by their number.                              *)
WriteAt(k) ==
    IF k < ErasesN THEN At(k * VmcErase, VmcErase, "erased")
    ELSE IF k < ErasesN + IfcLength THEN At(IfcIndex + (k - ErasesN), 1, "ifc")
    ELSE IF k < ErasesN + IfcLength + FatN THEN At(FatIndex + (k - ErasesN - IfcLength), 1, "fat")
    ELSE IF k = ErasesN + IfcLength + FatN THEN At(AllocOffset, 1, "root")
    ELSE At(0, 1, "super")

(* The writes of vmc_mcformat: the card is erased, the tables and the root *)
(* directory are written, and the superblock last.                         *)
LEMMA FormatEntries ==
    /\ Len(Format) = FormatN /\ Len(Erases) = ErasesN /\ Len(FatWrites) = FatN
    /\ \A k \in 0 .. FormatN - 1 : Format[k + 1] = WriteAt(k)
<1>. DEFINE W == [cluster : Int, dup : Int, what : {"erased", "ifc", "fat", "root", "super"}]
<1>1. /\ ErasesN \in Nat /\ IfcLength \in Nat /\ FatN \in Nat /\ VmcErase \in Int
      /\ IfcIndex \in Int /\ FatIndex \in Int /\ AllocOffset \in Int
      /\ FormatN = ErasesN + IfcLength + FatN + 2
  BY VmcLayout, VmcConstants
<1>2. Erases \in Seq(W) /\ Len(Erases) = ErasesN
      /\ \A k \in 0 .. ErasesN - 1 : Erases[k + 1] = At(k * VmcErase, VmcErase, "erased")
  <2>1. \A k \in 1 .. ErasesN : At((k - 1) * VmcErase, VmcErase, "erased") \in W
    BY <1>1 DEF At
  <2>2. Erases = [k \in 1 .. ErasesN |-> At((k - 1) * VmcErase, VmcErase, "erased")]
    BY DEF Erases, ErasesN
  <2>3. \A k \in 0 .. ErasesN - 1 : k + 1 \in 1 .. ErasesN /\ (k + 1) - 1 = k
    BY <1>1
  <2>. QED BY <1>1, <2>1, <2>2, <2>3
<1>3. IfcWrites \in Seq(W) /\ Len(IfcWrites) = IfcLength
      /\ \A k \in 0 .. IfcLength - 1 : IfcWrites[k + 1] = At(IfcIndex + k, 1, "ifc")
  <2>1. \A k \in 1 .. IfcLength : At(IfcIndex + k - 1, 1, "ifc") \in W
    BY <1>1 DEF At
  <2>2. \A k \in 0 .. IfcLength - 1 : k + 1 \in 1 .. IfcLength /\ IfcIndex + (k + 1) - 1 = IfcIndex + k
    BY <1>1
  <2>. QED BY <1>1, <2>1, <2>2 DEF IfcWrites
<1>4. FatWrites \in Seq(W) /\ Len(FatWrites) = FatN
      /\ \A k \in 0 .. FatN - 1 : FatWrites[k + 1] = At(FatIndex + k, 1, "fat")
  <2>1. \A k \in 1 .. FatN : At(FatIndex + k - 1, 1, "fat") \in W
    BY <1>1 DEF At
  <2>2. \A k \in 0 .. FatN - 1 : k + 1 \in 1 .. FatN /\ FatIndex + (k + 1) - 1 = FatIndex + k
    BY <1>1
  <2>3. FatWrites = [k \in 1 .. FatN |-> At(FatIndex + k - 1, 1, "fat")]
    BY DEF FatWrites, FatN
  <2>. QED BY <1>1, <2>1, <2>2, <2>3
<1>5. At(AllocOffset, 1, "root") \in W /\ At(0, 1, "super") \in W
  BY <1>1 DEF At
<1>. DEFINE Placed(f, a, b, c, r, s, k) ==
              /\ Len(f) = Len(a) + Len(b) + Len(c) + 2
              /\ k < Len(a) => f[k + 1] = a[k + 1]
              /\ k >= Len(a) /\ k < Len(a) + Len(b) => f[k + 1] = b[k - Len(a) + 1]
              /\ k >= Len(a) + Len(b) /\ k < Len(a) + Len(b) + Len(c) => f[k + 1] = c[k - Len(a) - Len(b) + 1]
              /\ k = Len(a) + Len(b) + Len(c) => f[k + 1] = r
              /\ k > Len(a) + Len(b) + Len(c) => f[k + 1] = s
<1>6. ASSUME NEW S, NEW a \in Seq(S), NEW b \in Seq(S), NEW c \in Seq(S), NEW r \in S, NEW s \in S,
             NEW k \in 0 .. Len(a) + Len(b) + Len(c) + 1
      PROVE  Placed(a \o b \o c \o <<r>> \o <<s>>, a, b, c, r, s, k)
  BY <1>6
<1>7. \A k \in 0 .. FormatN - 1 :
         /\ Len(Format) = ErasesN + IfcLength + FatN + 2
         /\ k < ErasesN => Format[k + 1] = Erases[k + 1]
         /\ k >= ErasesN /\ k < ErasesN + IfcLength => Format[k + 1] = IfcWrites[k - ErasesN + 1]
         /\ k >= ErasesN + IfcLength /\ k < ErasesN + IfcLength + FatN => Format[k + 1] = FatWrites[k - ErasesN - IfcLength + 1]
         /\ k = ErasesN + IfcLength + FatN => Format[k + 1] = At(AllocOffset, 1, "root")
         /\ k > ErasesN + IfcLength + FatN => Format[k + 1] = At(0, 1, "super")
  <2>0. SUFFICES ASSUME NEW k \in 0 .. FormatN - 1
        PROVE  /\ Len(Format) = ErasesN + IfcLength + FatN + 2
               /\ k < ErasesN => Format[k + 1] = Erases[k + 1]
               /\ k >= ErasesN /\ k < ErasesN + IfcLength => Format[k + 1] = IfcWrites[k - ErasesN + 1]
               /\ k >= ErasesN + IfcLength /\ k < ErasesN + IfcLength + FatN => Format[k + 1] = FatWrites[k - ErasesN - IfcLength + 1]
               /\ k = ErasesN + IfcLength + FatN => Format[k + 1] = At(AllocOffset, 1, "root")
               /\ k > ErasesN + IfcLength + FatN => Format[k + 1] = At(0, 1, "super")
    OBVIOUS
  <2>1. k \in 0 .. ErasesN + IfcLength + FatN + 1
    BY <1>1, <2>0
  <2>2. Len(Erases) = ErasesN /\ Len(IfcWrites) = IfcLength /\ Len(FatWrites) = FatN
    BY <1>2, <1>3, <1>4
  <2>3. k \in 0 .. Len(Erases) + Len(IfcWrites) + Len(FatWrites) + 1
    BY <2>1, <2>2, Zenon
  <2>4. Placed(Format, Erases, IfcWrites, FatWrites, At(AllocOffset, 1, "root"), At(0, 1, "super"), k)
    <3>. HIDE DEF Placed, W
    <3>1. Erases \in Seq(W) /\ IfcWrites \in Seq(W) /\ FatWrites \in Seq(W)
      BY <1>2, <1>3, <1>4
    <3>. QED BY <1>5, <1>6, <2>3, <3>1, Zenon DEF Format
  <2>. QED BY <2>2, <2>4, Zenon
<1>8. \A k \in 0 .. FormatN - 1 : Format[k + 1] = WriteAt(k)
  <2>. SUFFICES ASSUME NEW k \in 0 .. FormatN - 1 PROVE Format[k + 1] = WriteAt(k)
    OBVIOUS
  <2>1. CASE k < ErasesN
    BY <2>1, <1>1, <1>2, <1>7 DEF WriteAt
  <2>2. CASE k >= ErasesN /\ k < ErasesN + IfcLength
    <3>1. k - ErasesN \in 0 .. IfcLength - 1 /\ ~(k < ErasesN)
      BY <2>2, <1>1
    <3>. QED BY <2>2, <3>1, <1>1, <1>3, <1>7 DEF WriteAt
  <2>3. CASE k >= ErasesN + IfcLength /\ k < ErasesN + IfcLength + FatN
    <3>1. k - ErasesN - IfcLength \in 0 .. FatN - 1 /\ ~(k < ErasesN) /\ ~(k < ErasesN + IfcLength)
      BY <2>3, <1>1
    <3>. QED BY <2>3, <3>1, <1>1, <1>4, <1>7 DEF WriteAt
  <2>4. CASE k >= ErasesN + IfcLength + FatN
    <3>1. ~(k < ErasesN) /\ ~(k < ErasesN + IfcLength) /\ ~(k < ErasesN + IfcLength + FatN)
      BY <2>4, <1>1
    <3>2. CASE k = ErasesN + IfcLength + FatN
      BY <3>1, <3>2, <1>7, Zenon DEF WriteAt
    <3>3. CASE k > ErasesN + IfcLength + FatN
      <4>1. k # ErasesN + IfcLength + FatN
        BY <3>3, <1>1
      <4>. QED BY <3>1, <3>3, <4>1, <1>7, Zenon DEF WriteAt
    <3>. QED BY <2>4, <3>2, <3>3, <1>1
  <2>. QED BY <2>1, <2>2, <2>3, <2>4, <1>1
<1>9. Len(Format) = FormatN
  <2>1. 0 \in 0 .. FormatN - 1
    BY <1>1
  <2>2. Len(Format) = ErasesN + IfcLength + FatN + 2
    BY <2>1, <1>7, Zenon
  <2>. QED BY <2>2, <1>1
<1>. QED BY <1>2, <1>4, <1>8, <1>9

(* The length of a file that is being made.                                *)
LEMMA PartialLength ==
    ASSUME NEW k \in 0 .. FormatN
    PROVE  /\ PartialLen(k) \in Nat /\ Len(Partial(k)) = PartialLen(k)
           /\ PartialLen(k) <= VmcClusters
           /\ k < ErasesN => PartialLen(k) = k * VmcErase /\ PartialLen(k + 1) = k * VmcErase + VmcErase
           /\ k >= ErasesN => PartialLen(k) = VmcClusters
<1>1. /\ ErasesN \in Nat \ {0} /\ VmcErase \in Nat \ {0} /\ VmcClusters \in Nat \ {0} /\ k \in Nat
      /\ ErasesN * VmcErase = VmcClusters
  BY VmcLayout, VmcConstants
<1>2. ASSUME NEW n \in Nat \ {0}, NEW e \in Nat \ {0}, NEW i \in Nat, i < n
      PROVE  /\ i * e \in Nat /\ (i + 1) * e = i * e + e /\ i * e <= n * e
             /\ ~(i + 1 < n) => i * e + e = n * e
  <2>1. i * e \in Nat /\ (i + 1) * e = i * e + e
    BY <1>2, SMT
  <2>2. i * e <= n * e
    BY <1>2, SMT
  <2>3. ASSUME ~(i + 1 < n) PROVE i * e + e = n * e
    <3>1. n = i + 1
      BY <2>3, <1>2
    <3>. QED BY <2>1, <3>1
  <2>. QED BY <2>1, <2>2, <2>3
<1>3. PartialLen(k) \in Nat /\ PartialLen(k) <= VmcClusters
  <2>1. CASE k < ErasesN
    BY <2>1, <1>1, <1>2 DEF PartialLen
  <2>2. CASE ~(k < ErasesN)
    BY <2>2, <1>1 DEF PartialLen
  <2>. QED BY <2>1, <2>2
<1>4. Len(Partial(k)) = PartialLen(k)
  BY <1>3 DEF Partial
<1>5. ASSUME k < ErasesN
      PROVE  PartialLen(k) = k * VmcErase /\ PartialLen(k + 1) = k * VmcErase + VmcErase
  <2>1. CASE k + 1 < ErasesN
    BY <2>1, <1>1, <1>2, <1>5 DEF PartialLen
  <2>2. CASE ~(k + 1 < ErasesN)
    BY <2>2, <1>1, <1>2, <1>5 DEF PartialLen
  <2>. QED BY <2>1, <2>2
<1>6. k >= ErasesN => PartialLen(k) = VmcClusters
  BY <1>1 DEF PartialLen
<1>. QED BY <1>3, <1>4, <1>5, <1>6

(* Each write of vmc_mcformat brings the file one step further.            *)
LEMMA WriteGoesOn ==
    ASSUME NEW k \in 0 .. FormatN - 1
    PROVE  Written(Partial(k), Format[k + 1]) = Partial(k + 1)
<1>0. /\ ErasesN \in Nat \ {0} /\ IfcLength \in Nat /\ FatLength \in Nat /\ FatN \in Nat \ {0}
      /\ FatN <= FatLength /\ IfcIndex \in Nat \ {0} /\ FatIndex = IfcIndex + IfcLength
      /\ AllocOffset = FatIndex + FatLength /\ AllocOffset < VmcClusters
      /\ FormatN = ErasesN + IfcLength + FatN + 2 /\ k \in Nat /\ k < FormatN
      /\ VmcErase \in Nat \ {0} /\ VmcClusters \in Nat
  BY VmcLayout, VmcConstants
<1>1. Format[k + 1] = WriteAt(k)
  BY FormatEntries
<1>2. /\ PartialLen(k) \in Nat /\ Len(Partial(k)) = PartialLen(k) /\ PartialLen(k + 1) \in Nat
      /\ k < ErasesN => PartialLen(k) = k * VmcErase /\ PartialLen(k + 1) = k * VmcErase + VmcErase
      /\ k >= ErasesN => PartialLen(k) = VmcClusters /\ PartialLen(k + 1) = VmcClusters
  <2>1. k \in 0 .. FormatN /\ k + 1 \in 0 .. FormatN
    BY <1>0
  <2>2. k >= ErasesN => k + 1 >= ErasesN
    BY <1>0
  <2>. QED BY <2>1, <2>2, PartialLength
<1>3. ASSUME NEW w, NEW a \in Int, NEW n \in Int, NEW m, w = At(a, n, m),
             PartialLen(k + 1) = IF PartialLen(k) < a + n THEN a + n ELSE PartialLen(k),
             \A c \in 1 .. PartialLen(k + 1) :
                IF c > a /\ c <= a + n THEN Content(k + 1, c) = m
                ELSE c \in 1 .. PartialLen(k) /\ Content(k + 1, c) = Content(k, c)
      PROVE  Written(Partial(k), w) = Partial(k + 1)
  <2>1. w.cluster = a /\ w.dup = n /\ w.what = m
    BY <1>3 DEF At
  <2>2. Written(Partial(k), w) =
          [c \in 1 .. PartialLen(k + 1) |-> IF c > a /\ c <= a + n THEN m ELSE Partial(k)[c]]
    BY <1>2, <1>3, <2>1 DEF Written
  <2>3. \A c \in 1 .. PartialLen(k + 1) :
          (IF c > a /\ c <= a + n THEN m ELSE Partial(k)[c]) = Content(k + 1, c)
    BY <1>3 DEF Partial
  <2>4. Partial(k + 1) = [c \in 1 .. PartialLen(k + 1) |-> Content(k + 1, c)]
    BY DEF Partial
  <2>. QED BY <2>2, <2>3, <2>4
<1>4. CASE k < ErasesN
  <2>. DEFINE x == k * VmcErase
  <2>1. x \in Nat /\ PartialLen(k) = x /\ PartialLen(k + 1) = x + VmcErase
    BY <1>0, <1>2, <1>4
  <2>2. WriteAt(k) = At(x, VmcErase, "erased")
    BY <1>4 DEF WriteAt
  <2>. HIDE DEF x
  <2>3. \A c \in Nat \ {0} : Content(k, c) = "erased" /\ Content(k + 1, c) = "erased"
    BY <1>0, <1>4 DEF Content
  <2>. QED BY <1>0, <1>1, <1>3, <2>1, <2>2, <2>3
<1>5. CASE k >= ErasesN /\ k < ErasesN + IfcLength
  <2>1. WriteAt(k) = At(IfcIndex + (k - ErasesN), 1, "ifc")
    BY <1>0, <1>5 DEF WriteAt
  <2>2. \A c \in 1 .. VmcClusters :
           IF c > IfcIndex + (k - ErasesN) /\ c <= IfcIndex + (k - ErasesN) + 1 THEN Content(k + 1, c) = "ifc"
           ELSE Content(k + 1, c) = Content(k, c)
    BY <1>0, <1>5 DEF Content
  <2>3. IfcIndex + (k - ErasesN) \in Int /\ IfcIndex + (k - ErasesN) + 1 <= VmcClusters
    BY <1>0, <1>5
  <2>. QED BY <1>0, <1>1, <1>2, <1>3, <1>5, <2>1, <2>2, <2>3
<1>6. CASE k >= ErasesN + IfcLength /\ k < ErasesN + IfcLength + FatN
  <2>. DEFINE x == FatIndex + (k - ErasesN - IfcLength)
  <2>1. WriteAt(k) = At(x, 1, "fat")
    BY <1>0, <1>6 DEF WriteAt
  <2>2. \A c \in 1 .. VmcClusters :
           IF c > x /\ c <= x + 1 THEN Content(k + 1, c) = "fat" ELSE Content(k + 1, c) = Content(k, c)
    BY <1>0, <1>6 DEF Content
  <2>3. x \in Int /\ k >= ErasesN /\ x + 1 <= VmcClusters
    BY <1>0, <1>6
  <2>. HIDE DEF x
  <2>. QED BY <1>0, <1>1, <1>2, <1>3, <2>1, <2>2, <2>3
<1>7. CASE k = ErasesN + IfcLength + FatN
  <2>1. WriteAt(k) = At(AllocOffset, 1, "root")
    BY <1>0, <1>7 DEF WriteAt
  <2>2. \A c \in 1 .. VmcClusters :
           IF c > AllocOffset /\ c <= AllocOffset + 1 THEN Content(k + 1, c) = "root"
           ELSE Content(k + 1, c) = Content(k, c)
    BY <1>0, <1>7 DEF Content
  <2>3. AllocOffset \in Int /\ k >= ErasesN /\ AllocOffset + 1 <= VmcClusters
    BY <1>0, <1>7
  <2>. QED BY <1>0, <1>1, <1>2, <1>3, <2>1, <2>2, <2>3
<1>8. CASE k > ErasesN + IfcLength + FatN
  <2>1. WriteAt(k) = At(0, 1, "super")
    BY <1>0, <1>8 DEF WriteAt
  <2>2. \A c \in 1 .. VmcClusters :
           IF c > 0 /\ c <= 0 + 1 THEN Content(k + 1, c) = "super"
           ELSE Content(k + 1, c) = Content(k, c)
    BY <1>0, <1>8 DEF Content
  <2>3. k >= ErasesN /\ 0 + 1 <= VmcClusters
    BY <1>0, <1>8
  <2>. QED BY <1>0, <1>1, <1>2, <1>3, <2>1, <2>2, <2>3
<1>. QED BY <1>0, <1>4, <1>5, <1>6, <1>7, <1>8

(* A creation begins with an empty file and ends with a whole one, and     *)
(* only a whole one has both the length of a card and a superblock.        *)
LEMMA PartialEnds ==
    /\ Partial(0) = <<>> /\ Partial(FormatN) = Whole
    /\ \A k \in 0 .. FormatN :
          Len(Partial(k)) = VmcClusters /\ Partial(k)[1] = "super" => k = FormatN
<1>0. /\ ErasesN \in Nat \ {0} /\ IfcLength \in Nat /\ FatLength \in Nat /\ FatN \in Nat \ {0}
      /\ FatN <= FatLength /\ IfcIndex \in Nat \ {0} /\ FatIndex = IfcIndex + IfcLength
      /\ AllocOffset = FatIndex + FatLength /\ AllocOffset < VmcClusters
      /\ FormatN = ErasesN + IfcLength + FatN + 2
      /\ VmcErase \in Nat \ {0} /\ VmcClusters \in Nat \ {0}
  BY VmcLayout, VmcConstants
<1>1. Partial(0) = <<>>
  <2>1. 0 \in 0 .. FormatN /\ 0 < ErasesN /\ 0 * VmcErase = 0
    BY <1>0
  <2>2. PartialLen(0) = 0
    BY <2>1, PartialLength
  <2>. QED BY <2>2 DEF Partial
<1>2. Partial(FormatN) = Whole
  <2>1. PartialLen(FormatN) = VmcClusters
    BY <1>0 DEF PartialLen
  <2>2. \A c \in 1 .. VmcClusters :
          Content(FormatN, c) = CASE c = 1 -> "super"
                                  [] c > IfcIndex /\ c <= FatIndex -> "ifc"
                                  [] c > FatIndex /\ c <= FatIndex + FatN -> "fat"
                                  [] c = AllocOffset + 1 -> "root"
                                  [] OTHER -> "erased"
    BY <1>0 DEF Content
  <2>3. Len(FatWrites) = FatN
    BY FormatEntries
  <2>. QED BY <2>1, <2>2, <2>3 DEF Partial, Whole
<1>3. ASSUME NEW k \in 0 .. FormatN, Len(Partial(k)) = VmcClusters, Partial(k)[1] = "super"
      PROVE  k = FormatN
  <2>1. 1 \in 1 .. PartialLen(k)
    BY <1>0, <1>3, PartialLength
  <2>2. Content(k, 1) = "super"
    BY <1>3, <2>1 DEF Partial
  <2>. QED BY <2>2 DEF Content
<1>. QED BY <1>1, <1>2, <1>3

(* A file that was made as far as it may have been is taken by the         *)
(* emulation only if it is whole.                                          *)
LEMMA TornIsRefused ==
    ASSUME vmcFile \in Torn \cup {NoVmc}
    PROVE  AcceptedIsFormatted
<1>1. CASE vmcFile = NoVmc
  BY <1>1 DEF AcceptedIsFormatted
<1>2. CASE vmcFile # NoVmc
  <2>1. PICK k \in 0 .. FormatN : vmcFile = Partial(k)
    BY <1>2 DEF Torn
  <2>. QED BY <2>1, PartialEnds DEF AcceptedIsFormatted
<1>. QED BY <1>1, <1>2

(* A file that is not there has the size of no card.                       *)
LEMMA NoCardIsSized == SizeOf(NoVmc) = -1 /\ SizeOf(NoVmc) # VmcClusters \div VmcMega
BY VmcLayout DEF SizeOf

(* Every step keeps the file as far as some creation came.                 *)
LEMMA FileStep == VmcInv /\ [VmcNext]_vmcVars => FileInv'
<1>. SUFFICES ASSUME VmcInv, [VmcNext]_vmcVars PROVE FileInv'
  OBVIOUS
<1>0. FileInv /\ OwnerInv /\ ToldInv /\ FormatN \in Nat \ {0} /\ Len(Format) = FormatN
  BY VmcLayout, FormatEntries DEF VmcInv
<1>1. ASSUME LoadVmcScreen PROVE FileInv'
  BY <1>0, <1>1 DEF LoadVmcScreen, VmcUse, FileInv, OwnerInv, vmcIop, vmcScreen
<1>2. ASSUME CreateVmc PROVE FileInv'
  BY <1>0, <1>2 DEF CreateVmc, VmcUse, CanStart, Begin, VmcFault, FileInv,
     OwnerInv, vmcIop, vmcScreen
<1>3. ASSUME PollVmc PROVE FileInv'
  BY <1>0, <1>3 DEF PollVmc, FileInv, OwnerInv, vmcIop, vmcScreen
<1>4. ASSUME DeleteVmc PROVE FileInv'
  BY <1>0, <1>4 DEF DeleteVmc, VmcUse, FileInv, OwnerInv, vmcIop, vmcScreen
<1>5. ASSUME AbortVmc PROVE FileInv'
  BY <1>0, <1>5 DEF AbortVmc, VmcUse, FileInv, OwnerInv, vmcIop, vmcScreen
<1>6. ASSUME AbortSet PROVE FileInv'
  BY <1>0, <1>6 DEF AbortSet, FileInv, OwnerInv, vmcIop, vmcScreen
<1>7. ASSUME AbortWaits PROVE FileInv'
  BY <1>0, <1>7 DEF AbortWaits, FileInv, OwnerInv, vmcIop, vmcScreen
<1>8. ASSUME AbortDone PROVE FileInv'
  BY <1>0, <1>8 DEF AbortDone, FileInv, OwnerInv, vmcIop, vmcScreen
<1>9. ASSUME StartVmc PROVE FileInv'
  BY <1>0, <1>9 DEF StartVmc, Begin, FileInv, OwnerInv, vmcIop, vmcScreen
<1>10. ASSUME OpenVmc PROVE FileInv'
  <2>1. Partial(0) = <<>> /\ 0 \in 0 .. FormatN
    BY <1>0, PartialEnds
  <2>2. CASE vmcFile' = <<>> /\ vmcThread' = "write"
    <3>1. vmcAt = 1 /\ vmcAt' = 1
      BY <1>0, <1>10 DEF OpenVmc, OwnerInv
    <3>. QED BY <2>1, <2>2, <3>1 DEF FileInv, Torn
  <2>3. CASE vmcResult' = "error" /\ vmcThread' = "close" /\ vmcFile' = vmcFile
    BY <1>0, <2>3 DEF FileInv
  <2>. QED BY <1>10, <2>2, <2>3 DEF OpenVmc
<1>11. ASSUME WriteBegin PROVE FileInv'
  BY <1>0, <1>11 DEF WriteBegin, FileInv, OwnerInv, vmcIop, vmcScreen
<1>12. ASSUME WriteEnd PROVE FileInv'
  <2>1. CASE vmcFile' = Written(vmcFile, Format[vmcAt]) /\ vmcAt' = vmcAt + 1 /\ vmcThread' = "write"
    <3>1. vmcAt - 1 \in 0 .. FormatN - 1 /\ vmcAt \in 0 .. FormatN /\ (vmcAt - 1) + 1 = vmcAt /\ vmcAt' - 1 = vmcAt
      BY <1>0, <1>12, <2>1 DEF WriteEnd, OwnerInv
    <3>2. vmcFile = Partial(vmcAt - 1)
      BY <1>0, <1>12 DEF WriteEnd, FileInv
    <3>3. vmcFile' = Partial(vmcAt)
      BY <2>1, <3>1, <3>2, WriteGoesOn
    <3>. QED BY <2>1, <3>1, <3>3 DEF FileInv, Torn
  <2>2. CASE vmcResult' = "error" /\ vmcThread' = "close" /\ vmcFile' = vmcFile
    BY <1>0, <2>2 DEF FileInv
  <2>. QED BY <1>12, <2>1, <2>2 DEF WriteEnd
<1>13. ASSUME NoIfcMemory PROVE FileInv'
  BY <1>0, <1>13 DEF NoIfcMemory, VmcFault, FileInv, OwnerInv, vmcIop, vmcScreen
<1>14. ASSUME FormatDone PROVE FileInv'
  <2>1. vmcAt - 1 = FormatN /\ vmcThread = "write"
    BY <1>0, <1>14 DEF FormatDone, OwnerInv
  <2>2. vmcFile = Whole /\ vmcFile' = vmcFile
    BY <1>0, <1>14, <2>1, PartialEnds DEF FormatDone, FileInv
  <2>. QED BY <1>0, <1>14, <2>2 DEF FormatDone, FileInv
<1>15. ASSUME ExitVmc PROVE FileInv'
  BY <1>0, <1>15 DEF ExitVmc, FileInv, OwnerInv, vmcIop, vmcScreen
<1>16. ASSUME VmcPowerCut PROVE FileInv'
  BY <1>0, <1>16 DEF VmcPowerCut, VmcFault, FileInv, OwnerInv, vmcIop, vmcScreen
<1>17. ASSUME UNCHANGED vmcVars PROVE FileInv'
  BY <1>0, <1>17 DEF vmcVars, FileInv, OwnerInv, vmcIop, vmcScreen
<1>. QED BY <1>1, <1>2, <1>3, <1>4, <1>5, <1>6, <1>7, <1>8, <1>9, <1>10, <1>11, <1>12, <1>13, <1>14, <1>15, <1>16, <1>17 DEF VmcNext, VmcGuiStep, VmcThreadStep

(* Every step keeps the thread working for an operation of the screen.     *)
LEMMA OwnerStep == VmcInv /\ [VmcNext]_vmcVars => OwnerInv'
<1>. SUFFICES ASSUME VmcInv, [VmcNext]_vmcVars PROVE OwnerInv'
  OBVIOUS
<1>0. FileInv /\ OwnerInv /\ ToldInv /\ FormatN \in Nat \ {0} /\ Len(Format) = FormatN
  BY VmcLayout, FormatEntries DEF VmcInv
<1>1. ASSUME LoadVmcScreen PROVE OwnerInv'
  BY <1>0, <1>1 DEF LoadVmcScreen, VmcUse, OwnerInv, vmcIop, vmcScreen
<1>2. ASSUME CreateVmc PROVE OwnerInv'
  <2>1. vmcThread \in {"none", "start"} /\ vmcAt = 1 /\ vmcOperation' = TRUE /\ abortSema' = abortSema
    BY <1>0, <1>2 DEF CreateVmc, OwnerInv
  <2>2. CASE UNCHANGED <<vmcThread, vmcAt, vmcStats, vmcRefused>>
    BY <1>0, <2>1, <2>2 DEF OwnerInv
  <2>3. CASE CanStart /\ Begin /\ vmcRefused' = FALSE
    <3>1. [busy |-> TRUE, error |-> FALSE] \in [busy : BOOLEAN, error : BOOLEAN]
      OBVIOUS
    <3>. QED BY <1>0, <2>1, <2>3, <3>1 DEF OwnerInv, CanStart, Begin
  <2>4. CASE ~CanStart /\ vmcThread' = "start" /\ UNCHANGED <<vmcAt, vmcStats>> /\ vmcRefused' = FALSE
    BY <1>0, <2>1, <2>4 DEF OwnerInv, CanStart
  <2>5. CASE UNCHANGED <<vmcThread, vmcAt, vmcStats>> /\ vmcRefused' = TRUE
    BY <1>0, <2>1, <2>5 DEF OwnerInv
  <2>. QED BY <2>1, <1>2, <2>2, <2>3, <2>4, <2>5 DEF CreateVmc
<1>3. ASSUME PollVmc PROVE OwnerInv'
  <2>1. vmcThread \in {"none", "start"}
    BY <1>0, <1>3 DEF PollVmc, OwnerInv
  <2>. QED BY <1>0, <1>3, <2>1 DEF PollVmc, OwnerInv, vmcIop
<1>4. ASSUME DeleteVmc PROVE OwnerInv'
  BY <1>0, <1>4 DEF DeleteVmc, VmcUse, OwnerInv, vmcIop, vmcScreen
<1>5. ASSUME AbortVmc PROVE OwnerInv'
  BY <1>0, <1>5 DEF AbortVmc, VmcUse, OwnerInv, vmcIop, vmcScreen
<1>6. ASSUME AbortSet PROVE OwnerInv'
  BY <1>0, <1>6 DEF AbortSet, OwnerInv, vmcIop, vmcScreen
<1>7. ASSUME AbortWaits PROVE OwnerInv'
  BY <1>0, <1>7 DEF AbortWaits, OwnerInv, vmcIop, vmcScreen
<1>8. ASSUME AbortDone PROVE OwnerInv'
  <2>1. vmcThread \in {"none", "start"}
    BY <1>0, <1>8 DEF AbortDone, ToldInv
  <2>. QED BY <1>0, <1>8, <2>1 DEF AbortDone, OwnerInv
<1>9. ASSUME StartVmc PROVE OwnerInv'
  BY <1>0, <1>9 DEF StartVmc, Begin, OwnerInv, vmcIop, vmcScreen
<1>10. ASSUME OpenVmc PROVE OwnerInv'
  BY <1>0, <1>10 DEF OpenVmc, VmcFault, OwnerInv, vmcIop, vmcScreen
<1>11. ASSUME WriteBegin PROVE OwnerInv'
  BY <1>0, <1>11 DEF WriteBegin, OwnerInv, vmcIop, vmcScreen
<1>12. ASSUME WriteEnd PROVE OwnerInv'
  BY <1>0, <1>12 DEF WriteEnd, VmcFault, OwnerInv, vmcIop, vmcScreen
<1>13. ASSUME NoIfcMemory PROVE OwnerInv'
  BY <1>0, <1>13 DEF NoIfcMemory, VmcFault, OwnerInv, vmcIop, vmcScreen
<1>14. ASSUME FormatDone PROVE OwnerInv'
  BY <1>0, <1>14 DEF FormatDone, OwnerInv, vmcIop, vmcScreen
<1>15. ASSUME ExitVmc PROVE OwnerInv'
  BY <1>0, <1>15 DEF ExitVmc, OwnerInv, vmcIop, vmcScreen
<1>16. ASSUME VmcPowerCut PROVE OwnerInv'
  <2>1. [busy |-> FALSE, error |-> FALSE] \in [busy : BOOLEAN, error : BOOLEAN] /\ 1 \in 1 .. FormatN + 1
    BY <1>0
  <2>2. vmcStats' = [busy |-> FALSE, error |-> FALSE] /\ ~vmcStats'.busy
    BY <1>16 DEF VmcPowerCut
  <2>. QED BY <1>16, <2>1, <2>2 DEF VmcPowerCut, OwnerInv
<1>17. ASSUME UNCHANGED vmcVars PROVE OwnerInv'
  BY <1>0, <1>17 DEF vmcVars, OwnerInv, vmcIop, vmcScreen
<1>. QED BY <1>1, <1>2, <1>3, <1>4, <1>5, <1>6, <1>7, <1>8, <1>9, <1>10, <1>11, <1>12, <1>13, <1>14, <1>15, <1>16, <1>17 DEF VmcNext, VmcGuiStep, VmcThreadStep

(* Every step keeps what the screen will say, or has said, true.           *)
LEMMA ToldStep == VmcInv /\ [VmcNext]_vmcVars => ToldInv'
<1>. SUFFICES ASSUME VmcInv, [VmcNext]_vmcVars PROVE ToldInv'
  OBVIOUS
<1>0. FileInv /\ OwnerInv /\ ToldInv /\ FormatN \in Nat \ {0} /\ Len(Format) = FormatN
  BY VmcLayout, FormatEntries DEF VmcInv
<1>1. ASSUME LoadVmcScreen PROVE ToldInv'
  <2>1. vmcStatus' = 0 => SizeOf(vmcFile) # VmcClusters \div VmcMega
    BY <1>1, VmcLayout DEF LoadVmcScreen
  <2>. QED BY <1>0, <1>1, <2>1 DEF LoadVmcScreen, ToldInv, ToldIsTrue, vmcIop
<1>2. ASSUME CreateVmc PROVE ToldInv'
  BY <1>0, <1>2, NoCardIsSized DEF CreateVmc, VmcUse, CanStart, Begin, VmcFault,
     FileInv, OwnerInv, ToldInv, ToldIsTrue, vmcIop, vmcScreen
<1>3. ASSUME PollVmc PROVE ToldInv'
  BY <1>0, <1>3, NoCardIsSized DEF PollVmc, FileInv, OwnerInv, ToldInv,
     ToldIsTrue, vmcIop, vmcScreen
<1>4. ASSUME DeleteVmc PROVE ToldInv'
  BY <1>0, <1>4, NoCardIsSized DEF DeleteVmc, VmcUse, FileInv, OwnerInv,
     ToldInv, ToldIsTrue, vmcIop, vmcScreen
<1>5. ASSUME AbortVmc PROVE ToldInv'
  BY <1>0, <1>5, NoCardIsSized DEF AbortVmc, VmcUse, FileInv, OwnerInv, ToldInv,
     ToldIsTrue, vmcIop, vmcScreen
<1>6. ASSUME AbortSet PROVE ToldInv'
  BY <1>0, <1>6, NoCardIsSized DEF AbortSet, FileInv, OwnerInv, ToldInv,
     ToldIsTrue, vmcIop, vmcScreen
<1>7. ASSUME AbortWaits PROVE ToldInv'
  BY <1>0, <1>7, NoCardIsSized DEF AbortWaits, FileInv, OwnerInv, ToldInv,
     ToldIsTrue, vmcIop, vmcScreen
<1>8. ASSUME AbortDone PROVE ToldInv'
  BY <1>0, <1>8, NoCardIsSized DEF AbortDone, FileInv, OwnerInv, ToldInv,
     ToldIsTrue, vmcIop, vmcScreen
<1>9. ASSUME StartVmc PROVE ToldInv'
  BY <1>0, <1>9, NoCardIsSized DEF StartVmc, Begin, FileInv, OwnerInv, ToldInv,
     ToldIsTrue, vmcIop, vmcScreen
<1>10. ASSUME OpenVmc PROVE ToldInv'
  BY <1>0, <1>10, NoCardIsSized DEF OpenVmc, VmcFault, FileInv, OwnerInv,
     ToldInv, ToldIsTrue, vmcIop, vmcScreen
<1>11. ASSUME WriteBegin PROVE ToldInv'
  BY <1>0, <1>11, NoCardIsSized DEF WriteBegin, FileInv, OwnerInv, ToldInv,
     ToldIsTrue, vmcIop, vmcScreen
<1>12. ASSUME WriteEnd PROVE ToldInv'
  BY <1>0, <1>12, NoCardIsSized DEF WriteEnd, VmcFault, FileInv, OwnerInv,
     ToldInv, ToldIsTrue, vmcIop, vmcScreen
<1>13. ASSUME NoIfcMemory PROVE ToldInv'
  BY <1>0, <1>13, NoCardIsSized DEF NoIfcMemory, VmcFault, FileInv, OwnerInv,
     ToldInv, ToldIsTrue, vmcIop, vmcScreen
<1>14. ASSUME FormatDone PROVE ToldInv'
  BY <1>0, <1>14, NoCardIsSized DEF FormatDone, FileInv, OwnerInv, ToldInv,
     ToldIsTrue, vmcIop, vmcScreen
<1>15. ASSUME ExitVmc PROVE ToldInv'
  BY <1>0, <1>15, NoCardIsSized DEF ExitVmc, FileInv, OwnerInv, ToldInv,
     ToldIsTrue, vmcIop, vmcScreen
<1>16. ASSUME VmcPowerCut PROVE ToldInv'
  BY <1>0, <1>16, NoCardIsSized DEF VmcPowerCut, VmcFault, FileInv, OwnerInv,
     ToldInv, ToldIsTrue, vmcIop, vmcScreen
<1>17. ASSUME UNCHANGED vmcVars PROVE ToldInv'
  BY <1>0, <1>17, NoCardIsSized DEF vmcVars, FileInv, OwnerInv, ToldInv,
     ToldIsTrue, vmcIop, vmcScreen
<1>. QED BY <1>1, <1>2, <1>3, <1>4, <1>5, <1>6, <1>7, <1>8, <1>9, <1>10, <1>11, <1>12, <1>13, <1>14, <1>15, <1>16, <1>17 DEF VmcNext, VmcGuiStep, VmcThreadStep

(* The invariant of the creation holds in every state.                     *)
THEOREM VmcInvariance == VmcSpec => []VmcInv
<1>1. VmcInit => VmcInv
  <2>. SUFFICES ASSUME VmcInit PROVE VmcInv
    OBVIOUS
  <2>1. FormatN \in Nat \ {0} /\ Whole = Partial(FormatN)
    BY VmcLayout, PartialEnds
  <2>2. FileInv
    BY <2>1 DEF VmcInit, FileInv, Torn
  <2>3. OwnerInv
    <3>1. [busy |-> FALSE, error |-> FALSE] \in [busy : BOOLEAN, error : BOOLEAN] /\ 1 \in 1 .. FormatN + 1
      BY <2>1
    <3>2. ~vmcStats.busy
      BY DEF VmcInit
    <3>. QED BY <3>1, <3>2 DEF VmcInit, OwnerInv
  <2>4. ToldInv
    BY DEF VmcInit, ToldInv, ToldIsTrue
  <2>. QED BY <2>2, <2>3, <2>4 DEF VmcInv
<1>2. VmcInv /\ [VmcNext]_vmcVars => VmcInv'
  BY FileStep, OwnerStep, ToldStep DEF VmcInv
<1>. QED BY <1>1, <1>2, PTL DEF VmcSpec

(* A virtual memory card that the emulation takes, or that the screen said *)
(* was created, is formatted, and one whose creation was aborted is gone,  *)
(* for cards of any size and layout that fits, wherever a creation is      *)
(* aborted, fails or loses its power.                                      *)
THEOREM CardsStayWhole == VmcSpec => []CardsAreWhole
<1>1. VmcInv => CardsAreWhole
  BY TornIsRefused DEF VmcInv, FileInv, ToldInv, CardsAreWhole
<1>. QED BY <1>1, VmcInvariance, PTL

(* Every step keeps the types of the rest.                                 *)
LEMMA RestStep == VmcRest /\ [VmcNext]_vmcVars => VmcRest'
<1>. SUFFICES ASSUME VmcRest, [VmcNext]_vmcVars PROVE VmcRest'
  OBVIOUS
<1>0. MaxVmcUses \in Nat /\ MaxVmcFaults \in Nat
  BY VmcConstants
<1>. USE DEF VmcRest, VmcUse, VmcFault, vmcIop, vmcScreen
<1>1. ASSUME LoadVmcScreen \/ CreateVmc PROVE VmcRest'
  BY <1>0, <1>1 DEF LoadVmcScreen, CreateVmc, Begin
<1>2. ASSUME PollVmc \/ DeleteVmc PROVE VmcRest'
  BY <1>0, <1>2 DEF PollVmc, DeleteVmc
<1>3. ASSUME AbortVmc \/ AbortSet \/ AbortWaits \/ AbortDone PROVE VmcRest'
  BY <1>0, <1>3 DEF AbortVmc, AbortSet, AbortWaits, AbortDone
<1>4. ASSUME StartVmc \/ OpenVmc PROVE VmcRest'
  BY <1>0, <1>4 DEF StartVmc, Begin, OpenVmc
<1>5. ASSUME WriteBegin \/ NoIfcMemory \/ FormatDone PROVE VmcRest'
  BY <1>0, <1>5 DEF WriteBegin, NoIfcMemory, FormatDone
<1>6. ASSUME WriteEnd \/ ExitVmc PROVE VmcRest'
  BY <1>0, <1>6 DEF WriteEnd, ExitVmc
<1>7. ASSUME VmcPowerCut PROVE VmcRest'
  BY <1>0, <1>7 DEF VmcPowerCut
<1>8. ASSUME UNCHANGED vmcVars PROVE VmcRest'
  BY <1>8 DEF vmcVars
<1>. QED
  BY <1>1, <1>2, <1>3, <1>4, <1>5, <1>6, <1>7, <1>8 DEF VmcNext, VmcGuiStep, VmcThreadStep

(* genvmc_abort is a flag.                                                 *)
LEMMA AbortStep == vmcAbort \in BOOLEAN /\ [VmcNext]_vmcVars => (vmcAbort \in BOOLEAN)'
<1>. SUFFICES ASSUME vmcAbort \in BOOLEAN, [VmcNext]_vmcVars
              PROVE  vmcAbort' \in {TRUE, FALSE, vmcAbort}
  OBVIOUS
<1>1. CASE CreateVmc
  BY <1>1, Zenon DEF CreateVmc, Begin
<1>2. CASE LoadVmcScreen \/ PollVmc \/ DeleteVmc \/ AbortVmc \/ AbortSet \/ AbortWaits \/ AbortDone
  BY <1>2, Zenon DEF LoadVmcScreen, PollVmc, DeleteVmc, AbortVmc, AbortSet, AbortWaits, AbortDone, vmcIop
<1>3. CASE VmcThreadStep
  BY <1>3, Zenon DEF VmcThreadStep, StartVmc, Begin, OpenVmc, WriteBegin, WriteEnd, NoIfcMemory,
                     FormatDone, ExitVmc
<1>4. CASE VmcPowerCut \/ UNCHANGED vmcVars
  BY <1>4, Zenon DEF VmcPowerCut, vmcVars, vmcIop
<1>. QED BY <1>1, <1>2, <1>3, <1>4 DEF VmcNext, VmcGuiStep

(* A file is a sequence of clusters.                                       *)
LEMMA VmcFileType ==
    ASSUME vmcFile \in Torn
    PROVE  vmcFile \in Seq({"erased", "ifc", "fat", "root", "super"})
<1>1. PICK k \in 0 .. FormatN : vmcFile = Partial(k)
  BY DEF Torn
<1>2. PartialLen(k) \in Nat
  BY PartialLength
<1>3. \A c \in 1 .. PartialLen(k) : Content(k, c) \in {"erased", "ifc", "fat", "root", "super"}
  BY DEF Content
<1>. QED BY <1>1, <1>2, <1>3 DEF Partial

(* The variables of the creation of a card have their types.               *)
THEOREM VmcTyped == VmcSpec => []VmcTypeOK
<1>1. VmcInit => VmcRest /\ vmcAbort \in BOOLEAN
  <2>1. VmcInit => VmcRest
    BY VmcConstants DEF VmcInit, VmcRest
  <2>2. VmcInit => vmcAbort \in BOOLEAN
    BY Zenon DEF VmcInit
  <2>. QED BY <2>1, <2>2
<1>2. (VmcRest /\ vmcAbort \in BOOLEAN) /\ [VmcNext]_vmcVars => (VmcRest /\ vmcAbort \in BOOLEAN)'
  BY RestStep, AbortStep
<1>3. VmcInv /\ (VmcRest /\ vmcAbort \in BOOLEAN) => VmcTypeOK
  <2>1. Len(Format) = FormatN
    BY FormatEntries
  <2>. QED BY <2>1, VmcFileType DEF VmcInv, FileInv, OwnerInv, VmcRest, VmcTypeOK
<1>. QED BY <1>1, <1>2, <1>3, VmcInvariance, PTL DEF VmcSpec

----------------------------------------------------------------------------
(* The list of the games of a device.                                      *)

(* The startup of an entry is one that a file of its name had in p.        *)
GlKnown(p, g) ==
    <<g.name, g.startup>> \in ever[p] \/ (smb /\ g.startup = g.name)

(* A list shows directory p as it is: its entries lead to files, no two to *)
(* the same one, and only an image that cannot be mounted has none.        *)
GlShows(list, p) ==
    /\ \A i \in DOMAIN list : list[i].dir = p => FileOf(list[i]) \in DOMAIN images[p]
    /\ \A i, j \in DOMAIN list :
         list[i].dir = p /\ list[j].dir = p /\ FileOf(list[i]) = FileOf(list[j]) => i = j
    /\ \A f \in DOMAIN images[p] :
         \/ f.id = NoId /\ ~smb /\ images[p][f] = Bad
         \/ \E i \in DOMAIN list : list[i].dir = p /\ FileOf(list[i]) = f

(* The entry's name is in the cache of its directory, or need not be.      *)
GlStored(g) ==
    \/ g.dir \in uncached \cup changed
    \/ bin[g.dir] # NoBin /\ InCache(bin[g.dir], g) # {}

(* The directories that this scan has read, and those it has cached.       *)
GlReadSoFar ==
    IF phase = "ul" THEN Paths
    ELSE {GlDirs[i] : i \in {j \in DOMAIN GlDirs : j < glDir \/ (phase = "cache" /\ j = glDir)}}
GlCachedSoFar ==
    IF phase = "ul" THEN Paths ELSE {GlDirs[i] : i \in {j \in DOMAIN GlDirs : j < glDir}}

(* What is kept says only what was there.                                  *)
GlWorldInv ==
    \A p \in Paths : \A f \in DOMAIN images[p] :
        <<f.name, IF f.id = NoId THEN images[p][f] ELSE f.id>> \in ever[p]
GlKeptInv ==
    /\ \A p \in Paths : bin[p] # NoBin => \A i \in DOMAIN bin[p] : GlKnown(p, bin[p][i])
    /\ \A i \in DOMAIN cache : GlKnown(Path, cache[i])
    /\ \A i \in DOMAIN dlist : GlKnown(dlist[i].dir, dlist[i])
    /\ \A i \in DOMAIN games : games[i].dir # "ul" => GlKnown(games[i].dir, games[i])

(* Between two scans, and during one.                                      *)
GlIdleInv ==
    phase = "idle" =>
        /\ dlist = <<>>
        /\ \A p \in Paths \ changed : GlShows(games, p)
        /\ \A i \in DOMAIN games : games[i].dir # "ul" => GlStored(games[i])
        /\ \A p \in changed : p \in unseen \/ ulSize = -2
GlScanInv ==
    phase # "idle" =>
        /\ \A i \in DOMAIN dlist : dlist[i].dir \in GlReadSoFar
        /\ \A p \in GlReadSoFar \ changed : GlShows(dlist, p)
        /\ \A p \in GlReadSoFar \cap changed : p \in unseen
        /\ \A i \in DOMAIN dlist : dlist[i].dir \in GlCachedSoFar => GlStored(dlist[i])

(* The first count entries are those of the directory that was read.       *)
GlFrontInv ==
    /\ phase # "cache" => count = 0
    /\ phase = "cache" =>
         /\ cache # <<>> => bin[Path] = cache
         /\ \A i \in DOMAIN dlist : dlist[i].dir = Path <=> i <= count

GlInv == GlTypeOK /\ GlWorldInv /\ GlKeptInv /\ GlIdleInv /\ GlScanInv /\ GlFrontInv

----------------------------------------------------------------------------
(* The directories of the scan.                                            *)
LEMMA GlPaths ==
    /\ DOMAIN GlDirs = 1 .. Len(GlDirs) /\ Len(GlDirs) \in Nat \ {0}
    /\ \A i \in DOMAIN GlDirs : GlDirs[i] \in Paths
    /\ \A p \in Paths : \E i \in DOMAIN GlDirs : GlDirs[i] = p
    /\ \A i, j \in DOMAIN GlDirs : GlDirs[i] = GlDirs[j] => i = j
    /\ "ul" \notin Paths
<1>1. GlDirs \in Seq(Paths) /\ GlDirs # <<>> BY GlConstants
<1>2. DOMAIN GlDirs = 1 .. Len(GlDirs) /\ Len(GlDirs) \in Nat \ {0} BY <1>1
<1> QED BY <1>2, GlConstants DEF Paths

(* The files of a directory, and what they hold.                           *)
LEMMA GlFileFacts ==
    ASSUME NEW p \in Paths, NEW f \in GlFiles[p]
    PROVE  /\ f = [id |-> f.id, name |-> f.name] /\ f.id # Bad /\ f.name \in GlNames
           /\ Contents(f) \subseteq GlStartups \cup {Bad}
           /\ f.id # NoId => f.id \in GlStartups
<1>1. f \in UNION {GlFiles[q] : q \in Paths} OBVIOUS
<1>2. f.name \in GlNames BY <1>1 DEF GlNames
<1>3. Contents(f) \subseteq GlStartups \cup {Bad} BY <1>1 DEF GlStartups
<1>4. f = [id |-> f.id, name |-> f.name] /\ f.id # Bad BY GlConstants
<1> QED BY <1>2, <1>3, <1>4 DEF Contents

(* A sequence is no mark of a missing file.                                *)
LEMMA GlSeqIsNoMark == ASSUME NEW s \in Seq(GlEntry) PROVE s # NoBin
BY GlConstants

(* The first entry of a cache that fits a file.                            *)
LEMMA GlFirst ==
    ASSUME NEW list \in Seq(GlEntry), NEW f, InCache(list, f) # {}
    PROVE  LET c == CHOOSE i \in InCache(list, f) : \A j \in InCache(list, f) : i <= j
           IN c \in DOMAIN list /\ list[c].name = f.name
<1> DEFINE S == InCache(list, f)
<1>1. S \subseteq Nat /\ S # {} BY DEF InCache
<1>2. \E i \in S : \A j \in S : i <= j BY <1>1, NatHasMin
<1> DEFINE c == CHOOSE i \in S : \A j \in S : i <= j
<1>3. c \in S BY <1>2
<1> QED BY <1>3 DEF InCache

(* The order of a directory has every file once.                           *)
LEMMA GlOrder ==
    ASSUME NEW S, IsFiniteSet(S), NEW order \in SetToSeqs(S)
    PROVE  /\ order \in Seq(S) /\ Len(order) \in Nat /\ DOMAIN order = 1 .. Len(order)
           /\ \A i, j \in DOMAIN order : order[i] = order[j] => i = j
           /\ \A f \in S : \E i \in DOMAIN order : order[i] = f
<1> DEFINE n == Cardinality(S)
<1>1. n \in Nat BY FS_CardinalityType
<1> HIDE DEF n
<1>2. order \in [1 .. n -> S] /\ \A i, j \in 1 .. n : i # j => order[i] # order[j]
  BY DEF SetToSeqs, n
<1>3. order \in Seq(S) /\ Len(order) = n BY <1>1, <1>2
<1>4. order \in Injection(1 .. n, S) BY <1>2 DEF Injection, IsInjective
<1>5. Cardinality(1 .. n) = n
  BY <1>1, FS_Interval
<1>6. order \in Surjection(1 .. n, S) BY <1>4, <1>5, FS_Injection DEF n
<1> QED BY <1>1, <1>2, <1>3, <1>6 DEF Surjection

(* Putting two lists one behind the other.                                 *)
LEMMA GlConcat ==
    ASSUME NEW S, NEW a \in Seq(S), NEW b \in Seq(S)
    PROVE  /\ a \o b \in Seq(S) /\ Len(a \o b) = Len(a) + Len(b)
           /\ DOMAIN (a \o b) = 1 .. Len(a) + Len(b)
           /\ \A i \in 1 .. Len(a) : (a \o b)[i] = a[i]
           /\ \A i \in 1 .. Len(b) : (a \o b)[Len(a) + i] = b[i]
           /\ \A i \in 1 .. Len(a) + Len(b) : i > Len(a) => i - Len(a) \in DOMAIN b /\ (a \o b)[i] = b[i - Len(a)]
OBVIOUS

(* The entry that scanForISO makes of a file.                              *)
LEMMA GlEntryOf ==
    ASSUME GlTypeOK, GlWorldInv, NEW list \in Seq(GlEntry),
           \A i \in DOMAIN list : GlKnown(Path, list[i]), NEW f \in Playable(list)
    PROVE  /\ EntryOf(list, f) \in GlEntry /\ EntryOf(list, f).dir = Path
           /\ FileOf(EntryOf(list, f)) = f /\ EntryOf(list, f).name = f.name
           /\ GlKnown(Path, EntryOf(list, f))
<1>1. Path \in Paths BY GlPaths DEF GlTypeOK, Path
<1>2. f \in DOMAIN images[Path] /\ f \in GlFiles[Path] BY <1>1 DEF Playable, GlTypeOK
<1>3. /\ f = [id |-> f.id, name |-> f.name] /\ f.name \in GlNames
      /\ f.id # NoId => f.id \in GlStartups
  BY <1>1, <1>2, GlFileFacts
<1>4. <<f.name, IF f.id = NoId THEN images[Path][f] ELSE f.id>> \in ever[Path]
  BY <1>1, <1>2 DEF GlWorldInv
<1>5. CASE f.id # NoId
  <2>1. EntryOf(list, f) = [dir |-> Path, old |-> TRUE, name |-> f.name, startup |-> f.id]
    BY <1>5 DEF EntryOf
  <2> QED BY <2>1, <1>1, <1>3, <1>4, <1>5 DEF GlEntry, FileOf, GlKnown
<1>6. CASE f.id = NoId /\ InCache(list, f) # {}
  <2> DEFINE c == CHOOSE i \in InCache(list, f) : \A j \in InCache(list, f) : i <= j
  <2>1. c \in DOMAIN list /\ list[c].name = f.name BY <1>6, GlFirst
  <2>2. EntryOf(list, f) = [list[c] EXCEPT !.dir = Path, !.old = FALSE]
    BY <1>6 DEF EntryOf, FromCache
  <2> HIDE DEF c
  <2>3. list[c] \in GlEntry /\ GlKnown(Path, list[c]) BY <2>1
  <2>4. /\ EntryOf(list, f) \in GlEntry /\ EntryOf(list, f).dir = Path
        /\ EntryOf(list, f).name = f.name /\ EntryOf(list, f).startup = list[c].startup
        /\ EntryOf(list, f).old = FALSE
    BY <2>1, <2>2, <2>3, <1>1 DEF GlEntry
  <2> QED BY <2>1, <2>3, <2>4, <1>3, <1>6 DEF FileOf, GlKnown
<1>7. CASE f.id = NoId /\ InCache(list, f) = {}
  <2> DEFINE st == IF smb THEN f.name ELSE images[Path][f]
  <2>1. EntryOf(list, f) = [dir |-> Path, old |-> FALSE, name |-> f.name, startup |-> st]
    BY <1>7 DEF EntryOf
  <2>2. st \in GlStartups \cup GlNames
    BY <1>1, <1>2, <1>3, <1>7 DEF Playable, GlTypeOK
  <2>3. <<f.name, st>> \in ever[Path] \/ (smb /\ st = f.name) BY <1>4, <1>7
  <2> HIDE DEF st
  <2> QED BY <2>1, <2>2, <2>3, <1>1, <1>3, <1>7 DEF GlEntry, FileOf, GlKnown
<1> QED BY <1>5, <1>6, <1>7

----------------------------------------------------------------------------
(* scanForISO: the entries of the directory come before the others.        *)
LEMMA GlReadDirStep ==
    ASSUME GlInv, NEW readable \in BOOLEAN, ReadDir(readable) PROVE GlInv'
<1> USE DEF GlInv
<1>0. /\ phase = "read" /\ phase' = "cache" /\ glDir' = glDir /\ changed' = changed \ {Path}
      /\ smb' = smb /\ images' = images /\ ul' = ul /\ edits' = edits /\ ever' = ever
      /\ bin' = bin /\ unseen' = unseen /\ ulSize' = ulSize /\ games' = games
      /\ uncached' = uncached
  BY DEF ReadDir, glWorld
<1>1. Path \in Paths /\ Path' = Path /\ glDir \in DOMAIN GlDirs
  BY <1>0, GlPaths DEF GlTypeOK, Path
<1>2. /\ cache' \in Seq(GlEntry) /\ \A i \in DOMAIN cache' : GlKnown(Path, cache'[i])
      /\ cache' # <<>> => bin[Path] = cache'
  BY <1>1 DEF ReadDir, Loadable, GlTypeOK, GlKeptInv
<1> DEFINE P == Playable(cache')
<1>3. P \subseteq DOMAIN images[Path] /\ IsFiniteSet(P)
  <2>1. P \subseteq DOMAIN images[Path] BY DEF Playable
  <2>2. DOMAIN images[Path] \subseteq GlFiles[Path] BY <1>1 DEF GlTypeOK
  <2>3. IsFiniteSet(GlFiles[Path]) BY <1>1, GlConstants
  <2> HIDE DEF P
  <2> QED BY <2>1, <2>2, <2>3, FS_Subset
<1>4. PICK order \in SetToSeqs(P) :
         /\ dlist' = [i \in DOMAIN order |-> EntryOf(cache', order[i])] \o dlist
         /\ count' = Len(order)
  BY DEF ReadDir, Gathered
<1>5. \A f \in P : /\ EntryOf(cache', f) \in GlEntry /\ EntryOf(cache', f).dir = Path
                   /\ FileOf(EntryOf(cache', f)) = f /\ EntryOf(cache', f).name = f.name
                   /\ GlKnown(Path, EntryOf(cache', f))
  BY <1>2, GlEntryOf
<1>6. \A f \in DOMAIN images[Path] : f \in P \/ (f.id = NoId /\ ~smb /\ images[Path][f] = Bad)
  BY DEF Playable
<1> HIDE DEF P
<1>7. /\ order \in Seq(P) /\ Len(order) \in Nat /\ DOMAIN order = 1 .. Len(order)
      /\ \A i, j \in DOMAIN order : order[i] = order[j] => i = j
      /\ \A f \in P : \E i \in DOMAIN order : order[i] = f
  BY <1>3, GlOrder
<1> DEFINE n == Len(order)
           new == [i \in DOMAIN order |-> EntryOf(cache', order[i])]
<1>8. /\ new \in Seq(GlEntry) /\ Len(new) = n /\ n \in Nat
      /\ \A i \in 1 .. n : order[i] \in P /\ new[i] = EntryOf(cache', order[i])
  BY <1>5, <1>7
<1>9. dlist \in Seq(GlEntry) /\ dlist' = new \o dlist /\ count' = n BY <1>4 DEF GlTypeOK
<1> HIDE DEF n, new
<1>10. /\ dlist' \in Seq(GlEntry) /\ Len(dlist') = n + Len(dlist) /\ Len(dlist) \in Nat
       /\ DOMAIN dlist' = 1 .. n + Len(dlist) /\ DOMAIN dlist = 1 .. Len(dlist)
       /\ \A i \in 1 .. n : dlist'[i] = new[i]
       /\ \A i \in 1 .. Len(dlist) : dlist'[n + i] = dlist[i]
       /\ \A i \in 1 .. n + Len(dlist) : i > n => i - n \in DOMAIN dlist /\ dlist'[i] = dlist[i - n]
  <2>1. /\ new \o dlist \in Seq(GlEntry) /\ Len(new \o dlist) = Len(new) + Len(dlist)
        /\ DOMAIN (new \o dlist) = 1 .. Len(new) + Len(dlist)
        /\ \A i \in 1 .. Len(new) : (new \o dlist)[i] = new[i]
        /\ \A i \in 1 .. Len(dlist) : (new \o dlist)[Len(new) + i] = dlist[i]
        /\ \A i \in 1 .. Len(new) + Len(dlist) : i > Len(new) =>
               i - Len(new) \in DOMAIN dlist /\ (new \o dlist)[i] = dlist[i - Len(new)]
    BY <1>8, <1>9, GlConcat, Zenon
  <2>2. Len(dlist) \in Nat /\ DOMAIN dlist = 1 .. Len(dlist) BY <1>9
  <2> QED BY <2>1, <2>2, <1>8, <1>9
<1>11. \A i \in 1 .. n : /\ order[i] \in P /\ dlist'[i].dir = Path /\ FileOf(dlist'[i]) = order[i]
                         /\ GlKnown(Path, dlist'[i])
  BY <1>5, <1>8, <1>10
<1>12. \A i \in DOMAIN dlist : dlist[i].dir # Path /\ dlist[i].dir \in GlReadSoFar
  <2>1. Path \notin GlReadSoFar BY <1>0, <1>1, GlPaths DEF GlReadSoFar, Path
  <2> QED BY <1>0, <2>1 DEF GlScanInv
<1>13. GlReadSoFar' = GlReadSoFar \cup {Path} /\ GlCachedSoFar' = GlCachedSoFar
  BY <1>0, <1>1, GlPaths DEF GlReadSoFar, GlCachedSoFar, Path
<1>14. GlTypeOK'
  <2>1. faults' \in 0 .. MaxGlFaults BY GlConstants DEF ReadDir, GlTypeOK
  <2> QED BY <1>0, <1>2, <1>8, <1>9, <1>10, <2>1 DEF GlTypeOK
<1>15. GlWorldInv' BY <1>0 DEF GlWorldInv
<1>16. GlKeptInv'
  <2>1. ASSUME NEW i \in DOMAIN dlist' PROVE GlKnown(dlist'[i].dir, dlist'[i])
    <3>1. CASE i <= n BY <3>1, <1>8, <1>10, <1>11
    <3>2. CASE i > n BY <3>2, <1>10 DEF GlKeptInv
    <3> QED BY <3>1, <3>2, <1>8, <1>10
  <2>2. \A p \in Paths : bin[p] # NoBin => \A i \in DOMAIN bin[p] : GlKnown(p, bin[p][i])
    BY DEF GlKeptInv
  <2>3. \A i \in DOMAIN games : games[i].dir # "ul" => GlKnown(games[i].dir, games[i])
    BY DEF GlKeptInv
  <2> QED BY <1>0, <1>1, <1>2, <2>1, <2>2, <2>3 DEF GlKeptInv, GlKnown
<1>17. GlScanInv'
  <2>1. \A i \in DOMAIN dlist' : dlist'[i].dir \in GlReadSoFar'
    <3> SUFFICES ASSUME NEW i \in DOMAIN dlist' PROVE dlist'[i].dir \in GlReadSoFar' OBVIOUS
    <3>1. CASE i <= n BY <3>1, <1>8, <1>10, <1>11, <1>13
    <3>2. CASE i > n BY <3>2, <1>10, <1>12, <1>13
    <3> QED BY <3>1, <3>2, <1>8, <1>10
  <2>2. ASSUME NEW p \in GlReadSoFar' \ changed' PROVE GlShows(dlist, p)'
    <3>1. CASE p = Path
      <4>1. \A i \in DOMAIN dlist' : dlist'[i].dir = Path => i \in 1 .. n
        BY <1>8, <1>10, <1>12
      <4>2. \A i \in DOMAIN dlist' : dlist'[i].dir = Path => FileOf(dlist'[i]) \in DOMAIN images[Path]
        BY <4>1, <1>3, <1>11
      <4>3. \A i, j \in DOMAIN dlist' :
              dlist'[i].dir = Path /\ dlist'[j].dir = Path /\ FileOf(dlist'[i]) = FileOf(dlist'[j]) => i = j
        BY <4>1, <1>7, <1>11 DEF n
      <4>4. ASSUME NEW f \in P PROVE \E i \in DOMAIN dlist' : dlist'[i].dir = Path /\ FileOf(dlist'[i]) = f
        <5>1. PICK i \in DOMAIN order : order[i] = f BY <1>7
        <5>2. i \in 1 .. n /\ i \in DOMAIN dlist' BY <5>1, <1>7, <1>10 DEF n
        <5> QED BY <5>1, <5>2, <1>11
      <4> QED BY <3>1, <4>2, <4>3, <4>4, <1>0, <1>6 DEF GlShows
    <3>2. CASE p # Path
      <4>1. p \in GlReadSoFar \ changed BY <3>2, <1>0, <1>13
      <4>2. GlShows(dlist, p) BY <4>1, <1>0 DEF GlScanInv
      <4>3. \A i \in DOMAIN dlist' : dlist'[i].dir = p => i - n \in DOMAIN dlist /\ dlist'[i] = dlist[i - n]
        BY <3>2, <1>8, <1>10, <1>11
      <4>4. \A i \in DOMAIN dlist' : dlist'[i].dir = p => FileOf(dlist'[i]) \in DOMAIN images[p]
        BY <4>2, <4>3 DEF GlShows
      <4>5. \A i, j \in DOMAIN dlist' :
              dlist'[i].dir = p /\ dlist'[j].dir = p /\ FileOf(dlist'[i]) = FileOf(dlist'[j]) => i = j
        <5> SUFFICES ASSUME NEW i \in DOMAIN dlist', NEW j \in DOMAIN dlist', dlist'[i].dir = p,
                            dlist'[j].dir = p, FileOf(dlist'[i]) = FileOf(dlist'[j])
                     PROVE i = j
          OBVIOUS
        <5>1. i - n = j - n BY <4>2, <4>3 DEF GlShows
        <5> QED BY <5>1, <1>8, <1>10
      <4>6. \A i \in DOMAIN dlist : n + i \in DOMAIN dlist' /\ dlist'[n + i] = dlist[i]
        BY <1>8, <1>10
      <4>7. \A f \in DOMAIN images[p] :
               \/ f.id = NoId /\ ~smb /\ images[p][f] = Bad
               \/ \E i \in DOMAIN dlist' : dlist'[i].dir = p /\ FileOf(dlist'[i]) = f
        BY <4>2, <4>6 DEF GlShows
      <4> QED BY <4>4, <4>5, <4>7, <1>0 DEF GlShows
    <3> QED BY <3>1, <3>2
  <2>3. \A p \in GlReadSoFar' \cap changed' : p \in unseen'
    BY <1>0, <1>13 DEF GlScanInv
  <2>4. ASSUME NEW i \in DOMAIN dlist', dlist'[i].dir \in GlCachedSoFar' PROVE GlStored(dlist[i])'
    <3>1. Path \notin GlCachedSoFar BY <1>0, <1>1, GlPaths DEF GlCachedSoFar, Path
    <3>2. i > n BY <3>1, <2>4, <1>8, <1>10, <1>11, <1>13
    <3>3. i - n \in DOMAIN dlist /\ dlist'[i] = dlist[i - n] BY <3>2, <1>10
    <3>4. GlStored(dlist[i - n]) BY <3>3, <2>4, <1>0, <1>13 DEF GlScanInv
    <3>5. dlist[i - n].dir # Path BY <3>3, <1>12
    <3> QED BY <3>3, <3>4, <3>5, <1>0 DEF GlStored, InCache
  <2> QED BY <2>1, <2>2, <2>3, <2>4 DEF GlScanInv
<1>18. GlFrontInv'
  BY <1>0, <1>1, <1>2, <1>8, <1>9, <1>10, <1>11, <1>12 DEF GlFrontInv
<1>19. GlIdleInv' BY <1>0 DEF GlIdleInv
<1> QED BY <1>14, <1>15, <1>16, <1>17, <1>18, <1>19

(* updateISOGameList and the next directory.                               *)
LEMMA GlCacheStep ==
    ASSUME GlInv, CacheKept \/ CacheWritten \/ CacheFails PROVE GlInv'
<1> USE DEF GlInv
<1>0. /\ phase = "cache" /\ phase' = (IF glDir = Len(GlDirs) THEN "ul" ELSE "read")
      /\ glDir' = (IF glDir = Len(GlDirs) THEN 1 ELSE glDir + 1)
      /\ cache' = <<>> /\ count' = 0 /\ dlist' = dlist /\ ulSize' = ulSize /\ games' = games
      /\ smb' = smb /\ images' = images /\ ul' = ul /\ edits' = edits /\ ever' = ever
      /\ changed' = changed
  BY DEF CacheKept, CacheWritten, CacheFails, NextDir, glWorld
<1>1. Path \in Paths /\ glDir \in DOMAIN GlDirs /\ glDir' \in DOMAIN GlDirs
  BY <1>0, GlPaths DEF GlTypeOK, Path
<1>2. /\ dlist \in Seq(GlEntry) /\ Len(dlist) \in Nat /\ count \in 0 .. Len(dlist)
      /\ DOMAIN dlist = 1 .. Len(dlist) /\ DOMAIN cache = 1 .. Len(cache) /\ Len(cache) \in Nat
  BY DEF GlTypeOK
<1>3. GlReadSoFar' = GlReadSoFar /\ GlCachedSoFar' = GlReadSoFar /\ GlReadSoFar = GlCachedSoFar \cup {Path}
  <2>1. CASE glDir = Len(GlDirs)
    BY <2>1, <1>0, <1>1, GlPaths DEF GlReadSoFar, GlCachedSoFar, Path
  <2>2. CASE glDir # Len(GlDirs)
    BY <2>2, <1>0, <1>1, GlPaths DEF GlReadSoFar, GlCachedSoFar, Path
  <2> QED BY <2>1, <2>2
<1>4. \A i \in DOMAIN dlist : dlist[i].dir = Path <=> i <= count BY <1>0 DEF GlFrontInv
<1> DEFINE front == SubSeq(dlist, 1, count)
<1>5. /\ front \in Seq(GlEntry) /\ DOMAIN front = 1 .. count
      /\ \A i \in 1 .. count : front[i] = dlist[i] /\ i \in DOMAIN dlist
  BY <1>2
<1> HIDE DEF front
<1>6. /\ DOMAIN bin' = Paths /\ \A p \in Paths : p # Path => bin'[p] = bin[p]
      /\ bin'[Path] \in {bin[Path], NoBin, front}
      /\ unseen \subseteq unseen' /\ unseen' \subseteq Paths
      /\ uncached' \subseteq uncached \cup {Path} /\ uncached \ {Path} \subseteq uncached'
      /\ faults' \in 0 .. MaxGlFaults
  <2>0. /\ DOMAIN bin = Paths /\ unseen \subseteq Paths /\ faults \in 0 .. MaxGlFaults
        /\ MaxGlFaults \in Nat
    BY GlConstants DEF GlTypeOK
  <2>1. CASE CacheKept BY <2>0, <2>1 DEF CacheKept
  <2>2. CASE CacheWritten BY <2>0, <2>2, <1>1 DEF CacheWritten, BinIs, front
  <2>3. CASE CacheFails BY <2>0, <2>3, <1>1 DEF CacheFails, BinIs
  <2> QED BY <2>1, <2>2, <2>3
<1>7. ASSUME NEW i \in DOMAIN dlist, dlist[i].dir = Path
      PROVE  \/ Path \in uncached' \cup changed
             \/ bin'[Path] # NoBin /\ InCache(bin'[Path], dlist[i]) # {}
  <2>1. i \in 1 .. count BY <1>2, <1>4, <1>7
  <2>2. CASE CacheKept
    <3>0. ~Modified /\ bin' = bin /\ count > 0 BY <2>1, <2>2, <1>2 DEF CacheKept
    <3>1. count = Len(cache) /\ InCache(cache, dlist[i]) # {} /\ bin' = bin
      BY <3>0, <2>1 DEF Modified
    <3>2. cache # <<>> BY <3>1, <2>1, <1>2
    <3>3. bin[Path] = cache /\ cache \in Seq(GlEntry) BY <3>2, <1>0 DEF GlFrontInv, GlTypeOK
    <3> QED BY <3>1, <3>3, GlSeqIsNoMark
  <2>3. CASE CacheWritten
    <3>1. bin'[Path] = front
      BY <2>3, <1>1 DEF CacheWritten, BinIs, front, GlTypeOK
    <3>2. i \in InCache(front, dlist[i]) BY <2>1, <1>5 DEF InCache
    <3> QED BY <3>1, <3>2, <1>5, GlSeqIsNoMark
  <2>4. CASE CacheFails BY <2>4 DEF CacheFails
  <2> QED BY <2>2, <2>3, <2>4
<1>8. GlTypeOK'
  <2>1. \A p \in Paths : bin'[p] = NoBin \/ bin'[p] \in Seq(GlEntry)
    BY <1>5, <1>6 DEF GlTypeOK
  <2>2. uncached' \subseteq Paths BY <1>1, <1>6 DEF GlTypeOK
  <2>3. cache' \in Seq(GlEntry) /\ count' \in 0 .. Len(dlist') BY <1>0, <1>2
  <2>4. phase' \in {"idle", "read", "cache", "ul"} BY <1>0
  <2> QED BY <2>1, <2>2, <2>3, <2>4, <1>0, <1>1, <1>6 DEF GlTypeOK
<1>9. GlWorldInv' BY <1>0 DEF GlWorldInv
<1>10. GlKeptInv'
  <2>1. \A i \in 1 .. count : GlKnown(Path, front[i])
    BY <1>4, <1>5 DEF GlKeptInv
  <2>2. ASSUME NEW p \in Paths, bin'[p] # NoBin, NEW i \in DOMAIN bin'[p] PROVE GlKnown(p, bin'[p][i])
    <3>1. CASE bin'[p] = bin[p] BY <3>1, <2>2 DEF GlKeptInv
    <3>2. CASE p = Path /\ bin'[p] = front BY <3>2, <2>1, <2>2, <1>5
    <3> QED BY <3>1, <3>2, <2>2, <1>6
  <2>3. \A i \in DOMAIN dlist : GlKnown(dlist[i].dir, dlist[i]) BY DEF GlKeptInv
  <2>4. \A i \in DOMAIN games : games[i].dir # "ul" => GlKnown(games[i].dir, games[i]) BY DEF GlKeptInv
  <2>5. DOMAIN cache' = {} BY <1>0
  <2> QED BY <1>0, <2>2, <2>3, <2>4, <2>5 DEF GlKeptInv, GlKnown
<1>11. GlScanInv'
  <2>1. \A i \in DOMAIN dlist' : dlist'[i].dir \in GlReadSoFar' BY <1>0, <1>3 DEF GlScanInv
  <2>2. \A p \in GlReadSoFar' \ changed' : GlShows(dlist, p)' BY <1>0, <1>3 DEF GlScanInv, GlShows
  <2>3. \A p \in GlReadSoFar' \cap changed' : p \in unseen' BY <1>0, <1>3, <1>6 DEF GlScanInv
  <2>4. ASSUME NEW i \in DOMAIN dlist', dlist'[i].dir \in GlCachedSoFar' PROVE GlStored(dlist[i])'
    <3>1. CASE dlist[i].dir = Path BY <3>1, <1>0, <1>7 DEF GlStored, InCache
    <3>2. CASE dlist[i].dir # Path
      <4>1. GlStored(dlist[i]) BY <3>2, <2>4, <1>0, <1>3 DEF GlScanInv
      <4>2. dlist[i].dir \in Paths BY <2>4, <1>0, <1>1, GlPaths DEF GlCachedSoFar
      <4>3. bin'[dlist[i].dir] = bin[dlist[i].dir] BY <4>2, <3>2, <1>6
      <4>4. dlist[i].dir \in uncached => dlist[i].dir \in uncached' BY <3>2, <1>6
      <4> QED BY <4>1, <4>3, <4>4, <1>0 DEF GlStored, InCache
    <3> QED BY <3>1, <3>2
  <2> QED BY <2>1, <2>2, <2>3, <2>4 DEF GlScanInv
<1>12. GlFrontInv' /\ GlIdleInv' BY <1>0 DEF GlFrontInv, GlIdleInv
<1> QED BY <1>8, <1>9, <1>10, <1>11, <1>12

(* The power is cut: nothing is listed, and a part of a cache is left.     *)
LEMMA GlPowerCutStep == ASSUME GlInv, PowerCut PROVE GlInv'
<1> USE DEF GlInv
<1>0. /\ phase = "cache" /\ phase' = "idle" /\ unseen' = Paths /\ ulSize' = -2 /\ games' = <<>>
      /\ glDir' = 1 /\ dlist' = <<>> /\ count' = 0 /\ cache' = <<>>
      /\ uncached' = uncached \cup {Path} /\ changed' = Paths
      /\ smb' = smb /\ images' = images /\ ul' = ul /\ edits' = edits /\ ever' = ever
  BY DEF PowerCut, glWorld
<1>1. Path \in Paths /\ glDir \in DOMAIN GlDirs /\ 1 \in DOMAIN GlDirs
  BY <1>0, GlPaths DEF GlTypeOK, Path
<1>2. /\ dlist \in Seq(GlEntry) /\ Len(dlist) \in Nat /\ count \in 0 .. Len(dlist)
      /\ DOMAIN dlist = 1 .. Len(dlist)
  BY DEF GlTypeOK
<1>3. \A i \in DOMAIN dlist : dlist[i].dir = Path <=> i <= count BY <1>0 DEF GlFrontInv
<1>4. PICK n \in 0 .. count : bin' = [bin EXCEPT ![Path] = SubSeq(dlist, 1, n)] BY DEF PowerCut
<1> DEFINE front == SubSeq(dlist, 1, n)
<1>5. /\ front \in Seq(GlEntry) /\ DOMAIN front = 1 .. n
      /\ \A i \in 1 .. n : front[i] = dlist[i] /\ i \in DOMAIN dlist /\ i <= count
  BY <1>2
<1> HIDE DEF front
<1>6. DOMAIN bin' = Paths /\ \A p \in Paths : bin'[p] = IF p = Path THEN front ELSE bin[p]
  BY <1>4 DEF GlTypeOK, front
<1>7. faults' \in 0 .. MaxGlFaults BY GlConstants DEF PowerCut, GlTypeOK
<1>8. GlTypeOK'
  <2>1. \A p \in Paths : bin'[p] = NoBin \/ bin'[p] \in Seq(GlEntry)
    BY <1>5, <1>6 DEF GlTypeOK
  <2>2. uncached' \subseteq Paths BY <1>0, <1>1 DEF GlTypeOK
  <2>3. /\ cache' \in Seq(GlEntry) /\ dlist' \in Seq(GlEntry) /\ games' \in Seq(GlEntry)
        /\ count' \in 0 .. Len(dlist') /\ ulSize' \in -2 .. 1
    BY <1>0
  <2> QED BY <2>1, <2>2, <2>3, <1>0, <1>1, <1>6, <1>7 DEF GlTypeOK
<1>9. GlWorldInv' BY <1>0 DEF GlWorldInv
<1>10. GlKeptInv'
  <2>1. \A i \in 1 .. n : GlKnown(Path, front[i])
    BY <1>3, <1>5 DEF GlKeptInv
  <2>2. ASSUME NEW p \in Paths, bin'[p] # NoBin, NEW i \in DOMAIN bin'[p] PROVE GlKnown(p, bin'[p][i])
    <3>1. CASE p # Path BY <3>1, <2>2, <1>6 DEF GlKeptInv
    <3>2. CASE p = Path BY <3>2, <2>1, <2>2, <1>5, <1>6
    <3> QED BY <3>1, <3>2
  <2>3. DOMAIN cache' = {} /\ DOMAIN dlist' = {} /\ DOMAIN games' = {} BY <1>0
  <2> QED BY <1>0, <2>2, <2>3 DEF GlKeptInv, GlKnown
<1>11. GlIdleInv'
  <2>1. DOMAIN games' = {} BY <1>0
  <2> QED BY <2>1, <1>0 DEF GlIdleInv
<1>12. GlFrontInv' /\ GlScanInv' BY <1>0 DEF GlFrontInv, GlScanInv
<1> QED BY <1>8, <1>9, <1>10, <1>11, <1>12

(* The test whether a scan is due.                                         *)
LEMMA GlNeedsUpdateStep == ASSUME GlInv, NeedsUpdate PROVE GlInv'
<1> USE DEF GlInv
<1>0. /\ phase = "idle" /\ unseen' = {} /\ phase' \in {"idle", "read"}
      /\ phase' = "idle" => unseen = {} /\ ulSize # -2
      /\ glDir' = 1 /\ dlist' = <<>> /\ count' = 0 /\ cache' = <<>> /\ bin' = bin /\ ulSize' = ulSize
      /\ games' = games /\ faults' = faults /\ changed' = changed /\ uncached' = uncached
      /\ smb' = smb /\ images' = images /\ ul' = ul /\ edits' = edits /\ ever' = ever
  BY DEF NeedsUpdate, glWorld
<1>1. 1 \in DOMAIN GlDirs BY GlPaths
<1>2. DOMAIN cache' = {} /\ DOMAIN dlist' = {} BY <1>0
<1>3. GlTypeOK'
  <2>1. cache' \in Seq(GlEntry) /\ dlist' \in Seq(GlEntry) /\ count' \in 0 .. Len(dlist') BY <1>0
  <2> QED BY <2>1, <1>0, <1>1 DEF GlTypeOK
<1>4. GlWorldInv' BY <1>0 DEF GlWorldInv
<1>5. GlKeptInv' BY <1>0, <1>2 DEF GlKeptInv, GlKnown
<1>6. GlIdleInv'
  <2>1. SUFFICES ASSUME phase' = "idle" PROVE GlIdleInv' BY DEF GlIdleInv
  <2>2. changed = {} BY <2>1, <1>0 DEF GlIdleInv
  <2>3. \A p \in Paths \ changed' : GlShows(games, p)' BY <1>0 DEF GlIdleInv, GlShows
  <2>4. \A i \in DOMAIN games' : games'[i].dir # "ul" => GlStored(games[i])'
    BY <1>0 DEF GlIdleInv, GlStored, InCache
  <2> QED BY <2>2, <2>3, <2>4, <1>0 DEF GlIdleInv
<1>7. GlScanInv'
  <2>1. phase' # "idle" => GlReadSoFar' = {} BY <1>0, GlPaths DEF GlReadSoFar
  <2> QED BY <2>1, <1>2 DEF GlScanInv
<1>8. GlFrontInv' BY <1>0 DEF GlFrontInv
<1> QED BY <1>3, <1>4, <1>5, <1>6, <1>7, <1>8

(* The end of sbReadList.                                                  *)
LEMMA GlReadUlStep == ASSUME GlInv, ReadUl PROVE GlInv'
<1> USE DEF GlInv
<1> DEFINE pre == IF ul = "none" THEN <<>> ELSE <<UlGame>>
<1>0. /\ phase = "ul" /\ phase' = "idle" /\ games' = pre \o dlist /\ dlist' = <<>>
      /\ ulSize' \in {-1, 1, ulSize} /\ count' = count /\ cache' = cache
      /\ glDir' = glDir /\ bin' = bin /\ unseen' = unseen
      /\ faults' = faults /\ changed' = changed /\ uncached' = uncached
      /\ smb' = smb /\ images' = images /\ ul' = ul /\ edits' = edits /\ ever' = ever
  BY DEF ReadUl, glWorld
<1>1. /\ UlGame.dir = "ul" /\ UlGame \in GlEntry BY DEF UlGame, GlEntry, GlNames
<1>2. /\ pre \in Seq(GlEntry) /\ Len(pre) \in Nat /\ dlist \in Seq(GlEntry)
      /\ \A i \in 1 .. Len(pre) : pre[i].dir = "ul"
  BY <1>1 DEF GlTypeOK
<1> HIDE DEF pre
<1> DEFINE n == Len(pre)
<1>3. /\ games' \in Seq(GlEntry) /\ DOMAIN games' = 1 .. n + Len(dlist) /\ DOMAIN dlist = 1 .. Len(dlist)
      /\ Len(dlist) \in Nat
      /\ \A i \in 1 .. n : games'[i].dir = "ul"
      /\ \A i \in 1 .. Len(dlist) : games'[n + i] = dlist[i]
      /\ \A i \in 1 .. n + Len(dlist) : i > n => i - n \in DOMAIN dlist /\ games'[i] = dlist[i - n]
  <2>1. /\ pre \o dlist \in Seq(GlEntry) /\ Len(pre \o dlist) = Len(pre) + Len(dlist)
        /\ DOMAIN (pre \o dlist) = 1 .. Len(pre) + Len(dlist)
        /\ \A i \in 1 .. Len(pre) : (pre \o dlist)[i] = pre[i]
        /\ \A i \in 1 .. Len(dlist) : (pre \o dlist)[Len(pre) + i] = dlist[i]
        /\ \A i \in 1 .. Len(pre) + Len(dlist) : i > Len(pre) =>
               i - Len(pre) \in DOMAIN dlist /\ (pre \o dlist)[i] = dlist[i - Len(pre)]
    BY <1>2, GlConcat, Zenon
  <2>2. Len(dlist) \in Nat /\ DOMAIN dlist = 1 .. Len(dlist) BY <1>2
  <2> QED BY <2>1, <2>2, <1>0, <1>2
<1>4. n \in Nat BY <1>2
<1> HIDE DEF n
<1>5. /\ \A i \in DOMAIN games' : games'[i].dir # "ul" => i - n \in DOMAIN dlist /\ games'[i] = dlist[i - n]
      /\ \A i \in DOMAIN dlist : n + i \in DOMAIN games' /\ games'[n + i] = dlist[i]
  BY <1>3, <1>4
<1>6. GlReadSoFar = Paths /\ GlCachedSoFar = Paths BY <1>0 DEF GlReadSoFar, GlCachedSoFar
<1>7. count = 0 BY <1>0 DEF GlFrontInv
<1>8. GlTypeOK'
  <2>1. dlist' \in Seq(GlEntry) /\ count' \in 0 .. Len(dlist') /\ ulSize' \in -2 .. 1
    BY <1>0, <1>7 DEF GlTypeOK
  <2> QED BY <2>1, <1>0, <1>3 DEF GlTypeOK
<1>9. GlWorldInv' BY <1>0 DEF GlWorldInv
<1>10. GlKeptInv'
  <2>1. \A i \in DOMAIN games' : games'[i].dir # "ul" => GlKnown(games'[i].dir, games'[i])
    BY <1>5 DEF GlKeptInv
  <2>2. DOMAIN dlist' = {} /\ Path' = Path BY <1>0 DEF Path
  <2> QED BY <2>1, <2>2, <1>0 DEF GlKeptInv, GlKnown
<1>11. GlIdleInv'
  <2>1. ASSUME NEW p \in Paths \ changed PROVE GlShows(games, p)'
    <3>1. GlShows(dlist, p) BY <2>1, <1>0, <1>6 DEF GlScanInv
    <3>2. p # "ul" BY GlPaths
    <3>3. \A i \in DOMAIN games' : games'[i].dir = p => FileOf(games'[i]) \in DOMAIN images[p]
      BY <3>1, <3>2, <1>5 DEF GlShows
    <3>4. \A i, j \in DOMAIN games' :
            games'[i].dir = p /\ games'[j].dir = p /\ FileOf(games'[i]) = FileOf(games'[j]) => i = j
      <4> SUFFICES ASSUME NEW i \in DOMAIN games', NEW j \in DOMAIN games', games'[i].dir = p,
                          games'[j].dir = p, FileOf(games'[i]) = FileOf(games'[j])
                   PROVE i = j
        OBVIOUS
      <4>1. i - n = j - n BY <3>1, <3>2, <1>5 DEF GlShows
      <4> QED BY <4>1, <1>3, <1>4
    <3>5. \A f \in DOMAIN images[p] :
             \/ f.id = NoId /\ ~smb /\ images[p][f] = Bad
             \/ \E i \in DOMAIN games' : games'[i].dir = p /\ FileOf(games'[i]) = f
      BY <3>1, <1>5 DEF GlShows
    <3> QED BY <3>3, <3>4, <3>5, <1>0 DEF GlShows
  <2>2. ASSUME NEW i \in DOMAIN games', games'[i].dir # "ul" PROVE GlStored(games[i])'
    <3>1. i - n \in DOMAIN dlist /\ games'[i] = dlist[i - n] BY <2>2, <1>5
    <3>2. dlist[i - n].dir \in Paths BY <3>1, <1>0, <1>6 DEF GlScanInv
    <3>3. GlStored(dlist[i - n]) BY <3>1, <3>2, <1>0, <1>6 DEF GlScanInv
    <3> QED BY <3>1, <3>3, <1>0 DEF GlStored, InCache
  <2>3. \A p \in changed : p \in unseen BY <1>0, <1>6 DEF GlScanInv, GlTypeOK
  <2> QED BY <2>1, <2>2, <2>3, <1>0 DEF GlIdleInv
<1>12. GlFrontInv' /\ GlScanInv' BY <1>0 DEF GlFrontInv, GlScanInv
<1> QED BY <1>8, <1>9, <1>10, <1>11, <1>12

(* What every change of the files has in common: a directory that is not   *)
(* marked as changed has the same files, and what is marked is seen.       *)
GlEdited ==
    /\ DOMAIN images' = Paths /\ DOMAIN ever' = Paths
    /\ \A q \in Paths : /\ DOMAIN images'[q] \subseteq GlFiles[q] /\ ever[q] \subseteq ever'[q]
                        /\ \A g \in DOMAIN images'[q] : images'[q][g] \in GlStartups \cup {Bad}
    /\ GlWorldInv'
    /\ changed \subseteq changed' /\ changed' \subseteq Paths
    /\ unseen \subseteq unseen' /\ unseen' \subseteq Paths /\ changed' \ changed \subseteq unseen'
    /\ \A q \in Paths \ changed' : /\ DOMAIN images'[q] = DOMAIN images[q]
                                   /\ smb \/ images'[q] = images[q]
    /\ ulSize' \in {ulSize, -2} /\ ul' \in {"none", "root", "UL"} /\ edits' \in 0 .. MaxGlEdits
    /\ UNCHANGED <<smb, bin, glLocals, games, faults, uncached>>

(* Such a change keeps the invariant.                                      *)
LEMMA GlEditStep == ASSUME GlInv, GlEdited PROVE GlInv'
<1> USE DEF GlInv
<1>0. /\ phase' = phase /\ glDir' = glDir /\ dlist' = dlist /\ count' = count /\ cache' = cache
      /\ smb' = smb /\ bin' = bin /\ games' = games /\ faults' = faults /\ uncached' = uncached
  BY DEF GlEdited, glLocals
<1>1. Path' = Path /\ GlReadSoFar' = GlReadSoFar /\ GlCachedSoFar' = GlCachedSoFar
  BY <1>0 DEF Path, GlReadSoFar, GlCachedSoFar
<1>2. GlReadSoFar \subseteq Paths /\ Path \in Paths BY GlPaths DEF GlReadSoFar, GlTypeOK, Path
<1>3. GlTypeOK'
  <2>1. ulSize' \in -2 .. 1 BY DEF GlEdited, GlTypeOK
  <2> QED BY <2>1, <1>0 DEF GlTypeOK, GlEdited
<1>4. GlWorldInv' BY DEF GlEdited
<1>5. \A q \in Paths : ever[q] \subseteq ever'[q] BY DEF GlEdited
<1>6. GlKeptInv'
  <2>1. \A q \in Paths : \A g : GlKnown(q, g) => <<g.name, g.startup>> \in ever'[q] \/ (smb' /\ g.startup = g.name)
    BY <1>0, <1>5 DEF GlKnown
  <2>2. \A i \in DOMAIN games : games[i].dir # "ul" => games[i].dir \in Paths
    <3>1. \A i \in DOMAIN games : games[i] \in GlEntry BY DEF GlTypeOK
    <3> QED BY <3>1 DEF GlEntry
  <2>3. \A i \in DOMAIN dlist : dlist[i].dir \in Paths
    BY <1>2 DEF GlIdleInv, GlScanInv
  <2>4. \A q \in Paths : bin'[q] # NoBin =>
           \A i \in DOMAIN bin'[q] : <<bin'[q][i].name, bin'[q][i].startup>> \in ever'[q]
                                     \/ (smb' /\ bin'[q][i].startup = bin'[q][i].name)
    BY <1>0, <2>1 DEF GlKeptInv
  <2>5. \A i \in DOMAIN cache' : <<cache'[i].name, cache'[i].startup>> \in ever'[Path']
                                     \/ (smb' /\ cache'[i].startup = cache'[i].name)
    BY <1>0, <1>1, <1>2, <2>1 DEF GlKeptInv
  <2>6. \A i \in DOMAIN dlist' : <<dlist'[i].name, dlist'[i].startup>> \in ever'[dlist'[i].dir]
                                     \/ (smb' /\ dlist'[i].startup = dlist'[i].name)
    BY <1>0, <2>1, <2>3 DEF GlKeptInv
  <2>7. \A i \in DOMAIN games' : games'[i].dir # "ul" =>
                                     \/ <<games'[i].name, games'[i].startup>> \in ever'[games'[i].dir]
                                     \/ (smb' /\ games'[i].startup = games'[i].name)
    BY <1>0, <2>1, <2>2 DEF GlKeptInv
  <2> QED BY <2>4, <2>5, <2>6, <2>7 DEF GlKeptInv, GlKnown
<1>7. \A q \in Paths \ changed' :
         /\ q \in Paths \ changed /\ DOMAIN images'[q] = DOMAIN images[q]
         /\ smb \/ images'[q] = images[q]
  BY DEF GlEdited
<1>8. GlIdleInv'
  <2>1. SUFFICES ASSUME phase = "idle" PROVE GlIdleInv' BY <1>0 DEF GlIdleInv
  <2>2. \A q \in Paths \ changed' : GlShows(games, q)' BY <2>1, <1>0, <1>7 DEF GlIdleInv, GlShows
  <2>3. \A i \in DOMAIN games' : games'[i].dir # "ul" => GlStored(games[i])'
    BY <2>1, <1>0 DEF GlIdleInv, GlStored, InCache, GlEdited
  <2>4. \A p \in changed' : p \in unseen' \/ ulSize' = -2 BY <2>1 DEF GlIdleInv, GlEdited
  <2> QED BY <2>1, <2>2, <2>3, <2>4, <1>0 DEF GlIdleInv
<1>9. GlScanInv'
  <2>1. SUFFICES ASSUME phase # "idle" PROVE GlScanInv' BY <1>0 DEF GlScanInv
  <2>2. \A q \in GlReadSoFar' \ changed' : GlShows(dlist, q)'
    BY <2>1, <1>0, <1>1, <1>2, <1>7 DEF GlScanInv, GlShows
  <2>3. \A i \in DOMAIN dlist' : dlist'[i].dir \in GlCachedSoFar' => GlStored(dlist[i])'
    BY <2>1, <1>0, <1>1 DEF GlScanInv, GlStored, InCache, GlEdited
  <2>4. \A p \in GlReadSoFar' \cap changed' : p \in unseen' BY <2>1, <1>1 DEF GlScanInv, GlEdited
  <2>5. \A i \in DOMAIN dlist' : dlist'[i].dir \in GlReadSoFar' BY <2>1, <1>0, <1>1 DEF GlScanInv
  <2> QED BY <2>2, <2>3, <2>4, <2>5 DEF GlScanInv
<1>10. GlFrontInv' BY <1>0, <1>1 DEF GlFrontInv
<1> QED BY <1>3, <1>4, <1>6, <1>8, <1>9, <1>10

(* The changes a computer makes are of that kind.                          *)
LEMMA GlEdits ==
    ASSUME GlInv, NEW p \in Paths, NEW f \in GlFiles[p],
           RemoveImage(p, f) \/ \E held \in Contents(f) : PutImage(p, f, held)
    PROVE  GlEdited
<1> USE DEF GlInv
<1>0. /\ DOMAIN images = Paths /\ DOMAIN ever = Paths /\ changed \subseteq Paths /\ unseen \subseteq Paths
      /\ \A q \in Paths : /\ DOMAIN images[q] \subseteq GlFiles[q]
                          /\ \A g \in DOMAIN images[q] : images[q][g] \in GlStartups \cup {Bad}
  BY DEF GlTypeOK
<1>1. edits' \in 0 .. MaxGlEdits /\ ul' \in {"none", "root", "UL"} /\ ulSize' \in {ulSize, -2}
  BY GlConstants DEF PutImage, RemoveImage, Edit, Elsewhere, GlTypeOK
<1>2. UNCHANGED <<smb, bin, glLocals, games, faults, uncached>>
  BY DEF PutImage, RemoveImage, Edit
<1>3. CASE RemoveImage(p, f)
  <2>1. /\ \A q \in Paths : q # p => images'[q] = images[q]
        /\ images'[p] = [g \in DOMAIN images[p] \ {f} |-> images[p][g]]
        /\ DOMAIN images' = Paths /\ ever' = ever /\ changed' = changed \cup {p}
        /\ unseen' = IF smb THEN unseen \cup {p} ELSE Paths
    BY <1>0, <1>3 DEF RemoveImage
  <2>2. GlWorldInv'
    <3>1. ASSUME NEW q \in Paths, NEW g \in DOMAIN images'[q] PROVE g \in DOMAIN images[q] /\ images'[q][g] = images[q][g]
      BY <2>1
    <3> QED BY <3>1, <2>1 DEF GlWorldInv
  <2> QED BY <2>1, <2>2, <1>0, <1>1, <1>2 DEF GlEdited
<1>4. CASE \E held \in Contents(f) : PutImage(p, f, held)
  <2>1. PICK held \in Contents(f) : PutImage(p, f, held) BY <1>4
  <2> DEFINE touched == IF smb /\ f \in DOMAIN images[p] THEN {} ELSE {p}
  <2>2. /\ \A q \in Paths : q # p => images'[q] = images[q] /\ ever'[q] = ever[q]
        /\ images'[p] = [g \in DOMAIN images[p] \cup {f} |-> IF g = f THEN held ELSE images[p][g]]
        /\ ever'[p] = ever[p] \cup {<<f.name, IF f.id = NoId THEN held ELSE f.id>>}
        /\ DOMAIN images' = Paths /\ DOMAIN ever' = Paths /\ changed' = changed \cup touched
        /\ unseen' = IF smb THEN unseen \cup touched ELSE Paths
    BY <1>0, <2>1 DEF PutImage
  <2>3. held \in GlStartups \cup {Bad} BY GlFileFacts
  <2>4. GlWorldInv'
    <3> SUFFICES ASSUME NEW q \in Paths, NEW g \in DOMAIN images'[q]
                 PROVE <<g.name, IF g.id = NoId THEN images'[q][g] ELSE g.id>> \in ever'[q]
      BY DEF GlWorldInv
    <3>1. CASE q = p /\ g = f BY <3>1, <2>2
    <3>2. CASE ~(q = p /\ g = f)
      <4>1. g \in DOMAIN images[q] /\ images'[q][g] = images[q][g] /\ ever[q] \subseteq ever'[q]
        BY <3>2, <2>2
      <4> QED BY <4>1 DEF GlWorldInv
    <3> QED BY <3>1, <3>2
  <2>5. \A q \in Paths \ changed' : /\ DOMAIN images'[q] = DOMAIN images[q]
                                    /\ smb \/ images'[q] = images[q]
    <3> SUFFICES ASSUME NEW q \in Paths \ changed'
                 PROVE DOMAIN images'[q] = DOMAIN images[q] /\ (smb \/ images'[q] = images[q])
      OBVIOUS
    <3>1. CASE q # p BY <3>1, <2>2
    <3>2. CASE q = p
      <4>1. smb /\ f \in DOMAIN images[p] BY <3>2, <2>2
      <4> QED BY <3>2, <4>1, <2>2
    <3> QED BY <3>1, <3>2
  <2>6. changed' \subseteq Paths /\ unseen' \subseteq Paths /\ changed' \ changed \subseteq unseen'
        /\ unseen \subseteq unseen' /\ changed \subseteq changed'
    BY <1>0, <2>2
  <2>7. \A q \in Paths : /\ DOMAIN images'[q] \subseteq GlFiles[q] /\ ever[q] \subseteq ever'[q]
                         /\ \A g \in DOMAIN images'[q] : images'[q][g] \in GlStartups \cup {Bad}
    <3> SUFFICES ASSUME NEW q \in Paths
                 PROVE /\ DOMAIN images'[q] \subseteq GlFiles[q] /\ ever[q] \subseteq ever'[q]
                       /\ \A g \in DOMAIN images'[q] : images'[q][g] \in GlStartups \cup {Bad}
      OBVIOUS
    <3>1. CASE q # p BY <3>1, <2>2, <1>0
    <3>2. CASE q = p BY <3>2, <2>2, <2>3, <1>0
    <3> QED BY <3>1, <3>2
  <2> QED BY <2>2, <2>4, <2>5, <2>6, <2>7, <1>1, <1>2 DEF GlEdited
<1> QED BY <1>3, <1>4

(* So is another place of ul.cfg.                                          *)
LEMMA GlMoves ==
    ASSUME GlInv, NEW place \in {"none", "root", "UL"}, MoveUl(place) PROVE GlEdited
<1> USE DEF GlInv
<1>1. /\ images' = images /\ ever' = ever /\ changed' = changed /\ smb' = smb
      /\ unseen' = (IF smb THEN unseen ELSE Paths) /\ ul' = place
  BY DEF MoveUl, Edit
<1>2. edits' \in 0 .. MaxGlEdits /\ ulSize' \in {ulSize, -2}
  BY GlConstants DEF MoveUl, Edit, Elsewhere, GlTypeOK
<1>3. UNCHANGED <<smb, bin, glLocals, games, faults, uncached>> BY DEF MoveUl, Edit
<1>4. GlWorldInv' BY <1>1 DEF GlWorldInv
<1> QED BY <1>1, <1>2, <1>3, <1>4 DEF GlEdited, GlTypeOK

----------------------------------------------------------------------------
(* The invariant holds at the start and is kept by every step.             *)
LEMMA GlStart == ASSUME GlInit PROVE GlInv
<1>1. 1 \in DOMAIN GlDirs BY GlPaths
<1>2. GlTypeOK BY <1>1, GlConstants DEF GlInit, GlTypeOK, NoImages
<1>3. \A p \in Paths : DOMAIN images[p] = {} /\ bin[p] = NoBin BY DEF GlInit, NoImages
<1>4. GlWorldInv BY <1>3 DEF GlWorldInv
<1>5. DOMAIN cache = {} /\ DOMAIN dlist = {} /\ DOMAIN games = {} BY DEF GlInit
<1>6. GlKeptInv BY <1>3, <1>5 DEF GlKeptInv
<1>7. GlIdleInv BY <1>5 DEF GlIdleInv, GlInit
<1>8. GlScanInv /\ GlFrontInv BY DEF GlScanInv, GlFrontInv, GlInit
<1> QED BY <1>2, <1>4, <1>6, <1>7, <1>8 DEF GlInv

(* Every step keeps it.                                                    *)
LEMMA GlStep == ASSUME GlInv, [GlNext]_glVars PROVE GlInv'
<1>1. ASSUME NEW p \in Paths, NEW f \in GlFiles[p],
             RemoveImage(p, f) \/ \E held \in Contents(f) : PutImage(p, f, held)
      PROVE GlInv'
  BY <1>1, GlEdits, GlEditStep
<1>2. ASSUME NEW place \in {"none", "root", "UL"}, MoveUl(place) PROVE GlInv'
  BY <1>2, GlMoves, GlEditStep
<1>3. CASE NeedsUpdate BY <1>3, GlNeedsUpdateStep
<1>4. ASSUME NEW readable \in BOOLEAN, ReadDir(readable) PROVE GlInv' BY <1>4, GlReadDirStep
<1>5. CASE CacheKept \/ CacheWritten \/ CacheFails BY <1>5, GlCacheStep
<1>6. CASE PowerCut BY <1>6, GlPowerCutStep
<1>7. CASE ReadUl BY <1>7, GlReadUlStep
<1>8. CASE UNCHANGED glVars
  <2>1. GlWorldInv' BY <1>8 DEF glVars, glWorld, GlInv, GlWorldInv
  <2>2. /\ images' = images /\ ever' = ever /\ changed' = changed /\ unseen' = unseen /\ ul' = ul
        /\ ulSize' = ulSize /\ edits' = edits
    BY <1>8 DEF glVars, glWorld
  <2>3. UNCHANGED <<smb, bin, glLocals, games, faults, uncached>> BY <1>8 DEF glVars, glWorld
  <2>4. GlEdited BY <2>1, <2>2, <2>3 DEF GlInv, GlTypeOK, GlEdited
  <2> QED BY <2>4, GlEditStep
<1> QED BY <1>1, <1>2, <1>3, <1>4, <1>5, <1>6, <1>7, <1>8 DEF GlNext

(* It says what the list promises.                                         *)
LEMMA GlPromise == ASSUME GlInv PROVE ListFollowsDevice
<1> USE DEF GlInv
<1>1. ListIsOfDirectory
  <2> SUFFICES ASSUME NEW p \in Paths \ changed, phase = "idle"
               PROVE /\ \A i \in Of(p) : FileOf(games[i]) \in DOMAIN images[p]
                     /\ \A f \in DOMAIN images[p] :
                          LET n == Cardinality({i \in Of(p) : FileOf(games[i]) = f})
                          IN n <= 1 /\ (n = 1 \/ (f.id = NoId /\ ~smb /\ images[p][f] = Bad))
    BY DEF ListIsOfDirectory
  <2>1. GlShows(games, p) BY DEF GlIdleInv
  <2>2. \A i \in Of(p) : FileOf(games[i]) \in DOMAIN images[p] BY <2>1 DEF GlShows, Of
  <2>3. ASSUME NEW f \in DOMAIN images[p]
        PROVE  LET n == Cardinality({i \in Of(p) : FileOf(games[i]) = f})
               IN n <= 1 /\ (n = 1 \/ (f.id = NoId /\ ~smb /\ images[p][f] = Bad))
    <3> DEFINE S == {i \in Of(p) : FileOf(games[i]) = f}
    <3>1. \A i, j \in S : i = j BY <2>1 DEF GlShows, Of
    <3>2. CASE S = {}
      <4>1. f.id = NoId /\ ~smb /\ images[p][f] = Bad BY <3>2, <2>1, <2>3 DEF GlShows, Of
      <4>2. Cardinality(S) = 0 BY <3>2, FS_EmptySet
      <4> QED BY <4>1, <4>2
    <3>3. CASE S # {}
      <4>1. PICK i \in S : TRUE BY <3>3
      <4>2. S = {i} BY <3>1, <4>1
      <4> HIDE DEF S
      <4>3. Cardinality(S) = 1 BY <4>2, FS_Singleton
      <4> QED BY <4>3 DEF S
    <3> QED BY <3>2, <3>3
  <2> QED BY <2>2, <2>3
<1>2. StartupIsOfName BY DEF GlKeptInv, GlKnown, StartupIsOfName
<1>3. ListIsCached BY DEF GlIdleInv, GlStored, ListIsCached
<1>4. ChangeIsNoticed BY DEF GlIdleInv, ChangeIsNoticed
<1> QED BY <1>1, <1>2, <1>3, <1>4 DEF ListFollowsDevice

(* The list of games follows the device and the types hold, through torn,  *)
(* old and missing caches, for any directories, files and names, any order *)
(* of a directory and any number of changes, scans, failures and power     *)
(* cuts (sbReadList, scanForISO, updateISOGameList).                       *)
THEOREM GamesFollowDevice == GlSpec => [](GlTypeOK /\ ListFollowsDevice)
<1>1. GlInit => GlInv BY GlStart
<1>2. GlInv /\ [GlNext]_glVars => GlInv' BY GlStep
<1>3. GlInv => GlTypeOK /\ ListFollowsDevice BY GlPromise DEF GlInv
<1> QED BY <1>1, <1>2, <1>3, PTL DEF GlSpec

----------------------------------------------------------------------------
(* The carousel.                                                           *)

(* The smallest and the greatest number of a set.                          *)
LEMMA CaFirst ==
    ASSUME NEW S \in SUBSET Nat, S # {}
    PROVE  FirstOf(S) \in S /\ \A d \in S : FirstOf(S) <= d
BY NatHasMin DEF FirstOf

(* The same for the greatest one of a bounded set.                         *)
LEMMA CaLast ==
    ASSUME NEW n \in Nat, NEW S \in SUBSET (0 .. n), S # {}
    PROVE  LastOf(S) \in S /\ \A d \in S : LastOf(S) >= d
<1> DEFINE T == {n - e : e \in S}
<1>1. T \in SUBSET Nat /\ T # {}
  <2>1. \A e \in S : n - e \in Nat OBVIOUS
  <2> QED BY <2>1
<1>2. PICK t \in T : \A u \in T : t <= u
  <2> HIDE DEF T
  <2> QED BY <1>1, NatHasMin
<1>3. PICK e \in S : t = n - e BY <1>2
<1>4. ASSUME NEW d \in S PROVE e >= d
  <2>1. n - d \in T OBVIOUS
  <2>2. n - e <= n - d BY <1>2, <1>3, <2>1
  <2> QED BY <2>2
<1> QED BY <1>4 DEF LastOf

(* The entries of the list, and the constants.                             *)
LEMMA CaConstants ==
    /\ Len(Startup) \in Nat \ {0} /\ Entries = 1 .. Len(Startup) /\ Entries \subseteq Nat /\ 1 \in Entries
    /\ LastFilter \in Nat /\ LastFilter > 2 /\ MaxFavorites \in Nat \ {0} /\ MaxRecent \in Nat \ {0}
    /\ MaxCarousel \in Nat /\ \A e \in Entries : Startup[e] \in Startups
<1>1. Startup \in Seq(Startups) /\ Startup # <<>> BY CarouselAssumption
<1>2. Len(Startup) \in Nat \ {0} /\ DOMAIN Startup = 1 .. Len(Startup) BY <1>1
<1>3. \A e \in Entries : Startup[e] \in Startups BY <1>1, <1>2 DEF Entries
<1>4. {MaxFavorites, MaxRecent} \subseteq Nat \ {0} BY CarouselAssumption
<1> QED BY <1>2, <1>3, <1>4, CarouselAssumption DEF Entries

----------------------------------------------------------------------------
(* Left and Right.                                                         *)

(* The remainders of TargetIndex.                                          *)
LEMMA CaModulo ==
    ASSUME NEW n \in Nat \ {0}, NEW k \in 0 .. n - 1
    PROVE  k % n = k /\ (n + k) % n = k /\ n % n = 0
<1>1. \A x \in Nat : \A q \in Nat : \A r \in 0 .. n - 1 : x = n * q + r => x % n = r
  OBVIOUS
<1>2. k = n * 0 + k /\ n + k = n * 1 + k /\ n = n * 1 + 0 OBVIOUS
<1> QED BY <1>1, <1>2

(* The games the filter shows are entries, finitely many.                  *)
LEMMA CaVisible ==
    /\ Visible \subseteq Entries /\ IsFiniteSet(Visible) /\ Cardinality(Visible) \in Nat
    /\ \A e : IsFiniteSet({d \in Visible : d < e}) /\ IndexOf(e) \in Nat
<1>1. Visible \subseteq Entries BY DEF Visible
<1>2. IsFiniteSet(Entries) BY CaConstants, FS_Interval
<1>3. \A T \in SUBSET Entries : IsFiniteSet(T) /\ Cardinality(T) \in Nat
  BY <1>2, FS_Subset, FS_CardinalityType
<1>4. \A e : {d \in Visible : d < e} \in SUBSET Entries BY <1>1
<1> QED BY <1>1, <1>3, <1>4 DEF IndexOf

(* The index of a game counts the games before it.                         *)
LEMMA CaIndexNext ==
    ASSUME NEW a \in Visible, NEW b \in Visible, a < b, \A e \in Visible : e <= a \/ e >= b
    PROVE  IndexOf(b) = IndexOf(a) + 1
<1> DEFINE A == {d \in Visible : d < a}
<1>0. a \in Nat /\ b \in Nat /\ \A e \in Visible : e \in Nat BY CaVisible, CaConstants
<1>1. {d \in Visible : d < b} = A \cup {a} /\ a \notin A
  <2>1. \A d \in Visible : d < b <=> (d < a \/ d = a) BY <1>0
  <2>2. ~(a < a) BY <1>0
  <2> QED BY <2>1, <2>2, Zenon
<1>2. IsFiniteSet(A) BY CaVisible
<1> HIDE DEF A
<1>3. Cardinality(A \cup {a}) = Cardinality(A) + 1 BY <1>1, <1>2, FS_AddElement
<1> QED BY <1>1, <1>3 DEF IndexOf, A

(* It grows with the game, and stays below their number.                   *)
LEMMA CaIndexGrows ==
    ASSUME NEW a \in Visible
    PROVE  /\ IndexOf(a) < Cardinality(Visible)
           /\ \A b \in Visible : a < b => IndexOf(a) < IndexOf(b)
<1>0. \A e \in Visible : e \in Nat BY CaVisible, CaConstants
<1> DEFINE A == {d \in Visible : d < a}
<1>1. /\ IsFiniteSet(A) /\ Cardinality(A) \in Nat /\ Cardinality(A) = IndexOf(a)
      /\ a \notin A /\ A \subseteq Visible /\ \A e \in Visible : e > a \/ e = a \/ e \in A
  BY <1>0, CaVisible DEF IndexOf
<1> HIDE DEF A
<1>2. ASSUME NEW B, IsFiniteSet(B), Cardinality(B) \in Nat, A \subseteq B, a \in B
      PROVE  Cardinality(A) < Cardinality(B)
  <2>1. A \in SUBSET B BY <1>2
  <2>2. Cardinality(A) <= Cardinality(B) /\ (Cardinality(B) = Cardinality(A) => B = A)
    BY <1>2, <2>1, FS_Subset
  <2> QED BY <2>2, <1>1, <1>2
<1>3. IndexOf(a) < Cardinality(Visible) BY <1>1, <1>2, CaVisible
<1>4. ASSUME NEW b \in Visible, a < b PROVE IndexOf(a) < IndexOf(b)
  <2> DEFINE B == {d \in Visible : d < b}
  <2>1. A \subseteq B /\ a \in B BY <1>0, <1>4 DEF A
  <2>2. IsFiniteSet(B) /\ Cardinality(B) = IndexOf(b) /\ Cardinality(B) \in Nat
    BY CaVisible DEF IndexOf
  <2> HIDE DEF B
  <2> QED BY <1>1, <1>2, <2>1, <2>2
<1> QED BY <1>3, <1>4

(* A game is the one at its index.                                         *)
LEMMA CaAtIndex == ASSUME NEW a \in Visible PROVE AtIndex(IndexOf(a)) = a
<1>0. \A e \in Visible : e \in Nat BY CaVisible, CaConstants
<1>1. \A e \in Visible : IndexOf(e) \in Nat BY CaVisible
<1>2. ASSUME NEW b \in Visible, IndexOf(b) = IndexOf(a) PROVE b = a
  <2>1. ~(a < b) BY <1>1, <1>2, CaIndexGrows
  <2>2. ~(b < a) BY <1>1, <1>2, CaIndexGrows
  <2> QED BY <1>0, <2>1, <2>2
<1> DEFINE c == AtIndex(IndexOf(a))
<1>3. c \in Visible /\ IndexOf(c) = IndexOf(a) BY DEF AtIndex
<1> HIDE DEF c
<1>4. c = a BY <1>2, <1>3
<1> QED BY <1>4 DEF c

(* The ends of the list.                                                   *)
LEMMA CaEnds ==
    ASSUME Visible # {}
    PROVE  /\ FirstOf(Visible) \in Visible /\ IndexOf(FirstOf(Visible)) = 0
           /\ LastOf(Visible) \in Visible /\ IndexOf(LastOf(Visible)) = Cardinality(Visible) - 1
           /\ \A d \in Visible : FirstOf(Visible) <= d /\ d <= LastOf(Visible)
<1>0. Visible \in SUBSET Nat /\ Len(Startup) \in Nat /\ Visible \in SUBSET (0 .. Len(Startup))
  BY CaVisible, CaConstants
<1> DEFINE f == FirstOf(Visible)
           l == LastOf(Visible)
<1>1. f \in Visible /\ \A d \in Visible : f <= d BY <1>0, CaFirst
<1>2. l \in Visible /\ \A d \in Visible : l >= d BY <1>0, CaLast
<1> HIDE DEF f, l
<1>3. {d \in Visible : d < f} = {}
  <2>1. \A d \in Visible : d \in Nat BY <1>0
  <2>2. \A d \in Visible : ~(d < f) BY <2>1, <1>1
  <2> QED BY <2>2, Zenon
<1>4. IndexOf(f) = 0 BY <1>3, FS_EmptySet DEF IndexOf
<1>5. {d \in Visible : d < l} = Visible \ {l}
  <2>1. \A d \in Visible : d \in Nat BY <1>0
  <2>2. \A d \in Visible : d < l <=> d # l BY <2>1, <1>2
  <2> QED BY <2>2, Zenon
<1>6. Cardinality(Visible \ {l}) = Cardinality(Visible) - 1 BY <1>2, CaVisible, FS_RemoveElement
<1>7. IndexOf(l) = Cardinality(Visible) - 1 BY <1>5, <1>6 DEF IndexOf
<1> QED BY <1>0, <1>1, <1>2, <1>4, <1>7 DEF f, l

(* Left and Right reach the neighbour, or the end of the list.             *)
LEMMA CaMoves ==
    ASSUME NEW direction \in {0, 1}, MenuMoveGame(direction), cursor \in Entries
    PROVE  /\ cursor' \in Visible
           /\ cursor \notin Visible => cursor' = IF direction > 0 THEN FirstOf(Visible) ELSE LastOf(Visible)
           /\ cursor \in Visible /\ direction > 0 => NextInRing(Visible, cursor, cursor')
           /\ cursor \in Visible /\ ~(direction > 0) => NextInRing(Visible, cursor', cursor)
<1> DEFINE S == Visible
           n == Cardinality(S)
           f == FirstOf(S)
           l == LastOf(S)
<1>0. /\ Visible # {} /\ cursor' = AtIndex(TargetIndex(direction)) BY DEF MenuMoveGame
<1>1. /\ f \in S /\ IndexOf(f) = 0 /\ l \in S /\ IndexOf(l) = n - 1 /\ \A d \in S : f <= d /\ d <= l
  BY <1>0, CaEnds
<1>2. /\ S \subseteq Nat /\ n \in Nat /\ \A e \in S : IndexOf(e) \in 0 .. n - 1 /\ AtIndex(IndexOf(e)) = e
  <2>1. S \subseteq Nat /\ n \in Nat BY CaVisible, CaConstants
  <2>2. ASSUME NEW e \in S PROVE IndexOf(e) \in 0 .. n - 1 /\ AtIndex(IndexOf(e)) = e
    <3>1. IndexOf(e) \in Nat BY CaVisible
    <3>2. IndexOf(e) < n BY CaIndexGrows
    <3>3. AtIndex(IndexOf(e)) = e BY CaAtIndex
    <3> QED BY <3>1, <3>2, <3>3, <2>1
  <2> QED BY <2>1, <2>2
<1>3. n \in Nat \ {0} /\ l \in Nat /\ f \in Nat /\ \A e \in S : e \in Nat
  <2>1. 0 \in 0 .. n - 1 BY <1>1, <1>2
  <2>2. n \in Nat \ {0} BY <2>1, <1>2
  <2>3. \A e \in S : e \in Nat BY <1>2, Zenon
  <2> QED BY <2>2, <2>3, <1>1
<1>4. cursor \in Nat BY CaConstants
<1>5. CASE cursor \notin S
  <2>1. TargetIndex(direction) = IF direction > 0 THEN 0 ELSE n - 1 BY <1>5 DEF TargetIndex
  <2> QED BY <2>1, <1>0, <1>1, <1>2, <1>5
<1>6. CASE cursor \in S /\ direction > 0
  <2>0. TargetIndex(direction) = (IndexOf(cursor) + 1) % n BY <1>6 DEF TargetIndex
  <2>1. CASE \E e \in S : e > cursor
    <3> DEFINE U == {e \in S : e > cursor}
    <3>1. U \in SUBSET Nat /\ U # {} BY <1>2, <2>1
    <3>2. PICK b \in U : \A d \in U : b <= d
      <4> HIDE DEF U
      <4> QED BY <3>1, NatHasMin
    <3>3. b \in S /\ cursor < b /\ \A e \in S : e <= cursor \/ e >= b BY <3>2, <1>2, <1>4
    <3>4. IndexOf(b) = IndexOf(cursor) + 1 BY <3>3, <1>6, CaIndexNext
    <3>5. IndexOf(b) \in 0 .. n - 1 BY <3>3, <1>2
    <3>6. IndexOf(b) % n = IndexOf(b) BY <3>5, <1>3, CaModulo
    <3>7. cursor' = b BY <3>3, <3>4, <3>6, <2>0, <1>0, <1>2
    <3> QED BY <3>3, <3>7, <2>1, <1>6 DEF NextInRing
  <2>2. CASE ~\E e \in S : e > cursor
    <3>1. cursor = l BY <2>2, <1>1, <1>3, <1>4, <1>6 
    <3>2. IndexOf(cursor) + 1 = n BY <3>1, <1>1, <1>3
    <3>3. n % n = 0
      <4>1. 0 \in 0 .. n - 1 BY <1>3
      <4> QED BY <4>1, <1>3, CaModulo
    <3>4. TargetIndex(direction) = IndexOf(f) BY <3>2, <3>3, <2>0, <1>1
    <3>5. cursor' = f BY <3>4, <1>0, <1>1, <1>2
    <3> QED BY <3>5, <2>2, <1>1, <1>6 DEF NextInRing
  <2> QED BY <2>1, <2>2
<1>7. CASE cursor \in S /\ ~(direction > 0)
  <2>0. TargetIndex(direction) = (IndexOf(cursor) + n - 1) % n BY <1>7 DEF TargetIndex
  <2>1. CASE \E e \in S : e < cursor
    <3> DEFINE U == {e \in S : e < cursor}
    <3>1. U \in SUBSET (0 .. cursor) /\ U # {}
      <4>1. \A e \in S : e < cursor => e \in 0 .. cursor BY <1>2, <1>4
      <4> QED BY <4>1, <2>1
    <3>2. LastOf(U) \in U /\ \A d \in U : LastOf(U) >= d
      <4> HIDE DEF U
      <4> QED BY <3>1, <1>4, CaLast
    <3> DEFINE a == LastOf(U)
    <3>3. a \in S /\ a < cursor /\ \A e \in S : e < cursor => a >= e BY <3>2
    <3> HIDE DEF a, U
    <3>4. a \in Nat /\ \A e \in S : e <= a \/ e >= cursor BY <3>3, <1>2, <1>4
    <3>5. IndexOf(cursor) = IndexOf(a) + 1 BY <3>3, <3>4, <1>7, CaIndexNext
    <3>6. IndexOf(a) \in 0 .. n - 1 /\ AtIndex(IndexOf(a)) = a BY <3>3, <1>2
    <3>7. (n + IndexOf(a)) % n = IndexOf(a) BY <3>6, <1>3, CaModulo
    <3>8. IndexOf(cursor) + n - 1 = n + IndexOf(a) BY <3>5, <3>6, <1>3
    <3>9. cursor' = a BY <3>6, <3>7, <3>8, <2>0, <1>0
    <3> QED BY <3>3, <3>4, <3>9, <1>4, <1>7 DEF NextInRing
  <2>2. CASE ~\E e \in S : e < cursor
    <3>1. cursor = f BY <2>2, <1>1, <1>3, <1>4, <1>7
    <3>2. IndexOf(cursor) + n - 1 = n - 1 BY <3>1, <1>1, <1>3
    <3>3. (n - 1) % n = n - 1
      <4>1. n - 1 \in 0 .. n - 1 BY <1>3
      <4> QED BY <4>1, <1>3, CaModulo
    <3>4. TargetIndex(direction) = IndexOf(l) BY <3>2, <3>3, <2>0, <1>1
    <3>5. cursor' = l BY <3>4, <1>0, <1>1, <1>2
    <3>6. ~\E e \in S : e > l BY <1>1, <1>3
    <3> QED BY <3>1, <3>5, <3>6, <1>1, <1>7 DEF NextInRing
  <2> QED BY <2>1, <2>2
<1> QED BY <1>5, <1>6, <1>7

----------------------------------------------------------------------------
(* The recently played games.                                              *)

(* The last place of a game in the history h.                              *)
CaLatest(h, s) == LastOf({i \in DOMAIN h : h[i] = s})

(* The list r is the end of the history h: the games in it are in the      *)
(* order of their last places, and a game that is not in it came before    *)
(* all of them and found no room.                                          *)
RecentOf(r, h) ==
    /\ r \in Seq(Startups) /\ h \in Seq(Startups) /\ Len(r) <= MaxRecent
    /\ \A k \in DOMAIN r : r[k] \in Elements(h)
    /\ \A j, k \in DOMAIN r : j < k => CaLatest(h, r[j]) > CaLatest(h, r[k])
    /\ \A s \in Elements(h) \ Elements(r) :
         Len(r) = MaxRecent /\ \A k \in DOMAIN r : CaLatest(h, s) < CaLatest(h, r[k])

(* The last place is one of the game's, and none is behind it.             *)
LEMMA CaLatestIs ==
    ASSUME NEW h \in Seq(Startups), NEW s \in Elements(h)
    PROVE  /\ CaLatest(h, s) \in DOMAIN h /\ CaLatest(h, s) \in 1 .. Len(h) /\ h[CaLatest(h, s)] = s
           /\ \A i \in DOMAIN h : h[i] = s => i <= CaLatest(h, s)
<1> DEFINE T == {i \in DOMAIN h : h[i] = s}
<1>1. Len(h) \in Nat /\ DOMAIN h = 1 .. Len(h) OBVIOUS
<1>2. T \in SUBSET (0 .. Len(h)) BY <1>1
<1>3. T # {} BY DEF Elements
<1>4. LastOf(T) \in T /\ \A d \in T : LastOf(T) >= d
  <2> HIDE DEF T
  <2> QED BY <1>1, <1>2, <1>3, CaLast
<1> QED BY <1>1, <1>4 DEF CaLatest

(* The game that is started last has the last place, and the others keep   *)
(* theirs.                                                                 *)
LEMMA CaLatestAppend ==
    ASSUME NEW h \in Seq(Startups), NEW s \in Startups
    PROVE  /\ Append(h, s) \in Seq(Startups) /\ Elements(Append(h, s)) = Elements(h) \cup {s}
           /\ CaLatest(Append(h, s), s) = Len(h) + 1
           /\ \A t \in Elements(h) : t # s => CaLatest(Append(h, s), t) = CaLatest(h, t)
<1> DEFINE g == Append(h, s)
           n == Len(h)
<1>1. /\ n \in Nat /\ g \in Seq(Startups) /\ DOMAIN h = 1 .. n /\ DOMAIN g = 1 .. n + 1 /\ Len(g) = n + 1
      /\ g[n + 1] = s /\ \A i \in 1 .. n : g[i] = h[i]
  OBVIOUS
<1> HIDE DEF g, n
<1>2. Elements(g) = Elements(h) \cup {s}
  <2>1. \A t : (\E i \in 1 .. n + 1 : g[i] = t) <=> ((\E i \in 1 .. n : h[i] = t) \/ t = s)
    BY <1>1
  <2> QED BY <2>1, <1>1 DEF Elements
<1>3. CaLatest(g, s) = n + 1
  <2>1. s \in Elements(g) BY <1>2
  <2>2. CaLatest(g, s) \in 1 .. n + 1 /\ \A i \in DOMAIN g : g[i] = s => i <= CaLatest(g, s)
    BY <1>1, <2>1, CaLatestIs
  <2> QED BY <1>1, <2>2
<1>4. ASSUME NEW t \in Elements(h), t # s PROVE CaLatest(g, t) = CaLatest(h, t)
  <2> DEFINE a == CaLatest(g, t)
             b == CaLatest(h, t)
  <2>1. t \in Elements(g) BY <1>2
  <2>2. a \in DOMAIN g /\ g[a] = t /\ \A i \in DOMAIN g : g[i] = t => i <= a
    BY <1>1, <2>1, CaLatestIs
  <2>3. b \in DOMAIN h /\ h[b] = t /\ \A i \in DOMAIN h : h[i] = t => i <= b
    BY CaLatestIs
  <2> HIDE DEF a, b
  <2>4. a \in 1 .. n /\ h[a] = t BY <2>2, <1>1, <1>4
  <2>5. a <= b /\ b <= a BY <2>2, <2>3, <2>4, <1>1
  <2>6. a = b BY <2>5, <2>2, <2>3, <1>1
  <2> QED BY <2>6 DEF a, b
<1> QED BY <1>1, <1>2, <1>3, <1>4 DEF g, n

(* What RecordRecent makes of a list: the game in front, and the others in *)
(* their order, without the last one when there is no room.                *)
LEMMA CaRecord ==
    ASSUME NEW r \in Seq(Startups), Len(r) <= MaxRecent, NEW s \in Startups,
           \A j, k \in DOMAIN r : r[j] = r[k] => j = k
    PROVE  LET q == RecordRecent(r, s)
               last == IF s \in Elements(r) THEN CHOOSE i \in DOMAIN r : r[i] = s
                       ELSE IF Len(r) < MaxRecent THEN Len(r) + 1 ELSE Len(r)
           IN /\ q \in Seq(Startups) /\ Len(q) <= MaxRecent /\ last \in 1 .. Len(q) /\ q[1] = s
              /\ Len(q) \in Len(r) .. Len(r) + 1
              /\ s \in Elements(r) => Len(q) = Len(r) /\ r[last] = s
              /\ s \notin Elements(r) => /\ last = Len(q)
                                         /\ Len(q) = Len(r) => Len(r) = MaxRecent
              /\ \A i \in 2 .. Len(q) : q[i] = IF i <= last THEN r[i - 1] ELSE r[i]
<1> DEFINE q == RecordRecent(r, s)
           at == {i \in DOMAIN r : r[i] = s}
           hits == CHOOSE i \in at : \A j \in at : i <= j
           some == CHOOSE i \in DOMAIN r : r[i] = s
           n == Len(r)
           last == IF s \in Elements(r) THEN some ELSE IF n < MaxRecent THEN n + 1 ELSE n
<1>0. n \in Nat /\ DOMAIN r = 1 .. n /\ \A i \in 1 .. n : r[i] \in Startups OBVIOUS
<1>1. MaxRecent \in Nat \ {0} BY CaConstants
<1>2. at # {} <=> s \in Elements(r) BY DEF Elements
<1>3. s \in Elements(r) => some \in 1 .. n /\ r[some] = s /\ hits = some
  <2>1. SUFFICES ASSUME s \in Elements(r) PROVE some \in 1 .. n /\ r[some] = s /\ hits = some
    OBVIOUS
  <2>2. at \in SUBSET Nat /\ at # {} BY <2>1, <1>0, <1>2
  <2>3. \E i \in at : \A j \in at : i <= j
    <3> HIDE DEF at
    <3> QED BY <2>2, NatHasMin
  <2>4. hits \in at BY <2>3
  <2>5. some \in 1 .. n /\ r[some] = s BY <2>1, <1>0 DEF Elements
  <2>6. hits \in 1 .. n /\ r[hits] = s BY <2>4, <1>0
  <2> HIDE DEF some, hits
  <2>7. hits = some BY <2>5, <2>6, <1>0
  <2> QED BY <2>5, <2>7
<1>4. q = [i \in 1 .. (IF last > n THEN last ELSE n) |->
             IF i = 1 THEN s ELSE IF i <= last THEN r[i - 1] ELSE r[i]]
  <2>1. CASE s \in Elements(r)
    <3>1. at # {} /\ hits = last BY <2>1, <1>2, <1>3
    <3> QED BY <3>1 DEF RecordRecent
  <2>2. CASE s \notin Elements(r)
    <3>1. at = {} BY <2>2, <1>2
    <3> QED BY <3>1, <2>2 DEF RecordRecent
  <2> QED BY <2>1, <2>2
<1>5. /\ last \in 1 .. MaxRecent /\ last <= n + 1
      /\ s \in Elements(r) => last \in 1 .. n /\ r[last] = s
      /\ s \notin Elements(r) => last = (IF n < MaxRecent THEN n + 1 ELSE n)
  BY <1>0, <1>1, <1>3
<1>a. n <= MaxRecent OBVIOUS
<1> HIDE DEF last, q, at, hits, some, n
<1> DEFINE m == IF last > n THEN last ELSE n
<1>b. /\ n \in Nat /\ MaxRecent \in Nat /\ n <= MaxRecent /\ last \in Nat /\ last >= 1 /\ last <= n + 1
      /\ last <= MaxRecent
  BY <1>0, <1>1, <1>5, <1>a
<1>6. m \in n .. n + 1 /\ m <= MaxRecent /\ last \in 1 .. m BY <1>b
<1>7. \A i \in 2 .. m : (i <= last => i - 1 \in 1 .. n) /\ (i > last => i \in 1 .. n)
  BY <1>b
<1>8. \A i \in 1 .. m : (IF i = 1 THEN s ELSE IF i <= last THEN r[i - 1] ELSE r[i]) \in Startups
  <2> SUFFICES ASSUME NEW i \in 1 .. m
               PROVE (IF i = 1 THEN s ELSE IF i <= last THEN r[i - 1] ELSE r[i]) \in Startups
    OBVIOUS
  <2>1. CASE i = 1 BY <2>1
  <2>2. CASE i # 1 /\ i <= last
    <3>1. i - 1 \in 1 .. n BY <2>2, <1>6, <1>7, <1>0
    <3> QED BY <3>1, <2>2, <1>0
  <2>3. CASE i # 1 /\ ~(i <= last)
    <3>1. i \in 1 .. n BY <2>3, <1>6, <1>7, <1>0
    <3> QED BY <3>1, <2>3, <1>0
  <2> QED BY <2>1, <2>2, <2>3
<1> HIDE DEF m
<1>9. q \in [1 .. m -> Startups] BY <1>4, <1>8 DEF m
<1>10. q \in Seq(Startups) /\ Len(q) = m BY <1>6, <1>9, <1>0
<1>11. q[1] = s /\ \A i \in 2 .. m : q[i] = IF i <= last THEN r[i - 1] ELSE r[i]
  <2>1. 1 \in 1 .. m /\ \A i \in 2 .. m : i \in 1 .. m /\ i # 1 BY <1>0, <1>6
  <2> QED BY <2>1, <1>4 DEF m
<1>12. /\ s \in Elements(r) => m = n
       /\ s \notin Elements(r) => last = m /\ (m = n => n = MaxRecent)
  <2>1. s \in Elements(r) => last <= n BY <1>5, <1>b
  <2>2. s \notin Elements(r) => last = (IF n < MaxRecent THEN n + 1 ELSE n) BY <1>5
  <2> QED BY <2>1, <2>2, <1>b DEF m
<1> QED BY <1>5, <1>6, <1>10, <1>11, <1>12 DEF q, last, some, n

(* The list has a game once.                                               *)
LEMMA CaOnce ==
    ASSUME NEW r, NEW h, RecentOf(r, h)
    PROVE  /\ Len(r) \in Nat /\ DOMAIN r = 1 .. Len(r)
           /\ \A j, k \in DOMAIN r : r[j] = r[k] => j = k
           /\ \A k \in DOMAIN r : CaLatest(h, r[k]) \in 1 .. Len(h)
<1>1. Len(r) \in Nat /\ DOMAIN r = 1 .. Len(r) /\ h \in Seq(Startups) BY DEF RecentOf
<1>2. \A k \in DOMAIN r : CaLatest(h, r[k]) \in 1 .. Len(h) BY <1>1, CaLatestIs DEF RecentOf
<1>3. \A j, k \in DOMAIN r : j < k => CaLatest(h, r[j]) > CaLatest(h, r[k]) BY DEF RecentOf
<1>4. ASSUME NEW j \in DOMAIN r, NEW k \in DOMAIN r, r[j] = r[k] PROVE j = k
  <2>1. Len(h) \in Nat BY <1>1
  <2>2. CaLatest(h, r[j]) = CaLatest(h, r[k]) /\ CaLatest(h, r[j]) \in Nat BY <1>2, <1>4, <2>1
  <2>3. ~(j < k) /\ ~(k < j) BY <2>2, <1>3
  <2> QED BY <2>3, <1>1
<1> QED BY <1>1, <1>2, <1>4

(* Starting a game keeps the list the end of the history.                  *)
LEMMA CaRecordKeeps ==
    ASSUME NEW r, NEW h, RecentOf(r, h), NEW s \in Startups
    PROVE  RecentOf(RecordRecent(r, s), Append(h, s))
<1> DEFINE q == RecordRecent(r, s)
           g == Append(h, s)
           L == Len(r)
           M == Len(q)
           last == IF s \in Elements(r) THEN CHOOSE i \in DOMAIN r : r[i] = s
                   ELSE IF Len(r) < MaxRecent THEN Len(r) + 1 ELSE Len(r)
           from(i) == IF i <= last THEN i - 1 ELSE i
<1>1. /\ L \in Nat /\ DOMAIN r = 1 .. L /\ \A j, k \in DOMAIN r : r[j] = r[k] => j = k
      /\ \A k \in DOMAIN r : CaLatest(h, r[k]) \in 1 .. Len(h)
  BY CaOnce
<1>2. r \in Seq(Startups) /\ h \in Seq(Startups) /\ L <= MaxRecent /\ Len(h) \in Nat BY DEF RecentOf
<1>3. /\ q \in Seq(Startups) /\ M <= MaxRecent /\ last \in 1 .. M /\ q[1] = s /\ M \in L .. L + 1
      /\ s \in Elements(r) => M = L /\ r[last] = s
      /\ s \notin Elements(r) => last = M /\ (M = L => L = MaxRecent)
      /\ \A i \in 2 .. M : q[i] = IF i <= last THEN r[i - 1] ELSE r[i]
  BY <1>1, <1>2, CaRecord
<1>4. /\ g \in Seq(Startups) /\ Elements(g) = Elements(h) \cup {s} /\ CaLatest(g, s) = Len(h) + 1
      /\ \A t \in Elements(h) : t # s => CaLatest(g, t) = CaLatest(h, t)
  BY <1>2, CaLatestAppend
<1> HIDE DEF q, g, last
<1>5. DOMAIN q = 1 .. M /\ M \in Nat BY <1>3
<1>a. L \in Nat /\ M \in Nat /\ last \in Nat /\ last >= 1 /\ last <= M /\ M <= L + 1 /\ L <= M
  <2>1. L \in Nat /\ M \in Nat /\ last \in 1 .. M /\ M \in L .. L + 1 BY <1>1, <1>3, <1>5
  <2> HIDE DEF L, M
  <2> QED BY <2>1
<1> HIDE DEF L, M
<1>6. ASSUME NEW i \in 2 .. M
      PROVE  /\ from(i) \in DOMAIN r /\ q[i] = r[from(i)] /\ q[i] # s
             /\ q[i] \in Elements(h) /\ CaLatest(g, q[i]) = CaLatest(h, r[from(i)])
             /\ CaLatest(g, q[i]) \in 1 .. Len(h)
  <2>1. from(i) \in 1 .. L
    <3>1. CASE s \in Elements(r) BY <3>1, <1>a, <1>3
    <3>2. CASE s \notin Elements(r) BY <3>2, <1>a, <1>3
    <3> QED BY <3>1, <3>2
  <2>2. q[i] = r[from(i)] BY <1>3
  <2>3. s \in Elements(r) => last \in DOMAIN r /\ from(i) # last BY <1>1, <1>3, <1>a
  <2> HIDE DEF from
  <2>4. q[i] # s
    <3>1. CASE s \in Elements(r) BY <3>1, <2>1, <2>2, <2>3, <1>1, <1>3
    <3>2. CASE s \notin Elements(r) BY <3>2, <2>1, <2>2, <1>1 DEF Elements
    <3> QED BY <3>1, <3>2
  <2>5. q[i] \in Elements(h) BY <2>1, <2>2, <1>1 DEF RecentOf
  <2>6. CaLatest(g, q[i]) = CaLatest(h, q[i]) BY <1>4, <2>4, <2>5
  <2> QED BY <2>1, <2>2, <2>4, <2>5, <2>6, <1>1
<1>7. \A k \in DOMAIN q : q[k] \in Elements(g)
  <2> SUFFICES ASSUME NEW k \in DOMAIN q PROVE q[k] \in Elements(g) OBVIOUS
  <2>1. CASE k = 1 BY <2>1, <1>3, <1>4
  <2>2. CASE k # 1
    <3>1. k \in 2 .. M BY <2>2, <1>5
    <3> QED BY <3>1, <1>4, <1>6
  <2> QED BY <2>1, <2>2
<1>8. ASSUME NEW j \in DOMAIN q, NEW k \in DOMAIN q, j < k PROVE CaLatest(g, q[j]) > CaLatest(g, q[k])
  <2>1. k \in 2 .. M BY <1>5, <1>8
  <2>2. CASE j = 1
    <3>1. CaLatest(g, q[k]) \in 1 .. Len(h) BY <2>1, <1>6
    <3>2. CaLatest(g, q[j]) = Len(h) + 1 BY <2>2, <1>3, <1>4
    <3> QED BY <3>1, <3>2, <1>2
  <2>3. CASE j # 1
    <3>1. j \in 2 .. M BY <2>3, <1>5
    <3>2. from(j) < from(k) BY <3>1, <2>1, <1>8, <1>a
    <3> HIDE DEF from
    <3>3. from(j) \in DOMAIN r /\ from(k) \in DOMAIN r BY <3>1, <2>1, <1>6
    <3>4. CaLatest(h, r[from(j)]) > CaLatest(h, r[from(k)]) BY <3>2, <3>3 DEF RecentOf
    <3>5. CaLatest(g, q[j]) = CaLatest(h, r[from(j)]) /\ CaLatest(g, q[k]) = CaLatest(h, r[from(k)])
      BY <3>1, <2>1, <1>6
    <3> QED BY <3>4, <3>5
  <2> QED BY <2>2, <2>3
<1>9. ASSUME NEW t \in Elements(g) \ Elements(q)
      PROVE  M = MaxRecent /\ \A k \in DOMAIN q : CaLatest(g, t) < CaLatest(g, q[k])
  <2>0. 1 \in DOMAIN q BY <1>5, <1>a
  <2>1. t # s /\ t \in Elements(h) BY <2>0, <1>3, <1>4, <1>9 DEF Elements
  <2>2. CaLatest(g, t) = CaLatest(h, t) /\ CaLatest(h, t) \in 1 .. Len(h)
    BY <2>1, <1>2, <1>4, CaLatestIs
  <2>3. CASE t \notin Elements(r)
    <3>1. L = MaxRecent /\ \A k \in DOMAIN r : CaLatest(h, t) < CaLatest(h, r[k])
      BY <2>1, <2>3 DEF RecentOf, L
    <3>2. M = MaxRecent BY <3>1, <1>2, <1>3, <1>a, CaConstants
    <3>3. ASSUME NEW k \in DOMAIN q PROVE CaLatest(g, t) < CaLatest(g, q[k])
      <4>1. CASE k = 1
        <5>1. CaLatest(g, q[k]) = Len(h) + 1 BY <4>1, <1>3, <1>4
        <5> QED BY <5>1, <2>2, <1>2
      <4>2. CASE k # 1
        <5>1. k \in 2 .. M BY <4>2, <1>5
        <5>2. from(k) \in DOMAIN r /\ CaLatest(g, q[k]) = CaLatest(h, r[from(k)]) BY <5>1, <1>6
        <5> QED BY <5>2, <3>1, <2>2
      <4> QED BY <4>1, <4>2
    <3> QED BY <3>2, <3>3
  <2>4. CASE t \in Elements(r)
    <3>1. PICK i \in DOMAIN r : r[i] = t BY <2>4 DEF Elements
    <3>2. i \in 1 .. L BY <3>1, <1>1 DEF L
    <3>3. ~(i < last /\ i + 1 <= M)
      <4> SUFFICES ASSUME i < last, i + 1 <= M PROVE FALSE OBVIOUS
      <4>1. i + 1 \in 2 .. M /\ from(i + 1) = i BY <3>2, <1>a
      <4>2. q[i + 1] = t BY <4>1, <3>1, <1>6
      <4>3. i + 1 \in DOMAIN q BY <4>1, <1>5, <1>a
      <4> QED BY <4>2, <4>3, <1>9 DEF Elements
    <3>4. ~(i > last)
      <4> SUFFICES ASSUME i > last PROVE FALSE OBVIOUS
      <4>1. i \in 2 .. M /\ from(i) = i BY <3>2, <1>a
      <4>2. q[i] = t BY <4>1, <3>1, <1>6
      <4>3. i \in DOMAIN q BY <4>1, <1>5, <1>a
      <4> QED BY <4>2, <4>3, <1>9 DEF Elements
    <3>5. i = last BY <3>2, <3>3, <3>4, <1>a
    <3>6. s \notin Elements(r) BY <3>1, <3>5, <2>1, <1>3
    <3>7. M = L /\ L = MaxRecent /\ i = L BY <3>2, <3>5, <3>6, <1>3, <1>a
    <3>8. ASSUME NEW k \in DOMAIN q PROVE CaLatest(g, t) < CaLatest(g, q[k])
      <4>1. CASE k = 1
        <5>1. CaLatest(g, q[k]) = Len(h) + 1 BY <4>1, <1>3, <1>4
        <5> QED BY <5>1, <2>2, <1>2
      <4>2. CASE k # 1
        <5>1. k \in 2 .. M BY <4>2, <1>5
        <5>2. from(k) < i BY <5>1, <3>5, <3>7, <1>a
        <5> HIDE DEF from
        <5>3. from(k) \in DOMAIN r /\ CaLatest(g, q[k]) = CaLatest(h, r[from(k)]) BY <5>1, <1>6
        <5>4. CaLatest(h, r[from(k)]) > CaLatest(h, r[i]) BY <5>2, <5>3, <3>1 DEF RecentOf
        <5>5. CaLatest(h, r[from(k)]) \in Nat BY <5>3, <1>1, <1>2
        <5> QED BY <5>3, <5>4, <5>5, <3>1, <2>2, <1>2
      <4> QED BY <4>1, <4>2
    <3> QED BY <3>7, <3>8
  <2> QED BY <2>3, <2>4
<1> QED BY <1>3, <1>4, <1>7, <1>8, <1>9 DEF RecentOf, q, g, M

(* The distinct elements of a list are as many as its length.              *)
LEMMA CaCount ==
    ASSUME NEW n \in Nat, NEW r, NEW T, \A j, k \in 1 .. n : r[j] = r[k] => j = k,
           \A i \in 1 .. n : r[i] \in T, \A t \in T : \E i \in 1 .. n : r[i] = t
    PROVE  IsFiniteSet(T) /\ Cardinality(T) = n
<1> DEFINE f == [i \in 1 .. n |-> r[i]]
<1>1. f \in Surjection(1 .. n, T) BY DEF Surjection
<1>2. f \in Injection(1 .. n, T) BY DEF Injection, IsInjective
<1>3. IsFiniteSet(1 .. n) /\ Cardinality(1 .. n) = n BY FS_Interval
<1> HIDE DEF f
<1>4. IsFiniteSet(T) /\ Cardinality(T) = Cardinality(1 .. n) BY <1>1, <1>2, <1>3, FS_Surjection
<1> QED BY <1>3, <1>4

(* The property of the runs follows.                                       *)
LEMMA CaHistory == ASSUME RecentOf(recent, played) PROVE RecentIsHistory
<1> DEFINE all == Elements(played)
           R == Elements(recent)
           n == Cardinality(all)
           L == Len(recent)
<1>1. /\ L \in Nat /\ DOMAIN recent = 1 .. L /\ \A j, k \in DOMAIN recent : recent[j] = recent[k] => j = k
      /\ \A k \in DOMAIN recent : CaLatest(played, recent[k]) \in 1 .. Len(played)
  BY CaOnce
<1>2. played \in Seq(Startups) /\ Len(played) \in Nat /\ DOMAIN played = 1 .. Len(played)
      /\ L <= MaxRecent /\ MaxRecent \in Nat
  BY CaConstants DEF RecentOf
<1>3. IsFiniteSet(all)
  <2> DEFINE f == [i \in 1 .. Len(played) |-> played[i]]
  <2>1. f \in Surjection(1 .. Len(played), all) BY <1>2 DEF Surjection, Elements
  <2>2. IsFiniteSet(1 .. Len(played)) BY <1>2, FS_Interval
  <2> HIDE DEF f
  <2> QED BY <2>1, <2>2, FS_Surjection
<1>4. n \in Nat BY <1>3, FS_CardinalityType
<1>5. R \subseteq all BY DEF RecentOf, Elements
<1>6. R = {recent[i] : i \in 1 .. L} BY <1>1 DEF Elements
<1>7. IsFiniteSet(R) /\ Cardinality(R) = L
  <2>1. L \in Nat /\ \A j, k \in 1 .. L : recent[j] = recent[k] => j = k BY <1>1
  <2>2. \A i \in 1 .. L : recent[i] \in R BY <1>6
  <2>3. \A t \in R : \E i \in 1 .. L : recent[i] = t BY <1>6
  <2> HIDE DEF L, R
  <2> QED BY <2>1, <2>2, <2>3, CaCount
<1>8. L <= n /\ (n = L => all = R)
  <2> HIDE DEF all, R, L, n
  <2>1. R \in SUBSET all BY <1>5
  <2>2. Cardinality(R) <= Cardinality(all) /\ (Cardinality(all) = Cardinality(R) => all = R)
    BY <2>1, <1>3, FS_Subset
  <2> QED BY <2>2, <1>7 DEF n
<1>9. L = IF n < MaxRecent THEN n ELSE MaxRecent
  <2>1. CASE all = R
    <3>1. n = L BY <2>1, <1>7
    <3> HIDE DEF n, L
    <3> QED BY <3>1, <1>2, <1>4
  <2>2. CASE all # R
    <3>1. PICK s \in all \ R : TRUE BY <2>2, <1>5
    <3>2. L = MaxRecent BY <3>1 DEF RecentOf
    <3> HIDE DEF n, L
    <3> QED BY <3>2, <1>2, <1>4, <1>8
  <2> QED BY <2>1, <2>2
<1>10. \A s : Latest(s) = CaLatest(played, s) BY DEF Latest, CaLatest
<1>11. ASSUME NEW k \in DOMAIN recent
       PROVE Cardinality({s \in all : Latest(s) > Latest(recent[k])}) = k - 1
  <2> DEFINE T == {s \in all : Latest(s) > Latest(recent[k])}
             U == {recent[j] : j \in 1 .. k - 1}
  <2>0. k \in 1 .. L /\ k - 1 \in Nat BY <1>1
  <2>1. ASSUME NEW s \in T PROVE s \in U
    <3>1. CaLatest(played, s) > CaLatest(played, recent[k]) /\ s \in all BY <1>10
    <3>2. CaLatest(played, s) \in Nat /\ CaLatest(played, recent[k]) \in Nat
      BY <3>1, <1>1, <1>2, CaLatestIs
    <3>3. s \in R BY <3>1, <3>2 DEF RecentOf
    <3>4. PICK j \in DOMAIN recent : recent[j] = s BY <3>3 DEF Elements
    <3>5. ~(k < j) /\ k # j
      <4>1. k < j => CaLatest(played, recent[k]) > CaLatest(played, recent[j]) BY <3>4 DEF RecentOf
      <4> QED BY <4>1, <3>1, <3>2, <3>4
    <3>6. j \in 1 .. k - 1 BY <3>5, <2>0, <1>1
    <3> QED BY <3>4, <3>6
  <2>2. ASSUME NEW j \in 1 .. k - 1 PROVE recent[j] \in T
    <3>1. j \in DOMAIN recent /\ j < k BY <1>1, <2>0
    <3>2. CaLatest(played, recent[j]) > CaLatest(played, recent[k]) BY <3>1 DEF RecentOf
    <3>3. recent[j] \in all BY <3>1 DEF RecentOf
    <3> QED BY <3>2, <3>3, <1>10
  <2>3. T = U BY <2>1, <2>2
  <2>4. \A i, j \in 1 .. k - 1 : recent[i] = recent[j] => i = j
    <3>1. \A i \in 1 .. k - 1 : i \in DOMAIN recent BY <2>0, <1>1
    <3> QED BY <3>1, <1>1
  <2>5. Cardinality(U) = k - 1
    <3> DEFINE m == k - 1
    <3>1. m \in Nat /\ \A i, j \in 1 .. m : recent[i] = recent[j] => i = j BY <2>0, <2>4
    <3>2. \A i \in 1 .. m : recent[i] \in U OBVIOUS
    <3>3. \A t \in U : \E i \in 1 .. m : recent[i] = t OBVIOUS
    <3> HIDE DEF m, U
    <3>4. Cardinality(U) = m BY <3>1, <3>2, <3>3, CaCount
    <3> QED BY <3>4 DEF m
  <2> QED BY <2>3, <2>5
<1> QED BY <1>9, <1>11 DEF RecentIsHistory

----------------------------------------------------------------------------
(* What the variables of the carousel may be, with the lists on the card.  *)
CaInv ==
    /\ available \in SUBSET Entries /\ cursor \in Entries /\ filter \in Filters /\ sortMode \in {0, 1}
    /\ favorites \in Seq(Startups) /\ Len(favorites) <= MaxFavorites
    /\ file = [favorites |-> file.favorites, recent |-> file.recent, played |-> file.played,
               last |-> file.last]
    /\ file.favorites \in Seq(Startups) /\ Len(file.favorites) <= MaxFavorites
    /\ file.last \in Startups \cup {NoStartup}
    /\ RecentOf(recent, played) /\ RecentOf(file.recent, file.played)
    /\ used \in 0 .. MaxCarousel

(* A game that is a favourite is taken out, another is put in.             *)
LEMMA CaToggle ==
    ASSUME NEW list \in Seq(Startups), Len(list) <= MaxFavorites, NEW s \in Startups
    PROVE  ToggleFavorite(list, s) \in Seq(Startups) /\ Len(ToggleFavorite(list, s)) <= MaxFavorites
<1> DEFINE at == {i \in DOMAIN list : list[i] = s}
           c == CHOOSE i \in at : \A j \in at : i <= j
<1>0. Len(list) \in Nat /\ MaxFavorites \in Nat BY CaConstants
<1>1. CASE at # {}
  <2>1. at \in SUBSET Nat OBVIOUS
  <2>2. \E i \in at : \A j \in at : i <= j
    <3> HIDE DEF at
    <3> QED BY <1>1, <2>1, NatHasMin
  <2>3. c \in at BY <2>2
  <2>4. c \in 1 .. Len(list) BY <2>3
  <2>5. ToggleFavorite(list, s) = SubSeq(list, 1, c - 1) \o SubSeq(list, c + 1, Len(list))
    BY <1>1 DEF ToggleFavorite
  <2> HIDE DEF c
  <2>6. /\ SubSeq(list, 1, c - 1) \in Seq(Startups) /\ Len(SubSeq(list, 1, c - 1)) = c - 1
        /\ SubSeq(list, c + 1, Len(list)) \in Seq(Startups)
        /\ Len(SubSeq(list, c + 1, Len(list))) = Len(list) - c
    BY <2>4, <1>0
  <2>7. Len(SubSeq(list, 1, c - 1) \o SubSeq(list, c + 1, Len(list))) = Len(list) - 1
    <3> DEFINE a == SubSeq(list, 1, c - 1)
               b == SubSeq(list, c + 1, Len(list))
    <3>1. a \in Seq(Startups) /\ b \in Seq(Startups) /\ Len(a) = c - 1 /\ Len(b) = Len(list) - c BY <2>6
    <3> HIDE DEF a, b
    <3>2. Len(a \o b) = Len(a) + Len(b) BY <3>1
    <3>3. Len(a \o b) = Len(list) - 1 BY <3>1, <3>2, <2>4, <1>0
    <3> QED BY <3>3 DEF a, b
  <2> QED BY <2>5, <2>6, <2>7, <1>0
<1>2. CASE at = {}
  <2>1. ToggleFavorite(list, s) = IF Len(list) < MaxFavorites THEN Append(list, s) ELSE list
    BY <1>2 DEF ToggleFavorite
  <2> QED BY <2>1, <1>0
<1> QED BY <1>1, <1>2

(* The lists a configuration file gives.                                   *)
LEMMA CaLoad ==
    ASSUME NEW f, f.last \in Startups \cup {NoStartup}, RecentOf(f.recent, f.played)
    PROVE  RecentOf(LoadRecent(f), IF f.recent = <<>> THEN LoadRecent(f) ELSE f.played)
<1>0. NoStartup \notin Startups /\ MaxRecent \in Nat \ {0} BY CarouselAssumption, CaConstants
<1>1. CASE f.recent # <<>> BY <1>1 DEF LoadRecent
<1>2. CASE f.recent = <<>> /\ f.last = NoStartup
  <2>1. LoadRecent(f) = <<>> BY <1>2 DEF LoadRecent
  <2>2. RecentOf(<<>>, <<>>)
    <3>1. Elements(<<>>) = {} BY DEF Elements
    <3> QED BY <1>0, <3>1 DEF RecentOf
  <2> QED BY <1>2, <2>1, <2>2
<1>3. CASE f.recent = <<>> /\ f.last # NoStartup
  <2> DEFINE one == <<f.last>>
  <2>1. LoadRecent(f) = one BY <1>3 DEF LoadRecent
  <2>2. one \in Seq(Startups) /\ Len(one) = 1 /\ DOMAIN one = {1} /\ one[1] = f.last BY <1>3
  <2> HIDE DEF one
  <2>3. Elements(one) = {f.last} BY <2>2 DEF Elements
  <2>4. RecentOf(one, one) BY <1>0, <2>2, <2>3 DEF RecentOf
  <2> QED BY <1>3, <2>1, <2>4
<1> QED BY <1>1, <1>2, <1>3

(* It holds at the start.                                                  *)
LEMMA CaStart == ASSUME CaInit PROVE CaInv
<1>1. /\ file.favorites = <<>> /\ file.recent = <<>> /\ file.played = <<>> /\ file.last \in Startups \cup {NoStartup}
      /\ file = [favorites |-> file.favorites, recent |-> file.recent, played |-> file.played,
                 last |-> file.last]
  BY DEF CaInit
<1>2. RecentOf(<<>>, <<>>)
  <2>1. Elements(<<>>) = {} BY DEF Elements
  <2> QED BY <2>1, CaConstants DEF RecentOf
<1>3. RecentOf(file.recent, file.played) BY <1>1, <1>2
<1>4. RecentOf(recent, played)
  <2>1. recent = LoadRecent(file) /\ played = LoadRecent(file) BY DEF CaInit
  <2>2. RecentOf(LoadRecent(file), IF file.recent = <<>> THEN LoadRecent(file) ELSE file.played)
    BY <1>1, <1>3, CaLoad
  <2> QED BY <2>1, <2>2, <1>1
<1>5. /\ available \in SUBSET Entries /\ cursor \in Entries /\ filter \in Filters /\ sortMode \in {0, 1}
      /\ favorites \in Seq(Startups) /\ Len(favorites) <= MaxFavorites /\ used \in 0 .. MaxCarousel
  BY CaConstants DEF CaInit, Filters
<1>6. file.favorites \in Seq(Startups) /\ Len(file.favorites) <= MaxFavorites BY <1>1, CaConstants
<1> QED BY <1>1, <1>3, <1>4, <1>5, <1>6 DEF CaInv

(* The game a key acts on is one of the list.                              *)
LEMMA CaAction == ASSUME CaInv, ActionGame # NoEntry PROVE ActionGame \in Entries /\ Startup[ActionGame] \in Startups
<1>1. Visible # {} => FirstOf(Visible) \in Visible BY CaEnds
<1>2. Visible \subseteq Entries BY CaVisible
<1>3. ActionGame \in Entries BY <1>1, <1>2 DEF ActionGame, CaInv
<1> QED BY <1>3, CaConstants

(* Where the filter shows a game, the first one is a game it shows.        *)
LEMMA CaMatch ==
    ASSUME NEW f, Matching(f) # {} PROVE FirstOf(Matching(f)) \in Matching(f) /\ FirstOf(Matching(f)) \in Entries
<1>1. Matching(f) \subseteq Entries BY DEF Matching
<1> HIDE DEF Matching
<1>2. Matching(f) \in SUBSET Nat BY <1>1, CaConstants
<1> QED BY <1>1, <1>2, CaFirst

(* Up and Down: a filter there is, and when sorting one that shows a game. *)
LEMMA CaNextFilter ==
    ASSUME CaInv, NEW direction \in {0, 1}
    PROVE  /\ NextFilter(direction) \in Filters
           /\ sortMode = 1 => \/ NextFilter(direction) \in {filter, 0}
                              \/ Matching(NextFilter(direction)) # {}
<1> DEFINE below == {f \in (IF filter = LastFilter THEN {} ELSE filter + 1 .. LastFilter) : Matching(f) # {}}
           above == {f \in (IF filter = 0 THEN {} ELSE 0 .. filter - 1) : Matching(f) # {}}
<1>0. filter \in Nat /\ filter <= LastFilter /\ LastFilter \in Nat /\ sortMode \in {0, 1}
  BY CaConstants DEF CaInv, Filters
<1>1. below \in SUBSET Filters /\ below \in SUBSET Nat
  <2>1. (IF filter = LastFilter THEN {} ELSE filter + 1 .. LastFilter) \subseteq 0 .. LastFilter BY <1>0
  <2>2. below \in SUBSET (0 .. LastFilter) BY <2>1, Zenon
  <2>3. 0 .. LastFilter \subseteq Nat BY <1>0
  <2> HIDE DEF below
  <2> QED BY <2>2, <2>3 DEF Filters
<1>2. above \in SUBSET Filters /\ above \in SUBSET (0 .. LastFilter)
  <2>1. (IF filter = 0 THEN {} ELSE 0 .. filter - 1) \subseteq 0 .. LastFilter BY <1>0
  <2>2. above \in SUBSET (0 .. LastFilter) BY <2>1, Zenon
  <2> HIDE DEF above
  <2> QED BY <2>2 DEF Filters
<1>3. below # {} => FirstOf(below) \in below
  <2> HIDE DEF below
  <2> QED BY <1>1, CaFirst
<1>4. above # {} => LastOf(above) \in above
  <2> HIDE DEF above
  <2> QED BY <1>0, <1>2, CaLast
<1>5. NextFilter(direction) =
        IF sortMode = 0
        THEN IF direction > 0 THEN IF filter = LastFilter THEN LastFilter ELSE filter + 1
             ELSE IF filter = 0 THEN 0 ELSE filter - 1
        ELSE IF direction > 0 THEN IF below = {} THEN filter ELSE FirstOf(below)
        ELSE IF above = {} THEN 0 ELSE LastOf(above)
  BY DEF NextFilter
<1>6. \A f \in below : Matching(f) # {} OBVIOUS
<1>7. \A f \in above : Matching(f) # {} OBVIOUS
<1> HIDE DEF below, above
<1>8. CASE sortMode = 0 BY <1>0, <1>5, <1>8 DEF Filters
<1>9. CASE sortMode = 1
  <2>1. CASE direction > 0
    <3>1. NextFilter(direction) = IF below = {} THEN filter ELSE FirstOf(below) BY <1>5, <1>9, <2>1
    <3>2. CASE below = {}
      <4>1. NextFilter(direction) = filter BY <3>1, <3>2
      <4> QED BY <4>1, <1>0 DEF Filters
    <3>3. CASE below # {}
      <4>1. NextFilter(direction) \in below BY <3>1, <3>3, <1>3
      <4> QED BY <4>1, <1>1, <1>6
    <3> QED BY <3>2, <3>3
  <2>2. CASE ~(direction > 0)
    <3>1. NextFilter(direction) = IF above = {} THEN 0 ELSE LastOf(above) BY <1>5, <1>9, <2>2
    <3>2. CASE above = {}
      <4>1. NextFilter(direction) = 0 BY <3>1, <3>2
      <4> QED BY <4>1, <1>0 DEF Filters
    <3>3. CASE above # {}
      <4>1. NextFilter(direction) \in above BY <3>1, <3>3, <1>4
      <4> QED BY <4>1, <1>2, <1>7
    <3> QED BY <3>2, <3>3
  <2> QED BY <2>1, <2>2
<1> QED BY <1>0, <1>8, <1>9

(* What a save leaves in the configuration.                                *)
LEMMA CaSave ==
    ASSUME CaInv, SaveLists, favorites' \in Seq(Startups), Len(favorites') <= MaxFavorites,
           RecentOf(recent', played')
    PROVE  /\ file' = [favorites |-> file'.favorites, recent |-> file'.recent, played |-> file'.played,
                       last |-> file'.last]
           /\ file'.favorites \in Seq(Startups) /\ Len(file'.favorites) <= MaxFavorites
           /\ file'.last \in Startups \cup {NoStartup} /\ RecentOf(file'.recent, file'.played)
<1>0. /\ file = [favorites |-> file.favorites, recent |-> file.recent, played |-> file.played,
                 last |-> file.last]
      /\ file.favorites \in Seq(Startups) /\ Len(file.favorites) <= MaxFavorites
      /\ file.last \in Startups \cup {NoStartup} /\ RecentOf(file.recent, file.played)
  BY DEF CaInv
<1>1. CASE file' = file BY <1>0, <1>1
<1>2. CASE file' = [file EXCEPT !.favorites = favorites', !.recent = recent', !.played = played']
  <2>1. file' = [favorites |-> favorites', recent |-> recent', played |-> played', last |-> file.last]
    BY <1>0, <1>2
  <2> QED BY <2>1, <1>0
<1> QED BY <1>1, <1>2 DEF SaveLists

(* Every step keeps it.                                                    *)
LEMMA CaStep == ASSUME CaInv, [CaNext]_caVars PROVE CaInv'
<1>0. /\ available \in SUBSET Entries /\ cursor \in Entries /\ filter \in Filters /\ sortMode \in {0, 1}
      /\ favorites \in Seq(Startups) /\ Len(favorites) <= MaxFavorites
      /\ RecentOf(recent, played) /\ used \in 0 .. MaxCarousel
  BY DEF CaInv
<1>1. Count => used' \in 0 .. MaxCarousel BY <1>0, CaConstants DEF Count
<1>2. ASSUME NEW direction \in {0, 1}, MenuMoveGame(direction) PROVE CaInv'
  <2>1. cursor' \in Entries BY <1>0, <1>2, CaMoves, CaVisible
  <2> QED BY <1>2, <2>1 DEF CaInv, MenuMoveGame
<1>3. ASSUME NEW direction \in {0, 1}, MoveAlphabet(direction) PROVE CaInv'
  <2>1. filter' \in Filters BY <1>3, CaNextFilter DEF MoveAlphabet
  <2>2. cursor' \in Entries BY <1>0, <1>3, CaMatch DEF MoveAlphabet, JumpTo
  <2> QED BY <1>3, <2>1, <2>2 DEF CaInv, MoveAlphabet
<1>4. CASE Cross
  <2>1. ActionGame \in Entries /\ Startup[ActionGame] \in Startups BY <1>4, CaAction DEF Cross
  <2>2. RecentOf(recent', played') BY <1>0, <1>4, <2>1, CaRecordKeeps DEF Cross
  <2>3. favorites' = favorites /\ UNCHANGED <<available, filter, sortMode>> /\ cursor' \in Entries
        /\ SaveLists /\ used' \in 0 .. MaxCarousel
    BY <1>1, <1>4, <2>1 DEF Cross
  <2>4. /\ file' = [favorites |-> file'.favorites, recent |-> file'.recent, played |-> file'.played,
                       last |-> file'.last]
        /\ file'.favorites \in Seq(Startups) /\ Len(file'.favorites) <= MaxFavorites
        /\ file'.last \in Startups \cup {NoStartup} /\ RecentOf(file'.recent, file'.played)
    BY <1>0, <2>2, <2>3, CaSave
  <2> QED BY <1>0, <2>2, <2>3, <2>4 DEF CaInv
<1>5. CASE Select
  <2>1. ActionGame \in Entries /\ Startup[ActionGame] \in Startups BY <1>5, CaAction DEF Select
  <2>2. favorites' \in Seq(Startups) /\ Len(favorites') <= MaxFavorites
    BY <1>0, <1>5, <2>1, CaToggle DEF Select
  <2>3. recent' = recent /\ played' = played /\ UNCHANGED <<available, filter, sortMode>> /\ cursor' \in Entries
        /\ (file' = file \/ SaveLists) /\ used' \in 0 .. MaxCarousel
    BY <1>1, <1>5, <2>1 DEF Select
  <2>4. /\ file' = [favorites |-> file'.favorites, recent |-> file'.recent, played |-> file'.played,
                       last |-> file'.last]
        /\ file'.favorites \in Seq(Startups) /\ Len(file'.favorites) <= MaxFavorites
        /\ file'.last \in Startups \cup {NoStartup} /\ RecentOf(file'.recent, file'.played)
    <3>1. CASE file' = file BY <3>1 DEF CaInv
    <3>2. CASE SaveLists BY <1>0, <2>2, <2>3, <3>2, CaSave
    <3> QED BY <2>3, <3>1, <3>2
  <2> QED BY <1>0, <2>2, <2>3, <2>4 DEF CaInv
<1>6. CASE ChangeSort
  <2>1. sortMode' \in {0, 1} BY <1>0, <1>6 DEF ChangeSort
  <2> QED BY <1>1, <1>6, <2>1 DEF CaInv, ChangeSort
<1>7. CASE Devices
  <2>1. available' \in SUBSET Entries BY <1>0, <1>7 DEF Devices
  <2> QED BY <1>1, <1>7, <2>1 DEF CaInv, Devices
<1>8. CASE Restart
  <2>1. RecentOf(LoadRecent(file), IF file.recent = <<>> THEN LoadRecent(file) ELSE file.played)
    BY CaLoad DEF CaInv
  <2>2. RecentOf(recent', played') BY <2>1, <1>8 DEF Restart
  <2>3. cursor' \in Entries /\ filter' \in Filters BY <1>8, CaConstants DEF Restart, Filters
  <2> QED BY <1>1, <1>8, <2>2, <2>3 DEF CaInv, Restart
<1>9. CASE UNCHANGED caVars BY <1>9 DEF CaInv, caVars
<1> QED BY <1>2, <1>3, <1>4, <1>5, <1>6, <1>7, <1>8, <1>9 DEF CaNext

(* Up and Down stop at no empty filter.                                    *)
LEMMA CaShown ==
    ASSUME CaInv, [CaNext]_caVars, sortMode = 1, filter' # filter, used' = used
    PROVE  filter' = 0 \/ ShownGame' # NoEntry
<1>0. ~Count BY DEF CaInv, Count
<1>1. filter' # filter => ~UNCHANGED caVars BY DEF caVars
<1>2. PICK direction \in {0, 1} : MoveAlphabet(direction)
  BY <1>0, <1>1 DEF CaNext, MenuMoveGame, Cross, Select, ChangeSort, Devices,
     Restart
<1> DEFINE f == NextFilter(direction)
<1>3. filter' = f /\ JumpTo(f) /\ UNCHANGED <<available, favorites, recent>> BY <1>2 DEF MoveAlphabet
<1>4. f = 0 \/ Matching(f) # {} BY <1>3, CaNextFilter
<1> SUFFICES ASSUME Matching(f) # {} PROVE ShownGame' # NoEntry BY <1>3, <1>4
<1> HIDE DEF f
<1>5. cursor' = FirstOf(Matching(f)) BY <1>3 DEF JumpTo
<1>6. cursor' \in Matching(f) /\ cursor' \in Entries BY <1>5, CaMatch
<1>7. Matching(filter)' = Matching(f)
  BY <1>3 DEF Matching, GameMatchesFilter, Listed
<1>8. ShownGame' = cursor' BY <1>6, <1>7 DEF ShownGame
<1> QED BY <1>6, <1>8, CaConstants DEF NoEntry

(* The types of the carousel.                                              *)
LEMMA CaTypes == ASSUME CaInv PROVE CaTypeOK
<1>1. recent \in Seq(Startups) /\ Len(recent) <= MaxRecent BY DEF CaInv, RecentOf
<1> QED BY <1>1 DEF CaInv, CaTypeOK, Elements

(* The carousel is right: Left and Right go from a game to its neighbour   *)
(* in the ring of the games shown, Up and Down never stop at an empty      *)
(* filter, and the recent games are the last ones started, for any list of *)
(* games, any alphabet, any sizes of the lists, and any number of keys,    *)
(* devices that come and go, restarts and saves that fail.                 *)
THEOREM CarouselTheorem == CaSpec => CarouselIsRight /\ []CaTypeOK
<1>1. CaInit => CaInv BY CaStart
<1>2. CaInv /\ [CaNext]_caVars => CaInv' BY CaStep
<1>3. CaInv => RecentIsHistory /\ CaTypeOK BY CaHistory, CaTypes DEF CaInv
<1>4. CaInv /\ [CaNext]_caVars =>
        [\A direction \in {0, 1} :
           caVars' # caVars /\ MenuMoveGame(direction) =>
             /\ cursor' \in Visible
             /\ CASE cursor \notin Visible ->
                       cursor' = IF direction > 0 THEN FirstOf(Visible) ELSE LastOf(Visible)
                  [] cursor \in Visible /\ direction > 0 -> NextInRing(Visible, cursor, cursor')
                  [] OTHER -> NextInRing(Visible, cursor', cursor)]_caVars
  <2> SUFFICES ASSUME CaInv, NEW direction \in {0, 1}, MenuMoveGame(direction)
               PROVE /\ cursor' \in Visible
                     /\ CASE cursor \notin Visible ->
                               cursor' = IF direction > 0 THEN FirstOf(Visible) ELSE LastOf(Visible)
                          [] cursor \in Visible /\ direction > 0 -> NextInRing(Visible, cursor, cursor')
                          [] OTHER -> NextInRing(Visible, cursor', cursor)
    OBVIOUS
  <2>1. cursor \in Entries BY DEF CaInv
  <2>2. /\ cursor' \in Visible
        /\ cursor \notin Visible => cursor' = IF direction > 0 THEN FirstOf(Visible) ELSE LastOf(Visible)
        /\ cursor \in Visible /\ direction > 0 => NextInRing(Visible, cursor, cursor')
        /\ cursor \in Visible /\ ~(direction > 0) => NextInRing(Visible, cursor', cursor)
    BY <2>1, CaMoves
  <2> QED BY <2>2
<1>5. CaInv /\ [CaNext]_caVars =>
        [(sortMode = 1 /\ filter' # filter /\ used' = used) => filter' = 0 \/ ShownGame' # NoEntry]_caVars
  BY CaShown
<1> QED BY <1>1, <1>2, <1>3, <1>4, <1>5, PTL DEF CaSpec, CarouselIsRight, MovesReachGames, MoveIsNext, NoEmptyFilter

----------------------------------------------------------------------------
(* The wireless controllers.                                               *)

Disc(h) == Event("disc", NoCtl, h)

(* The end of a link is on its way; so is its beginning; it will end.      *)
AnnIn(s, h) == \E i \in DOMAIN s : s[i] = Disc(h)
FreshIn(s, h) == \E i \in DOMAIN s : /\ s[i].k = "complete" /\ s[i].handle = h
                                     /\ \A n \in DOMAIN s : i < n => s[n] # Disc(h)
DoomIn(cs, L, os, h) == (L[h] \in BtCtls /\ cs[L[h]].at = "leaving") \/ Disconnect(h) \in os

PadTypes == [addr : BtCtls \cup {NoCtl}, handle : BtHandles \cup {NoHandle},
             scid : SUBSET Channels, type : {"ds3", "ds4"},
             fake : BOOLEAN, status : SUBSET Flags]
BtPacketTypes == {"connreq", "connrsp", "cfgrsp", "discreq", "discrsp", "report"}
BtPackets == [handle : BtHandles, k : BtPacketTypes, chan : Channels, dcid : Family]
BtEventTypes ==
    [k : {"complete"}, ctl : BtCtls, handle : BtHandles]
    \cup [k : {"disc"}, ctl : {NoCtl}, handle : BtHandles]
    \cup [k : {"name", "request"}, ctl : BtCtls, handle : {NoHandle}]
    \cup [k : {"reset", "read", "scan"}, ctl : {NoCtl}, handle : {NoHandle}]

(* The commands the adapter is told; a torn slot has no handle.            *)
BtOrders(os) ==
    \A o \in os : \/ \E c \in BtCtls : o = Accept(c)
                  \/ \E h \in BtHandles \cup {NoHandle} : o = Disconnect(h)

(* What the endpoints deliver and what the adapter is told.  Only the      *)
(* control channel is opened by a controller.                              *)
BtTypes ==
    /\ BtTypeOK
    /\ events \in Seq(BtEventTypes)
    /\ packets \in Seq(BtPackets)
    /\ \A i \in DOMAIN packets : packets[i].k = "connreq" => packets[i].chan = "control"
    /\ BtOrders(orders)

(* Without a configured adapter nothing is on its way.                     *)
BtOut ==
    usb \in {"out", "authorized"} =>
        /\ events = <<>> /\ packets = <<>> /\ orders = {}
        /\ links = [h \in BtHandles |-> NoCtl] /\ ctls = [c \in BtCtls |-> OffCtl]

(* A controller has one link, or asks for one once, and its channels are   *)
(* closed without one.                                                     *)
BtCtlInv ==
    /\ \A h \in BtHandles : links[h] # NoCtl => ctls[links[h]].at \in {"linked", "leaving"}
    /\ \A g, h \in BtHandles : links[g] = links[h] /\ links[g] # NoCtl => g = h
    /\ \A c \in BtCtls : Accept(c) \in orders => ctls[c].at = "asking"
    /\ \A i \in DOMAIN events :
         events[i].k = "request" => /\ ctls[events[i].ctl].at = "asking"
                                    /\ Accept(events[i].ctl) \notin orders
    /\ \A i, j \in DOMAIN events :
         events[i].k = "request" /\ events[j].k = "request" /\ events[i].ctl = events[j].ctl => i = j
    /\ \A c \in BtCtls : (\A h \in BtHandles : links[h] # c) =>
                           \A ch \in Channels : ctls[c].chan[ch] = 0

(* The events of a handle and of a controller come in the order of its     *)
(* links: s are the events, L the links.                                   *)
BtEventInv(s, L) ==
    /\ \A i, j \in DOMAIN s :
         (/\ i < j /\ s[i].k = "complete" /\ s[j].k = "complete"
          /\ s[i].handle = s[j].handle \/ s[i].ctl = s[j].ctl) =>
              \E n \in DOMAIN s : i < n /\ n < j /\ s[n] = Disc(s[i].handle)
    /\ \A i \in DOMAIN s :
         s[i].k = "complete" =>
             \/ L[s[i].handle] = s[i].ctl
             \/ \E n \in DOMAIN s : i < n /\ s[n] = Disc(s[i].handle)
    /\ \A i, j \in DOMAIN s :
         s[i].k = "request" /\ s[j].k = "complete" /\ i < j => s[i].ctl # s[j].ctl

(* A slot hears of the end of its link before it hears of the next one of  *)
(* its handle or of its controller.  What a slot's status says is of its   *)
(* link unless it was written back over a newer one.                       *)
BtSlotInv ==
    /\ \A p \in Slots, j \in DOMAIN events :
         (/\ events[j].k = "complete" /\ pads[p].handle \in BtHandles
          /\ \/ events[j].handle = pads[p].handle
             \/ /\ "connected" \in pads[p].status /\ p \notin torn
                /\ events[j].ctl = pads[p].addr) =>
                \E n \in DOMAIN events : n < j /\ events[n] = Disc(pads[p].handle)
    /\ OneSlotPerHandle
    /\ \A p \in Slots : "connected" \in pads[p].status /\ p \notin torn => pads[p].handle \in BtHandles
    /\ \A p \in Slots :
         pads[p].handle \in BtHandles /\ ~AnnIn(events, pads[p].handle) =>
             /\ links[pads[p].handle] # NoCtl
             /\ "connected" \in pads[p].status /\ p \notin torn => links[pads[p].handle] = pads[p].addr

(* The kinds and channels of the packets of a handle.                      *)
Kinds(ps, h) == {<<ps[i].k, ps[i].chan>> : i \in {j \in DOMAIN ps : ps[j].handle = h}}

(* Both channels of a link are open, or the answer to their disconnection  *)
(* is to come.                                                             *)
OpenC(chan, K) == chan["control"] # 0 \/ <<"discrsp", "control">> \in K
OpenI(chan, K) == \/ chan["interrupt"] # 0
                  \/ <<"discrsp", "control">> \in K \/ <<"discrsp", "interrupt">> \in K

(* What slot q, the channels of its controller and the packets of their    *)
(* link have to do with each other.                                        *)
HeldOk(q, chan, K) ==
    /\ (<<"connrsp", "control">> \in K \/ <<"cfgrsp", "control">> \in K) => OpenC(chan, K)
    /\ \A ch \in Channels : <<"cfgrsp", ch>> \in K => ch \in q.scid
    /\ (\/ chan["interrupt"] # 0
        \/ \E k \in {"connrsp", "cfgrsp", "discrsp"} : <<k, "interrupt">> \in K) =>
            "control" \in q.scid /\ OpenC(chan, K)
    /\ (<<"connrsp", "interrupt">> \in K \/ <<"cfgrsp", "interrupt">> \in K) => OpenI(chan, K)
    /\ "running" \in q.status => /\ Channels \subseteq q.scid
                                 /\ OpenC(chan, K) /\ OpenI(chan, K)
    /\ (\E ch \in Channels : <<"discrsp", ch>> \in K) => Channels \subseteq q.scid

(* A link no slot has heard of.                                            *)
FreshOk(chan, K) ==
    /\ chan["interrupt"] = 0
    /\ K \subseteq {<<"connreq", "control">>, <<"connrsp", "control">>}
    /\ <<"connrsp", "control">> \in K => chan["control"] # 0

BtLinkInv ==
    ~crossed =>
        /\ torn = {}
        /\ \A p \in Slots : "running" \in pads[p].status => "connected" \in pads[p].status
        /\ \A p \in Slots :
             LET h == pads[p].handle
             IN "connected" \in pads[p].status /\ ~AnnIn(events, h) /\ ~DoomIn(ctls, links, orders, h) =>
                    HeldOk(pads[p], ctls[links[h]].chan, Kinds(packets, h))
        /\ \A h \in BtHandles :
             FreshIn(events, h) /\ ~DoomIn(ctls, links, orders, h) =>
                 FreshOk(ctls[links[h]].chan, Kinds(packets, h))

(* The slot a reset waits for.                                             *)
BtResetInv ==
    ~crossed /\ call.op = "poll" =>
        LET q == pads[call.pad]
            K == Kinds(packets, q.handle)
        IN \/ "request" \in q.status
           \/ /\ "running" \in q.status
              /\ \/ AnnIn(events, q.handle) \/ DoomIn(ctls, links, orders, q.handle)
                 \/ <<"discrsp", "control">> \in K \/ <<"discrsp", "interrupt">> \in K
           \/ /\ "connected" \notin q.status /\ "running" \notin q.status
              /\ \A i \in DOMAIN events : events[i].k = "complete" => events[i].ctl # q.addr

BtInv == /\ BtTypes /\ BtOut /\ BtCtlInv /\ BtEventInv(events, links) /\ BtSlotInv
         /\ BtLinkInv /\ BtResetInv

----------------------------------------------------------------------------
(* First finds a slot if there is one.                                     *)
LEMMA BtFirst ==
    ASSUME NEW W \in SUBSET Slots
    PROVE  (First(W) > BtPads /\ W = {}) \/ (First(W) \in W /\ First(W) \in Slots /\ ~(First(W) > BtPads))
<1>1. BtPads \in Nat BY BtAssumption
<1>2. CASE W = {} BY <1>1, <1>2 DEF First
<1>3. CASE W # {}
  <2>1. W \in SUBSET Nat BY <1>1 DEF Slots
  <2>2. \E p \in W : \A q \in W : p <= q BY <2>1, <1>3, NatHasMin
  <2>3. First(W) \in W BY <2>2, <1>3 DEF First
  <2>4. First(W) \in Slots BY <2>3
  <2>5. ~(First(W) > BtPads) BY <2>4, <1>1 DEF Slots
  <2> QED BY <2>3, <2>4, <2>5
<1> QED BY <1>2, <1>3

(* The first event was taken and at most one that only the driver needs    *)
(* was added.                                                              *)
Quiet(e) == e.k \notin {"complete", "disc", "request"}
Popped(s, t) ==
    /\ \A i \in DOMAIN t : \/ i + 1 \in DOMAIN s /\ t[i] = s[i + 1]
                           \/ Quiet(t[i])
    /\ \A i \in DOMAIN s : i = 1 \/ (i - 1 \in DOMAIN t /\ t[i - 1] = s[i])
Appended(s, t, e) ==
    /\ DOMAIN t = DOMAIN s \cup {Len(s) + 1}
    /\ t[Len(s) + 1] = e
    /\ \A i \in DOMAIN s : t[i] = s[i] /\ i < Len(s) + 1

(* Of any sequence: its tail and another one, and its extension.           *)
LEMMA BtTailOf ==
    ASSUME NEW T, NEW s \in Seq(T), s # <<>>, NEW a \in Seq(T), \A i \in DOMAIN a : Quiet(a[i])
    PROVE  /\ Tail(s) \o a \in Seq(T) /\ Popped(s, Tail(s) \o a)
           /\ 1 \in DOMAIN s /\ Head(s) = s[1] /\ Head(s) \in T
<1> DEFINE u == Tail(s)
           t == u \o a
<1>1. u \in Seq(T) /\ Len(u) = Len(s) - 1 /\ \A i \in 1 .. Len(s) - 1 : u[i] = s[i + 1]
  OBVIOUS
<1>2. Len(s) \in Nat \ {0} /\ DOMAIN s = 1 .. Len(s) /\ Len(a) \in Nat /\ DOMAIN a = 1 .. Len(a)
  OBVIOUS
<1> HIDE DEF u
<1>a. /\ t \in Seq(T) /\ Len(t) = Len(u) + Len(a)
      /\ \A i \in 1 .. Len(u) + Len(a) : t[i] = IF i <= Len(u) THEN u[i] ELSE a[i - Len(u)]
  BY <1>1, ConcatProperties
<1> HIDE DEF t
<1>b. DOMAIN t = 1 .. Len(u) + Len(a) BY <1>a
<1>3. /\ t \in Seq(T) /\ DOMAIN t = 1 .. Len(u) + Len(a)
      /\ \A i \in 1 .. Len(u) + Len(a) : t[i] = IF i <= Len(u) THEN u[i] ELSE a[i - Len(u)]
  BY <1>a, <1>b
<1>4. ASSUME NEW i \in DOMAIN t PROVE (i + 1 \in DOMAIN s /\ t[i] = s[i + 1]) \/ Quiet(t[i])
  <2>1. CASE i <= Len(u)
    <3>1. Len(u) \in Nat /\ i \in 1 .. Len(u) + Len(a) BY <1>1, <1>3
    <3>2. i \in 1 .. Len(s) - 1 /\ i + 1 \in DOMAIN s BY <3>1, <2>1, <1>1, <1>2
    <3>3. t[i] = u[i] /\ u[i] = s[i + 1] BY <3>1, <3>2, <2>1, <1>1, <1>3
    <3> QED BY <3>2, <3>3
  <2>2. CASE ~(i <= Len(u))
    <3>1. Len(u) \in Nat /\ i \in 1 .. Len(u) + Len(a) BY <1>1, <1>3
    <3>2. i - Len(u) \in 1 .. Len(a) BY <3>1, <2>2, <1>2
    <3>3. t[i] = a[i - Len(u)] BY <3>1, <2>2, <1>3
    <3> QED BY <3>2, <3>3, <1>2
  <2> QED BY <2>1, <2>2
<1>5. ASSUME NEW i \in DOMAIN s, i # 1 PROVE i - 1 \in DOMAIN t /\ t[i - 1] = s[i]
  <2>1. i - 1 \in 1 .. Len(u) /\ i - 1 <= Len(u) BY <1>1, <1>2, <1>5
  <2>2. u[i - 1] = s[i] BY <1>1, <1>2, <1>5, <2>1
  <2> QED BY <2>1, <2>2, <1>1, <1>2, <1>3
<1>6. 1 \in DOMAIN s /\ Head(s) = s[1] /\ Head(s) \in T BY <1>2
<1> QED BY <1>3, <1>4, <1>5, <1>6 DEF Popped, t, u

(* Of any sequence: it and one more element.                               *)
LEMMA BtAppendOf ==
    ASSUME NEW T, NEW s \in Seq(T), NEW e \in T
    PROVE  Append(s, e) \in Seq(T) /\ Appended(s, Append(s, e), e)
<1>1. /\ Append(s, e) \in Seq(T) /\ Len(Append(s, e)) = Len(s) + 1
      /\ Append(s, e)[Len(s) + 1] = e /\ \A i \in 1 .. Len(s) : Append(s, e)[i] = s[i]
  BY AppendProperties
<1>2. Len(s) \in Nat /\ DOMAIN s = 1 .. Len(s) OBVIOUS
<1>3. DOMAIN Append(s, e) = 1 .. Len(s) + 1 BY <1>1
<1>4. 1 .. Len(s) + 1 = (1 .. Len(s)) \cup {Len(s) + 1} BY <1>2
<1> QED BY <1>1, <1>2, <1>3, <1>4 DEF Appended

(* The kinds of the packets of a handle, when one is taken or added.       *)
LEMMA BtKindsTail ==
    ASSUME NEW s \in Seq(BtPackets), s # <<>>
    PROVE  /\ Tail(s) \in Seq(BtPackets) /\ Head(s) \in BtPackets
           /\ \A i \in DOMAIN Tail(s) : \E j \in DOMAIN s : Tail(s)[i] = s[j]
           /\ \A h : h # Head(s).handle => Kinds(Tail(s), h) = Kinds(s, h)
           /\ \A x : x \in Kinds(s, Head(s).handle) <=>
                       x \in Kinds(Tail(s), Head(s).handle) \/ x = <<Head(s).k, Head(s).chan>>
<1> DEFINE u == Tail(s)
<1>1. /\ u \in Seq(BtPackets) /\ Len(u) = Len(s) - 1 /\ \A i \in 1 .. Len(s) - 1 : u[i] = s[i + 1]
      /\ Len(s) \in Nat \ {0} /\ DOMAIN s = 1 .. Len(s) /\ DOMAIN u = 1 .. Len(u)
      /\ Head(s) = s[1] /\ s[1] \in BtPackets
  OBVIOUS
<1> HIDE DEF u
<1>2. \A i \in DOMAIN u : i + 1 \in DOMAIN s /\ i + 1 # 1 /\ u[i] = s[i + 1] BY <1>1
<1>3. \A i \in DOMAIN s : i = 1 \/ (i - 1 \in DOMAIN u /\ u[i - 1] = s[i])
  <2> SUFFICES ASSUME NEW i \in DOMAIN s, i # 1 PROVE i - 1 \in DOMAIN u /\ u[i - 1] = s[i]
    OBVIOUS
  <2>1. i \in Nat /\ i - 1 \in 1 .. Len(s) - 1 /\ (i - 1) + 1 = i BY <1>1
  <2> QED BY <2>1, <1>1
<1>4. 1 \in DOMAIN s BY <1>1
<1>5. \A h, x : x \in Kinds(u, h) => x \in Kinds(s, h) BY <1>2, Zenon DEF Kinds
<1>6. \A h, x : x \in Kinds(s, h) => x \in Kinds(u, h) \/ (h = s[1].handle /\ x = <<s[1].k, s[1].chan>>)
  BY <1>3, Zenon DEF Kinds
<1>7. <<s[1].k, s[1].chan>> \in Kinds(s, s[1].handle) BY <1>4 DEF Kinds
<1>8. ASSUME NEW h, h # s[1].handle PROVE Kinds(u, h) = Kinds(s, h)
  <2>1. \A x : x \in Kinds(u, h) <=> x \in Kinds(s, h) BY <1>5, <1>6, <1>8, Zenon
  <2> QED BY <2>1, Zenon
<1>9. \A x : x \in Kinds(s, s[1].handle) <=> x \in Kinds(u, s[1].handle) \/ x = <<s[1].k, s[1].chan>>
  BY <1>5, <1>6, <1>7, Zenon
<1>10. \A i \in DOMAIN u : \E j \in DOMAIN s : u[i] = s[j] BY <1>2
<1> QED BY <1>1, <1>8, <1>9, <1>10 DEF u

(* The kinds of the packets of a handle, when one is added.                *)
LEMMA BtKindsAppend ==
    ASSUME NEW s \in Seq(BtPackets), NEW m \in BtPackets
    PROVE  /\ Append(s, m) \in Seq(BtPackets)
           /\ \A i \in DOMAIN Append(s, m) : Append(s, m)[i] = m \/ \E j \in DOMAIN s : Append(s, m)[i] = s[j]
           /\ \A h : h # m.handle => Kinds(Append(s, m), h) = Kinds(s, h)
           /\ \A x : x \in Kinds(Append(s, m), m.handle) <=>
                       x \in Kinds(s, m.handle) \/ x = <<m.k, m.chan>>
<1> DEFINE t == Append(s, m)
           n == Len(s) + 1
<1>1. t \in Seq(BtPackets) /\ Appended(s, t, m) BY BtAppendOf
<1> HIDE DEF t
<1>2. DOMAIN t = DOMAIN s \cup {n} /\ t[n] = m /\ \A i \in DOMAIN s : t[i] = s[i]
  BY <1>1 DEF Appended
<1> HIDE DEF n
<1>3. \A h, x : x \in Kinds(s, h) => x \in Kinds(t, h) BY <1>2, Zenon DEF Kinds
<1>4. \A h, x : x \in Kinds(t, h) => x \in Kinds(s, h) \/ (h = m.handle /\ x = <<m.k, m.chan>>)
  BY <1>2, Zenon DEF Kinds
<1>5. <<m.k, m.chan>> \in Kinds(t, m.handle) BY <1>2, Zenon DEF Kinds
<1>6. ASSUME NEW h, h # m.handle PROVE Kinds(t, h) = Kinds(s, h)
  <2>1. \A x : x \in Kinds(t, h) <=> x \in Kinds(s, h) BY <1>3, <1>4, <1>6, Zenon
  <2> QED BY <2>1, Zenon
<1>7. \A x : x \in Kinds(t, m.handle) <=> x \in Kinds(s, m.handle) \/ x = <<m.k, m.chan>>
  BY <1>3, <1>4, <1>5, Zenon
<1>8. \A i \in DOMAIN t : t[i] = m \/ \E j \in DOMAIN s : t[i] = s[j] BY <1>2, Zenon
<1> QED BY <1>1, <1>6, <1>7, <1>8 DEF t

----------------------------------------------------------------------------
(* What the packets the driver sends do.                                   *)

CtlTypes == [at : {"off", "asking", "linked", "leaving"}, chan : [Channels -> Family]]

(* The controllers and the packets to come, in the middle of an answer.    *)
AirOk(r) ==
    /\ r \in [ctls : [BtCtls -> CtlTypes], packets : Seq(BtPackets)]
    /\ \A c \in BtCtls : r.ctls[c].at = ctls[c].at
    /\ \A i \in DOMAIN r.packets : r.packets[i].k = "connreq" => r.packets[i].chan = "control"

Sent(m, g) == /\ m \in [handle : {g}, k : {"connreq", "connrsp", "cfgreq", "discreq"},
                        chan : Channels, dcid : {40, 70}]

(* A packet of handle g touches no other link.                             *)
SameElsewhere(g, r, t) ==
    /\ \A c \in BtCtls : g \notin BtHandles \/ c # links[g] => t.ctls[c] = r.ctls[c]
    /\ \A h : h # g => Kinds(t.packets, h) = Kinds(r.packets, h)
    /\ g \notin BtHandles \/ links[g] = NoCtl => t = r

(* What a packet does to its own link: chan are its channels, K its        *)
(* packets to come.                                                        *)
HearsOne(m, chan, K, chan2, K2) ==
    LET open == chan[m.chan]
        New(x) == \A y : y \in K2 <=> y \in K \/ y = <<x, m.chan>>
    IN /\ m.k = "connreq" => chan2 = [chan EXCEPT ![m.chan] = m.dcid] /\ New("connrsp")
       /\ m.k = "connrsp" => chan2 = [chan EXCEPT ![m.chan] = m.dcid] /\ K2 = K
       /\ m.k = "cfgreq" => /\ chan2 = chan
                            /\ open # 0 => New("cfgrsp")
                            /\ open = 0 => K2 = K
       /\ m.k = "discreq" => /\ open # 0 => chan2 = [chan EXCEPT ![m.chan] = 0] /\ New("discrsp")
                             /\ open = 0 => chan2 = chan /\ K2 = K

(* What a controller does with one packet of the driver.                   *)
LEMMA BtHearOne ==
    ASSUME BtTypes, NEW g \in BtHandles \cup {NoHandle}, NEW r, AirOk(r), NEW m, Sent(m, g)
    PROVE  /\ AirOk(HearOne(r, m)) /\ SameElsewhere(g, r, HearOne(r, m))
           /\ (g \in BtHandles /\ links[g] # NoCtl /\ ctls[links[g]].at # "leaving") =>
                HearsOne(m, r.ctls[links[g]].chan, Kinds(r.packets, g),
                         HearOne(r, m).ctls[links[g]].chan, Kinds(HearOne(r, m).packets, g))
<1> DEFINE t == HearOne(r, m)
           c == links[g]
           open == r.ctls[c].chan[m.chan]
           Chan(d) == [r.ctls EXCEPT ![c].chan[m.chan] = d]
           Ans(k, d) == Append(r.packets, Packet(g, k, m.chan, d))
<1>1. /\ m.handle = g /\ m.chan \in Channels /\ m.dcid \in {40, 70}
      /\ m.k \in {"connreq", "connrsp", "cfgreq", "discreq"}
  BY DEF Sent
<1>2. /\ r.ctls \in [BtCtls -> CtlTypes] /\ r.packets \in Seq(BtPackets)
      /\ r = [ctls |-> r.ctls, packets |-> r.packets]
      /\ \A d \in BtCtls : r.ctls[d].at = ctls[d].at
      /\ \A i \in DOMAIN r.packets : r.packets[i].k = "connreq" => r.packets[i].chan = "control"
  BY DEF AirOk
<1>3. CASE g \notin BtHandles \/ c = NoCtl \/ ctls[c].at = "leaving"
  <2>1. t = r BY <1>1, <1>3 DEF HearOne
  <2>2. SameElsewhere(g, r, t) BY <2>1 DEF SameElsewhere
  <2> QED BY <2>1, <2>2, <1>3
<1>4. CASE ~(g \notin BtHandles \/ c = NoCtl \/ ctls[c].at = "leaving")
  <2>0. g \in BtHandles /\ c \in BtCtls /\ c # NoCtl BY <1>4 DEF BtTypes, BtTypeOK
  <2>1. t = CASE m.k = "connreq" -> [ctls |-> Chan(m.dcid), packets |-> Ans("connrsp", m.dcid)]
              [] m.k = "connrsp" -> [r EXCEPT !.ctls = Chan(m.dcid)]
              [] m.k = "cfgreq" /\ open # 0 -> [r EXCEPT !.packets = Ans("cfgrsp", open)]
              [] m.k = "discreq" /\ open # 0 -> [ctls |-> Chan(0), packets |-> Ans("discrsp", open)]
              [] OTHER -> r
    BY <1>1, <1>4 DEF HearOne
  <2>2. ASSUME NEW d \in Family
        PROVE  /\ Chan(d) \in [BtCtls -> CtlTypes]
               /\ \A e \in BtCtls : Chan(d)[e].at = r.ctls[e].at
               /\ \A e \in BtCtls : e # c => Chan(d)[e] = r.ctls[e]
               /\ Chan(d)[c].chan = [r.ctls[c].chan EXCEPT ![m.chan] = d]
    <3> DEFINE u == [r.ctls[c].chan EXCEPT ![m.chan] = d]
               v == [r.ctls[c] EXCEPT !.chan = u]
    <3>1. r.ctls[c] \in CtlTypes BY <1>2, <2>0
    <3>2. u \in [Channels -> Family] BY <3>1, <1>1 DEF CtlTypes
    <3>3. Chan(d) = [r.ctls EXCEPT ![c] = v] BY <1>2, <2>0, <3>1 DEF CtlTypes
    <3> HIDE DEF u, Chan
    <3>4. v \in CtlTypes /\ v.at = r.ctls[c].at /\ v.chan = u BY <3>1, <3>2 DEF CtlTypes
    <3> HIDE DEF v
    <3> QED BY <1>2, <2>0, <3>3, <3>4 DEF u
  <2>3. open \in Family BY <1>1, <1>2, <2>0 DEF CtlTypes
  <2>4. ASSUME NEW k \in {"connrsp", "cfgrsp", "discrsp"}, NEW d \in Family
        PROVE  /\ Ans(k, d) \in Seq(BtPackets)
               /\ \A i \in DOMAIN Ans(k, d) : Ans(k, d)[i].k = "connreq" => Ans(k, d)[i].chan = "control"
               /\ \A h : h # g => Kinds(Ans(k, d), h) = Kinds(r.packets, h)
               /\ \A x : x \in Kinds(Ans(k, d), g) <=> x \in Kinds(r.packets, g) \/ x = <<k, m.chan>>
    <3> DEFINE a == Packet(g, k, m.chan, d)
    <3>1. a \in BtPackets /\ a.handle = g /\ a.k = k /\ a.chan = m.chan
      BY <1>1, <2>0 DEF Packet, BtPackets, BtPacketTypes
    <3> HIDE DEF a
    <3>2. a.k # "connreq" BY <3>1
    <3>3. /\ Append(r.packets, a) \in Seq(BtPackets)
          /\ \A i \in DOMAIN Append(r.packets, a) :
               Append(r.packets, a)[i] = a \/ \E j \in DOMAIN r.packets : Append(r.packets, a)[i] = r.packets[j]
          /\ \A h : h # a.handle => Kinds(Append(r.packets, a), h) = Kinds(r.packets, h)
          /\ \A x : x \in Kinds(Append(r.packets, a), a.handle) <=>
                      x \in Kinds(r.packets, a.handle) \/ x = <<a.k, a.chan>>
      BY <1>2, <3>1, BtKindsAppend
    <3>4. \A i \in DOMAIN Append(r.packets, a) :
            Append(r.packets, a)[i].k = "connreq" => Append(r.packets, a)[i].chan = "control"
      BY <3>2, <3>3, <1>2
    <3> QED BY <3>1, <3>3, <3>4 DEF a
  <2>5. 0 \in Family /\ m.dcid \in Family BY <1>1 DEF Family
  <2>6. CASE m.k = "connreq"
    <3>1. t = [ctls |-> Chan(m.dcid), packets |-> Ans("connrsp", m.dcid)] BY <2>1, <2>6
    <3>2. t.ctls = Chan(m.dcid) /\ t.packets = Ans("connrsp", m.dcid) BY <3>1
    <3> HIDE DEF t, Chan, Ans
    <3>a. t.ctls \in [BtCtls -> CtlTypes] /\ t.packets \in Seq(BtPackets) BY <3>2, <2>2, <2>4, <2>5
    <3>b. t = [ctls |-> t.ctls, packets |-> t.packets] BY <3>1, <3>2
    <3>c. \A i \in DOMAIN t.packets : t.packets[i].k = "connreq" => t.packets[i].chan = "control"
      BY <3>2, <2>4, <2>5
    <3>d. ASSUME NEW d \in BtCtls PROVE t.ctls[d].at = ctls[d].at /\ (d # c => t.ctls[d] = r.ctls[d])
      BY <3>2, <2>2, <2>5, <1>2
    <3>3. AirOk(t) BY <3>a, <3>b, <3>c, <3>d DEF AirOk
    <3>e. \A h : h # g => Kinds(t.packets, h) = Kinds(r.packets, h) BY <3>2, <2>4, <2>5
    <3>4. SameElsewhere(g, r, t) BY <3>e, <3>d, <2>0 DEF SameElsewhere
    <3>5. HearsOne(m, r.ctls[c].chan, Kinds(r.packets, g), t.ctls[c].chan, Kinds(t.packets, g))
      BY <3>2, <2>2, <2>4, <2>5, <2>6 DEF HearsOne
    <3> QED BY <3>3, <3>4, <3>5 DEF t
  <2>7. CASE m.k = "connrsp"
    <3>1. t = [r EXCEPT !.ctls = Chan(m.dcid)] BY <2>1, <2>7
    <3>2. t = [ctls |-> Chan(m.dcid), packets |-> r.packets] BY <3>1, <1>2
    <3> HIDE DEF t, Chan, Ans
    <3>3. AirOk(t) BY <3>2, <2>2, <2>5, <1>2 DEF AirOk
    <3>4. SameElsewhere(g, r, t) BY <3>2, <2>0, <2>2, <2>5 DEF SameElsewhere
    <3>5. HearsOne(m, r.ctls[c].chan, Kinds(r.packets, g), t.ctls[c].chan, Kinds(t.packets, g))
      BY <3>2, <2>2, <2>5, <2>7 DEF HearsOne
    <3> QED BY <3>3, <3>4, <3>5 DEF t
  <2>8. CASE m.k = "cfgreq" /\ open # 0
    <3>1. t = [r EXCEPT !.packets = Ans("cfgrsp", open)] BY <2>1, <2>8
    <3>2. t = [ctls |-> r.ctls, packets |-> Ans("cfgrsp", open)] BY <3>1, <1>2
    <3> HIDE DEF t, Chan, Ans
    <3>3. AirOk(t) BY <3>2, <2>3, <2>4, <1>2 DEF AirOk
    <3>4. SameElsewhere(g, r, t) BY <3>2, <2>0, <2>3, <2>4 DEF SameElsewhere
    <3>5. HearsOne(m, r.ctls[c].chan, Kinds(r.packets, g), t.ctls[c].chan, Kinds(t.packets, g))
      BY <3>2, <2>3, <2>4, <2>8 DEF HearsOne
    <3> QED BY <3>3, <3>4, <3>5 DEF t
  <2>9. CASE m.k = "discreq" /\ open # 0
    <3>1. t = [ctls |-> Chan(0), packets |-> Ans("discrsp", open)] BY <2>1, <2>9
    <3>2. t.ctls = Chan(0) /\ t.packets = Ans("discrsp", open) BY <3>1
    <3> HIDE DEF t, Chan, Ans
    <3>a. t.ctls \in [BtCtls -> CtlTypes] /\ t.packets \in Seq(BtPackets)
      BY <3>2, <2>2, <2>3, <2>4, <2>5
    <3>b. t = [ctls |-> t.ctls, packets |-> t.packets] BY <3>1, <3>2
    <3>c. \A i \in DOMAIN t.packets : t.packets[i].k = "connreq" => t.packets[i].chan = "control"
      BY <3>2, <2>3, <2>4
    <3>d. ASSUME NEW d \in BtCtls PROVE t.ctls[d].at = ctls[d].at /\ (d # c => t.ctls[d] = r.ctls[d])
      <4>1. /\ \A e \in BtCtls : Chan(0)[e].at = r.ctls[e].at
            /\ \A e \in BtCtls : e # c => Chan(0)[e] = r.ctls[e]
        BY <2>2, <2>5
      <4> QED BY <4>1, <3>2, <1>2
    <3>3. AirOk(t) BY <3>a, <3>b, <3>c, <3>d DEF AirOk
    <3>e. \A h : h # g => Kinds(t.packets, h) = Kinds(r.packets, h) BY <3>2, <2>3, <2>4
    <3>4. SameElsewhere(g, r, t) BY <3>e, <3>d, <2>0 DEF SameElsewhere
    <3>5. HearsOne(m, r.ctls[c].chan, Kinds(r.packets, g), t.ctls[c].chan, Kinds(t.packets, g))
      BY <3>2, <2>2, <2>3, <2>4, <2>5, <2>9 DEF HearsOne
    <3> QED BY <3>3, <3>4, <3>5 DEF t
  <2>10. CASE m.k \in {"cfgreq", "discreq"} /\ open = 0
    <3>1. t = r BY <2>1, <2>10
    <3> HIDE DEF t
    <3>2. SameElsewhere(g, r, t) BY <3>1 DEF SameElsewhere
    <3>3. HearsOne(m, r.ctls[c].chan, Kinds(r.packets, g), t.ctls[c].chan, Kinds(t.packets, g))
      BY <3>1, <2>10 DEF HearsOne
    <3> QED BY <3>1, <3>2, <3>3 DEF t
  <2> QED BY <1>1, <2>6, <2>7, <2>8, <2>9, <2>10
<1> QED BY <1>3, <1>4

(* The answers of at most three packets, one after the other.              *)
LEMMA BtArrives ==
    ASSUME NEW in, NEW out, Len(out) \in 0 .. 3, Arrives(in, out)
    PROVE  LET r0 == [ctls |-> ctls, packets |-> in]
               r1 == HearOne(r0, out[1])
               r2 == HearOne(r1, out[2])
               r3 == HearOne(r2, out[3])
           IN /\ Len(out) = 0 => ctls' = r0.ctls /\ packets' = r0.packets
              /\ Len(out) = 1 => ctls' = r1.ctls /\ packets' = r1.packets
              /\ Len(out) = 2 => ctls' = r2.ctls /\ packets' = r2.packets
              /\ Len(out) = 3 => ctls' = r3.ctls /\ packets' = r3.packets
<1> DEFINE r0 == [ctls |-> ctls, packets |-> in]
           r1 == HearOne(r0, out[1])
           r2 == HearOne(r1, out[2])
           r3 == HearOne(r2, out[3])
           n == Len(out)
           Is(f) == f = [i \in 0 .. n |-> IF i = 0 THEN r0 ELSE HearOne(f[i - 1], out[i])]
           after == CHOOSE f : Is(f)
           w == [i \in 0 .. n |-> IF i = 0 THEN r0 ELSE IF i = 1 THEN r1 ELSE IF i = 2 THEN r2 ELSE r3]
<1>1. ctls' = after[n].ctls /\ packets' = after[n].packets BY DEF Arrives
<1>2. Is(w)
  <2>1. \A i \in 0 .. n : w[i] = IF i = 0 THEN r0 ELSE HearOne(w[i - 1], out[i])
    <3> SUFFICES ASSUME NEW i \in 0 .. n
                 PROVE  w[i] = IF i = 0 THEN r0 ELSE HearOne(w[i - 1], out[i])
      OBVIOUS
    <3>0. n \in 0 .. 3 OBVIOUS
    <3> HIDE DEF n, r0
    <3>1. i \in {0, 1, 2, 3} /\ (i # 0 => i - 1 \in 0 .. n) BY <3>0
    <3>2. CASE i = 0 BY <3>2
    <3>3. CASE i = 1 BY <3>1, <3>3
    <3>4. CASE i = 2 BY <3>1, <3>4
    <3>5. CASE i = 3 BY <3>1, <3>5
    <3> QED BY <3>1, <3>2, <3>3, <3>4, <3>5
  <2> HIDE DEF r1, r2, r3, n, r0
  <2>2. w = [i \in 0 .. n |-> w[i]] OBVIOUS
  <2> HIDE DEF w
  <2> QED BY <2>1, <2>2
<1>3. Is(after)
  <2> HIDE DEF Is, w
  <2> QED BY <1>2
<1> HIDE DEF after
<1>4. \A i \in 0 .. n : after[i] = IF i = 0 THEN r0 ELSE HearOne(after[i - 1], out[i])
  <2> HIDE DEF r0, n
  <2> QED BY <1>3
<1> HIDE DEF Is
<1>5. CASE n = 0 BY <1>1, <1>4, <1>5
<1>6. CASE n = 1
  <2>1. after[0] = r0 /\ after[1] = HearOne(after[0], out[1]) BY <1>4, <1>6
  <2> QED BY <2>1, <1>1, <1>6
<1>7. CASE n = 2
  <2>1. after[0] = r0 /\ after[1] = HearOne(after[0], out[1]) /\ after[2] = HearOne(after[1], out[2])
    BY <1>4, <1>7
  <2> QED BY <2>1, <1>1, <1>7
<1>8. CASE n = 3
  <2>1. /\ after[0] = r0 /\ after[1] = HearOne(after[0], out[1])
        /\ after[2] = HearOne(after[1], out[2]) /\ after[3] = HearOne(after[2], out[3])
    BY <1>4, <1>8
  <2> QED BY <2>1, <1>1, <1>8
<1> QED BY <1>5, <1>6, <1>7, <1>8

(* What an answer leaves alone: everything but its own link.               *)
LEMMA BtArrivesFrame ==
    ASSUME BtTypes, NEW g \in BtHandles \cup {NoHandle}, NEW in \in Seq(BtPackets),
           \A i \in DOMAIN in : in[i].k = "connreq" => in[i].chan = "control",
           NEW out, Len(out) \in 0 .. 3, \A i \in 1 .. Len(out) : Sent(out[i], g),
           Arrives(in, out)
    PROVE  /\ AirOk([ctls |-> ctls', packets |-> packets'])
           /\ SameElsewhere(g, [ctls |-> ctls, packets |-> in], [ctls |-> ctls', packets |-> packets'])
<1> DEFINE r0 == [ctls |-> ctls, packets |-> in]
           r1 == HearOne(r0, out[1])
           r2 == HearOne(r1, out[2])
           r3 == HearOne(r2, out[3])
           t == [ctls |-> ctls', packets |-> packets']
<1>1. /\ Len(out) = 0 => ctls' = r0.ctls /\ packets' = r0.packets
      /\ Len(out) = 1 => ctls' = r1.ctls /\ packets' = r1.packets
      /\ Len(out) = 2 => ctls' = r2.ctls /\ packets' = r2.packets
      /\ Len(out) = 3 => ctls' = r3.ctls /\ packets' = r3.packets
  BY BtArrives
<1>2. AirOk(r0) /\ SameElsewhere(g, r0, r0) BY DEF AirOk, SameElsewhere, BtTypes, BtTypeOK, CtlTypes
<1>4. \A r : AirOk(r) => r = [ctls |-> r.ctls, packets |-> r.packets] BY DEF AirOk
<1>5. \A r, s, u : SameElsewhere(g, r, s) /\ SameElsewhere(g, s, u) => SameElsewhere(g, r, u)
  BY DEF SameElsewhere
<1> HIDE DEF r0, r1, r2, r3
<1>6. Len(out) >= 1 => AirOk(r1) /\ SameElsewhere(g, r0, r1)
  <2> SUFFICES ASSUME Len(out) >= 1 PROVE AirOk(r1) /\ SameElsewhere(g, r0, r1) OBVIOUS
  <2>1. Sent(out[1], g) OBVIOUS
  <2> QED BY <2>1, <1>2, BtHearOne DEF r1
<1>7. Len(out) >= 2 => AirOk(r2) /\ SameElsewhere(g, r0, r2)
  <2> SUFFICES ASSUME Len(out) >= 2 PROVE AirOk(r2) /\ SameElsewhere(g, r0, r2) OBVIOUS
  <2>1. Sent(out[2], g) OBVIOUS
  <2>2. AirOk(r1) BY <1>6
  <2>3. AirOk(r2) /\ SameElsewhere(g, r1, r2) BY <2>1, <2>2, BtHearOne DEF r2
  <2> QED BY <2>3, <1>5, <1>6
<1>8. Len(out) >= 3 => AirOk(r3) /\ SameElsewhere(g, r0, r3)
  <2> SUFFICES ASSUME Len(out) >= 3 PROVE AirOk(r3) /\ SameElsewhere(g, r0, r3) OBVIOUS
  <2>1. Sent(out[3], g) OBVIOUS
  <2>2. AirOk(r2) BY <1>7
  <2>3. AirOk(r3) /\ SameElsewhere(g, r2, r3) BY <2>1, <2>2, BtHearOne DEF r3
  <2> QED BY <2>3, <1>5, <1>7
<1>9. AirOk(t) /\ SameElsewhere(g, r0, t)
  <2>1. CASE Len(out) = 0
    <3>1. t = r0 BY <2>1, <1>1, <1>2, <1>4
    <3> HIDE DEF t
    <3> QED BY <3>1, <1>2
  <2>2. CASE Len(out) = 1
    <3>1. t = r1 BY <2>2, <1>1, <1>6, <1>4
    <3> HIDE DEF t
    <3> QED BY <3>1, <2>2, <1>6
  <2>3. CASE Len(out) = 2
    <3>1. t = r2 BY <2>3, <1>1, <1>7, <1>4
    <3> HIDE DEF t
    <3> QED BY <3>1, <2>3, <1>7
  <2>4. CASE Len(out) = 3
    <3>1. t = r3 BY <2>4, <1>1, <1>8, <1>4
    <3> HIDE DEF t
    <3> QED BY <3>1, <2>4, <1>8
  <2> QED BY <2>1, <2>2, <2>3, <2>4
<1> QED BY <1>9 DEF r0, t

----------------------------------------------------------------------------
(* The events.                                                             *)

(* What the order of the events says stays true of the rest of them.       *)
LEMMA BtPopEvents ==
    ASSUME NEW s, NEW t, NEW L, DOMAIN s \subseteq Nat, DOMAIN t \subseteq Nat,
           Popped(s, t), BtEventInv(s, L)
    PROVE  BtEventInv(t, L)
<1>0. /\ \A i \in DOMAIN s : i \in Nat
      /\ \A i \in DOMAIN t : i \in Nat
  OBVIOUS
<1>1. \A i \in DOMAIN t : t[i].k \in {"complete", "disc", "request"} =>
                             i + 1 \in DOMAIN s /\ t[i] = s[i + 1]
  BY DEF Popped, Quiet
<1>2. \A i \in DOMAIN s : i = 1 \/ (i - 1 \in DOMAIN t /\ t[i - 1] = s[i]) BY DEF Popped
<1>3. ASSUME NEW i \in DOMAIN t, NEW j \in DOMAIN t, i < j, t[i].k = "complete", t[j].k = "complete",
             t[i].handle = t[j].handle \/ t[i].ctl = t[j].ctl
      PROVE  \E n \in DOMAIN t : i < n /\ n < j /\ t[n] = Disc(t[i].handle)
  <2>1. /\ i + 1 \in DOMAIN s /\ j + 1 \in DOMAIN s /\ t[i] = s[i + 1] /\ t[j] = s[j + 1]
        /\ i + 1 < j + 1
    BY <1>0, <1>1, <1>3
  <2>2. PICK n \in DOMAIN s : i + 1 < n /\ n < j + 1 /\ s[n] = Disc(s[i + 1].handle)
    BY <2>1, <1>3 DEF BtEventInv
  <2>3. n # 1 /\ i < n - 1 /\ n - 1 < j BY <2>2, <1>0
  <2>4. n - 1 \in DOMAIN t /\ t[n - 1] = s[n] BY <2>3, <1>2
  <2> QED BY <2>1, <2>2, <2>3, <2>4
<1>4. ASSUME NEW i \in DOMAIN t, t[i].k = "complete", L[t[i].handle] # t[i].ctl
      PROVE  \E n \in DOMAIN t : i < n /\ t[n] = Disc(t[i].handle)
  <2>1. i + 1 \in DOMAIN s /\ t[i] = s[i + 1] BY <1>0, <1>1, <1>4
  <2>2. PICK n \in DOMAIN s : i + 1 < n /\ s[n] = Disc(s[i + 1].handle)
    BY <2>1, <1>4 DEF BtEventInv
  <2>3. n # 1 /\ i < n - 1 BY <2>2, <1>0
  <2>4. n - 1 \in DOMAIN t /\ t[n - 1] = s[n] BY <2>3, <1>2
  <2> QED BY <2>1, <2>2, <2>3, <2>4
<1>5. ASSUME NEW i \in DOMAIN t, NEW j \in DOMAIN t, t[i].k = "request", t[j].k = "complete", i < j
      PROVE  t[i].ctl # t[j].ctl
  <2>1. /\ i + 1 \in DOMAIN s /\ j + 1 \in DOMAIN s /\ t[i] = s[i + 1] /\ t[j] = s[j + 1]
        /\ i + 1 < j + 1
    BY <1>0, <1>1, <1>5
  <2> QED BY <2>1, <1>5 DEF BtEventInv
<1> QED BY <1>3, <1>4, <1>5 DEF BtEventInv

(* What is on its way of a handle after an event was taken.                *)
LEMMA BtPopAnnounced ==
    ASSUME NEW s, NEW t, DOMAIN s \subseteq Nat, DOMAIN t \subseteq Nat, Popped(s, t)
    PROVE  /\ \A i \in DOMAIN t : t[i].k \in {"complete", "disc", "request"} =>
                 i + 1 \in DOMAIN s /\ t[i] = s[i + 1]
           /\ \A h : AnnIn(t, h) => AnnIn(s, h)
           /\ \A h : s[1] # Disc(h) /\ AnnIn(s, h) => AnnIn(t, h)
           /\ \A h : FreshIn(t, h) => FreshIn(s, h)
<1>1. \A i \in DOMAIN t : t[i].k \in {"complete", "disc", "request"} =>
                             i + 1 \in DOMAIN s /\ t[i] = s[i + 1]
  BY DEF Popped, Quiet
<1>2. \A h : Disc(h).k = "disc" BY DEF Disc, Event
<1>3. \A i \in DOMAIN s : i = 1 \/ (i - 1 \in DOMAIN t /\ t[i - 1] = s[i]) BY DEF Popped
<1>4. ASSUME NEW h, FreshIn(t, h) PROVE FreshIn(s, h)
  <2>1. PICK i \in DOMAIN t : /\ t[i].k = "complete" /\ t[i].handle = h
                             /\ \A n \in DOMAIN t : i < n => t[n] # Disc(h)
    BY <1>4 DEF FreshIn
  <2>2. i + 1 \in DOMAIN s /\ t[i] = s[i + 1] BY <2>1, <1>1
  <2>3. ASSUME NEW n \in DOMAIN s, i + 1 < n PROVE s[n] # Disc(h)
    <3>1. i \in Nat /\ n \in Nat OBVIOUS
    <3>2. n # 1 /\ i < n - 1 BY <3>1, <2>3
    <3> QED BY <3>2, <2>1, <1>3
  <2> QED BY <2>1, <2>2, <2>3 DEF FreshIn
<1> QED BY <1>1, <1>2, <1>3, <1>4 DEF AnnIn

(* The same when a link is made, ends or is asked for.                     *)
LEMMA BtAppendEvents ==
    ASSUME NEW s \in Seq(BtEventTypes), NEW t, NEW L \in [BtHandles -> BtCtls \cup {NoCtl}],
           NEW L2 \in [BtHandles -> BtCtls \cup {NoCtl}],
           NEW e, Appended(s, t, e), BtEventInv(s, L),
           \/ /\ e.k = "complete" /\ e.handle \in BtHandles /\ L2 = [L EXCEPT ![e.handle] = e.ctl]
              /\ e.ctl \in BtCtls
              /\ L[e.handle] = NoCtl /\ \A h \in BtHandles : L[h] # e.ctl
              /\ \A i \in DOMAIN s : s[i].k = "request" => s[i].ctl # e.ctl
           \/ /\ \E h \in BtHandles : e = Disc(h) /\ L2 = [L EXCEPT ![h] = NoCtl]
           \/ e.k = "request" /\ L2 = L
    PROVE  BtEventInv(t, L2)
<1> DEFINE m == Len(s) + 1
<1>0. DOMAIN s \subseteq Nat /\ m \in Nat OBVIOUS
<1>1. DOMAIN t = DOMAIN s \cup {m} /\ t[m] = e /\ \A i \in DOMAIN s : t[i] = s[i] /\ i < m
  BY DEF Appended
<1> HIDE DEF m
<1>a. \A i \in DOMAIN t : i \in Nat /\ i <= m /\ (i # m => i \in DOMAIN s /\ t[i] = s[i])
  BY <1>0, <1>1
<1>2. \A i \in DOMAIN s : s[i].k = "complete" => s[i].handle \in BtHandles /\ s[i].ctl \in BtCtls
  <2> SUFFICES ASSUME NEW i \in DOMAIN s, s[i].k = "complete"
               PROVE s[i].handle \in BtHandles /\ s[i].ctl \in BtCtls
    OBVIOUS
  <2>1. s[i] \in BtEventTypes OBVIOUS
  <2> QED BY <2>1 DEF BtEventTypes
<1>b. NoCtl \notin BtCtls BY BtAssumption
<1>c. \A h : Disc(h).k = "disc" BY DEF Disc, Event
<1>3. ASSUME NEW i \in DOMAIN t, NEW j \in DOMAIN t, i < j, t[i].k = "complete", t[j].k = "complete",
             t[i].handle = t[j].handle \/ t[i].ctl = t[j].ctl
      PROVE  \E n \in DOMAIN t : i < n /\ n < j /\ t[n] = Disc(t[i].handle)
  <2>1. i \in DOMAIN s /\ t[i] = s[i] BY <1>3, <1>a, <1>0
  <2>2. CASE j # m
    <3>1. j \in DOMAIN s /\ t[j] = s[j] BY <2>2, <1>a
    <3>2. PICK n \in DOMAIN s : i < n /\ n < j /\ s[n] = Disc(s[i].handle)
      BY <3>1, <2>1, <1>3 DEF BtEventInv
    <3> QED BY <3>2, <2>1, <1>1
  <2>3. CASE j = m
    <3>1. e.k = "complete" BY <2>3, <1>1, <1>3
    <3>2. /\ L[e.handle] = NoCtl /\ \A h \in BtHandles : L[h] # e.ctl
      BY <3>1, <1>c
    <3>3. L[s[i].handle] # s[i].ctl BY <3>2, <2>1, <2>3, <1>1, <1>2, <1>3, <1>b
    <3>4. PICK n \in DOMAIN s : i < n /\ s[n] = Disc(s[i].handle)
      BY <3>3, <2>1, <1>3 DEF BtEventInv
    <3> QED BY <3>4, <2>1, <2>3, <1>1
  <2> QED BY <2>2, <2>3
<1>4. ASSUME NEW i \in DOMAIN t, t[i].k = "complete", L2[t[i].handle] # t[i].ctl
      PROVE  \E n \in DOMAIN t : i < n /\ t[n] = Disc(t[i].handle)
  <2>1. CASE i = m
    <3>1. e.k = "complete" /\ t[i] = e BY <2>1, <1>1, <1>4
    <3>2. L2 = [L EXCEPT ![e.handle] = e.ctl] /\ e.handle \in BtHandles BY <3>1, <1>c
    <3> QED BY <3>1, <3>2, <1>4
  <2>2. CASE i # m
    <3>1. i \in DOMAIN s /\ t[i] = s[i] /\ s[i].k = "complete" BY <2>2, <1>a, <1>4
    <3>2. s[i].handle \in BtHandles /\ s[i].ctl \in BtCtls BY <3>1, <1>2
    <3>3. CASE L[s[i].handle] # s[i].ctl
      <4>1. PICK n \in DOMAIN s : i < n /\ s[n] = Disc(s[i].handle)
        BY <3>1, <3>3 DEF BtEventInv
      <4> QED BY <4>1, <3>1, <1>1
    <3>4. CASE L[s[i].handle] = s[i].ctl
      <4>1. L2[s[i].handle] # L[s[i].handle] BY <3>1, <3>4, <1>4
      <4>2. CASE e.k = "complete"
        <5>1. L2 = [L EXCEPT ![e.handle] = e.ctl] /\ L[e.handle] = NoCtl BY <4>2, <1>c
        <5> QED BY <5>1, <4>1, <3>2, <3>4, <1>b
      <4>3. CASE \E h \in BtHandles : e = Disc(h) /\ L2 = [L EXCEPT ![h] = NoCtl]
        <5>1. PICK h \in BtHandles : e = Disc(h) /\ L2 = [L EXCEPT ![h] = NoCtl] BY <4>3
        <5>2. h = s[i].handle BY <5>1, <4>1, <3>2
        <5> QED BY <5>1, <5>2, <3>1, <1>1
      <4>4. CASE e.k = "request" /\ L2 = L BY <4>1, <4>4
      <4> QED BY <4>2, <4>3, <4>4
    <3> QED BY <3>3, <3>4
  <2> QED BY <2>1, <2>2
<1>5. ASSUME NEW i \in DOMAIN t, NEW j \in DOMAIN t, t[i].k = "request", t[j].k = "complete", i < j
      PROVE  t[i].ctl # t[j].ctl
  <2>1. i \in DOMAIN s /\ t[i] = s[i] BY <1>5, <1>a, <1>0
  <2>2. CASE j # m
    <3>1. j \in DOMAIN s /\ t[j] = s[j] BY <2>2, <1>a
    <3> QED BY <3>1, <2>1, <1>5 DEF BtEventInv
  <2>3. CASE j = m
    <3>1. e.k = "complete" /\ t[j] = e BY <2>3, <1>1, <1>5
    <3> QED BY <3>1, <2>1, <1>5, <1>c
  <2> QED BY <2>2, <2>3
<1> QED BY <1>3, <1>4, <1>5 DEF BtEventInv

----------------------------------------------------------------------------
(* What a step has to leave alone for the parts of the invariant to hold.  *)

(* The controllers: no link is made or ends, nobody asks for one.          *)
LEMMA BtCtlFrame ==
    ASSUME BtTypes, BtCtlInv, events' \in Seq(BtEventTypes), links' = links,
           \A c \in BtCtls : ctls'[c].at = ctls[c].at,
           \A c \in BtCtls : (\A h \in BtHandles : links[h] # c) => ctls'[c].chan = ctls[c].chan,
           \A c \in BtCtls : Accept(c) \in orders' => Accept(c) \in orders,
           events' = events \/ Popped(events, events')
    PROVE  BtCtlInv'
<1>0. DOMAIN events \subseteq Nat /\ DOMAIN events' \subseteq Nat BY DEF BtTypes
<1>1. \A i \in DOMAIN events' : events'[i].k = "request" =>
        \E j \in {i, i + 1} : j \in DOMAIN events /\ events'[i] = events[j]
                               /\ (events' = events => j = i) /\ (events' # events => j = i + 1)
  BY <1>0, BtPopAnnounced
<1>2. \A i \in DOMAIN events : events[i].k = "request" => events[i].ctl \in BtCtls
  <2> SUFFICES ASSUME NEW i \in DOMAIN events, events[i].k = "request" PROVE events[i].ctl \in BtCtls
    OBVIOUS
  <2>1. events[i] \in BtEventTypes BY DEF BtTypes
  <2> QED BY <2>1 DEF BtEventTypes
<1>a. \A h \in BtHandles : links[h] # NoCtl => links[h] \in BtCtls BY DEF BtTypes, BtTypeOK
<1>3. ASSUME NEW i \in DOMAIN events', events'[i].k = "request"
      PROVE  ctls'[events'[i].ctl].at = "asking" /\ Accept(events'[i].ctl) \notin orders'
  <2>1. PICK j \in DOMAIN events : events'[i] = events[j] BY <1>1, <1>3
  <2>2. events[j].ctl \in BtCtls BY <2>1, <1>2, <1>3
  <2> QED BY <2>1, <2>2, <1>3 DEF BtCtlInv
<1>4. ASSUME NEW i \in DOMAIN events', NEW j \in DOMAIN events', events'[i].k = "request",
             events'[j].k = "request", events'[i].ctl = events'[j].ctl
      PROVE  i = j
  <2>1. CASE events' = events BY <2>1, <1>4 DEF BtCtlInv
  <2>2. CASE events' # events
    <3>1. /\ i + 1 \in DOMAIN events /\ events'[i] = events[i + 1]
          /\ j + 1 \in DOMAIN events /\ events'[j] = events[j + 1]
      BY <2>2, <1>1, <1>4
    <3>2. i + 1 = j + 1 BY <3>1, <1>4 DEF BtCtlInv
    <3> QED BY <3>2, <1>0
  <2> QED BY <2>1, <2>2
<1>5. /\ \A h \in BtHandles : links'[h] # NoCtl => ctls'[links'[h]].at \in {"linked", "leaving"}
      /\ \A g, h \in BtHandles : links'[g] = links'[h] /\ links'[g] # NoCtl => g = h
      /\ \A c \in BtCtls : Accept(c) \in orders' => ctls'[c].at = "asking"
      /\ \A c \in BtCtls : (\A h \in BtHandles : links'[h] # c) =>
                              \A ch \in Channels : ctls'[c].chan[ch] = 0
  BY <1>a DEF BtCtlInv
<1> QED BY <1>3, <1>4, <1>5 DEF BtCtlInv, Accept, Event

(* A slot keeps its link, or is cleared.                                   *)
KeepsLink(p) ==
    \/ pads'[p].handle = NoHandle /\ "connected" \notin pads'[p].status
    \/ /\ pads'[p].handle = pads[p].handle
       /\ "connected" \in pads'[p].status /\ p \notin torn' =>
            "connected" \in pads[p].status /\ pads'[p].addr = pads[p].addr
       /\ events' = events \/ events[1] # Disc(pads[p].handle)

(* The slots: no link is made.                                             *)
LEMMA BtSlotFrame ==
    ASSUME BtTypes, BtSlotInv, events' \in Seq(BtEventTypes), links' = links, torn \subseteq torn',
           events' = events \/ Popped(events, events'),
           \A p \in Slots : KeepsLink(p)
    PROVE  BtSlotInv'
<1>0. DOMAIN events \subseteq Nat /\ DOMAIN events' \subseteq Nat BY DEF BtTypes
<1>a. NoHandle \notin BtHandles BY BtAssumption
<1>1. ASSUME NEW p \in Slots, NEW j \in DOMAIN events', events'[j].k = "complete",
             pads'[p].handle \in BtHandles,
             \/ events'[j].handle = pads'[p].handle
             \/ "connected" \in pads'[p].status /\ p \notin torn' /\ events'[j].ctl = pads'[p].addr
      PROVE  \E n \in DOMAIN events' : n < j /\ events'[n] = Disc(pads'[p].handle)
  <2>1. /\ pads'[p].handle = pads[p].handle
        /\ "connected" \in pads'[p].status /\ p \notin torn' =>
             "connected" \in pads[p].status /\ p \notin torn /\ pads'[p].addr = pads[p].addr
        /\ events' = events \/ events[1] # Disc(pads[p].handle)
    BY <1>1, <1>a DEF KeepsLink
  <2>2. CASE events' = events
    <3>1. \E n \in DOMAIN events : n < j /\ events[n] = Disc(pads[p].handle)
      BY <2>1, <2>2, <1>1 DEF BtSlotInv
    <3> QED BY <3>1, <2>1, <2>2
  <2>3. CASE events' # events
    <3>1. j + 1 \in DOMAIN events /\ events'[j] = events[j + 1] BY <2>3, <1>0, <1>1, BtPopAnnounced
    <3>2. PICK n \in DOMAIN events : n < j + 1 /\ events[n] = Disc(pads[p].handle)
      BY <3>1, <2>1, <1>1 DEF BtSlotInv
    <3>3. n # 1 BY <3>2, <2>1, <2>3
    <3>4. n - 1 \in DOMAIN events' /\ events'[n - 1] = events[n] BY <3>3, <2>3 DEF Popped
    <3>5. n - 1 < j BY <3>2, <1>0
    <3> QED BY <3>2, <3>4, <3>5, <2>1
  <2> QED BY <2>2, <2>3
<1>2. OneSlotPerHandle'
  <2> SUFFICES ASSUME NEW p \in Slots, NEW q \in Slots, p # q, pads'[p].handle # NoHandle
               PROVE  pads'[p].handle # pads'[q].handle
    BY DEF OneSlotPerHandle
  <2> QED BY DEF BtSlotInv, OneSlotPerHandle, KeepsLink
<1>3. ASSUME NEW p \in Slots, "connected" \in pads'[p].status, p \notin torn'
      PROVE  pads'[p].handle \in BtHandles
  BY <1>3 DEF BtSlotInv, KeepsLink
<1>4. ASSUME NEW p \in Slots, pads'[p].handle \in BtHandles,
             ~\E i \in DOMAIN events' : events'[i] = Disc(pads'[p].handle)
      PROVE  /\ links'[pads'[p].handle] # NoCtl
             /\ "connected" \in pads'[p].status /\ p \notin torn' => links'[pads'[p].handle] = pads'[p].addr
  <2>1. /\ pads'[p].handle = pads[p].handle
        /\ "connected" \in pads'[p].status /\ p \notin torn' =>
             "connected" \in pads[p].status /\ p \notin torn /\ pads'[p].addr = pads[p].addr
        /\ events' = events \/ events[1] # Disc(pads[p].handle)
    BY <1>4, <1>a DEF KeepsLink
  <2>2. ~\E i \in DOMAIN events : events[i] = Disc(pads[p].handle)
    <3>1. CASE events' = events BY <3>1, <2>1, <1>4
    <3>2. CASE events' # events
      <4>1. \A h : events[1] # Disc(h) /\ AnnIn(events, h) => AnnIn(events', h)
        BY <3>2, <1>0, BtPopAnnounced
      <4> QED BY <4>1, <3>2, <2>1, <1>4 DEF AnnIn
    <3> QED BY <3>1, <3>2
  <2>3. ~AnnIn(events, pads[p].handle) BY <2>2 DEF AnnIn
  <2> QED BY <2>1, <2>3, <1>4 DEF BtSlotInv
<1> QED BY <1>1, <1>2, <1>3, <1>4 DEF BtSlotInv, Disc, Event, AnnIn

(* A link ends, or one is asked for.                                       *)
LEMMA BtSlotAppend ==
    ASSUME BtTypes, BtSlotInv, pads' = pads, torn' = torn, NEW e, Appended(events, events', e),
           \/ e.k = "request" /\ links' = links
           \/ \E h \in BtHandles : e = Disc(h) /\ links' = [links EXCEPT ![h] = NoCtl]
    PROVE  BtSlotInv'
<1> DEFINE m == Len(events) + 1
<1>0. DOMAIN events \subseteq Nat /\ m \in Nat BY DEF BtTypes
<1>1. DOMAIN events' = DOMAIN events \cup {m} /\ events'[m] = e
      /\ \A i \in DOMAIN events : events'[i] = events[i] /\ i < m
  BY DEF Appended
<1> HIDE DEF m
<1>c. \A h : Disc(h).k = "disc" BY DEF Disc, Event
<1>2. ASSUME NEW p \in Slots, NEW j \in DOMAIN events', events'[j].k = "complete",
             pads[p].handle \in BtHandles,
             \/ events'[j].handle = pads[p].handle
             \/ "connected" \in pads[p].status /\ p \notin torn /\ events'[j].ctl = pads[p].addr
      PROVE  \E n \in DOMAIN events' : n < j /\ events'[n] = Disc(pads[p].handle)
  <2>1. j # m BY <1>2, <1>1, <1>c
  <2>2. j \in DOMAIN events /\ events'[j] = events[j] BY <2>1, <1>1
  <2>3. PICK n \in DOMAIN events : n < j /\ events[n] = Disc(pads[p].handle)
    BY <2>2, <1>2 DEF BtSlotInv
  <2> QED BY <2>3, <1>1
<1>3. ASSUME NEW p \in Slots, pads[p].handle \in BtHandles,
             ~\E i \in DOMAIN events' : events'[i] = Disc(pads[p].handle)
      PROVE  /\ links'[pads[p].handle] # NoCtl
             /\ "connected" \in pads[p].status /\ p \notin torn => links'[pads[p].handle] = pads[p].addr
  <2>1. ~\E i \in DOMAIN events : events[i] = Disc(pads[p].handle) BY <1>1, <1>3
  <2>2. ~AnnIn(events, pads[p].handle) BY <2>1 DEF AnnIn
  <2>3. e # Disc(pads[p].handle) BY <1>1, <1>3
  <2>4. links \in [BtHandles -> BtCtls \cup {NoCtl}] BY DEF BtTypes, BtTypeOK
  <2>5. links'[pads[p].handle] = links[pads[p].handle] BY <2>3, <2>4, <1>3
  <2> QED BY <2>2, <2>5, <1>3 DEF BtSlotInv
<1>6. OneSlotPerHandle' BY DEF BtSlotInv, OneSlotPerHandle
<1> QED BY <1>2, <1>3, <1>6 DEF BtSlotInv, Disc, Event, AnnIn

(* A slot is the same to its link.                                         *)
SameLink(p) ==
    /\ pads'[p].handle = pads[p].handle /\ pads'[p].scid = pads[p].scid
    /\ "connected" \in pads'[p].status => "connected" \in pads[p].status
    /\ "connected" \in pads[p].status => "connected" \in pads'[p].status
    /\ "running" \in pads'[p].status <=> "running" \in pads[p].status

(* What was true of the channels of a link and its packets still is.       *)
KeepsAir(h) ==
    /\ ~DoomIn(ctls, links, orders, h)
    /\ \A q : HeldOk(q, ctls[links[h]].chan, Kinds(packets, h)) =>
                 HeldOk(q, ctls'[links'[h]].chan, Kinds(packets', h))
    /\ FreshOk(ctls[links[h]].chan, Kinds(packets, h)) =>
         FreshOk(ctls'[links'[h]].chan, Kinds(packets', h))

(* A link that no slot has heard of.                                       *)
NewLink(h) ==
    /\ FreshOk(ctls'[links'[h]].chan, Kinds(packets', h))
    /\ \A p \in Slots : pads'[p].handle = h => AnnIn(events', h)

(* A slot holds on to its link, has none, or has come to hold it.          *)
HoldsOn(p) ==
    \/ SameLink(p) /\ (AnnIn(events, pads[p].handle) => AnnIn(events', pads[p].handle))
    \/ "connected" \notin pads'[p].status /\ "running" \notin pads'[p].status
    \/ ~crossed' =>
         /\ "connected" \in pads'[p].status
         /\ ~AnnIn(events', pads'[p].handle) /\ ~DoomIn(ctls', links', orders', pads'[p].handle) =>
              HeldOk(pads'[p], ctls'[links'[pads'[p].handle]].chan, Kinds(packets', pads'[p].handle))

(* What is said of the links stays true when, of each slot and each link,  *)
(* no more is known, on its way or open than before.                       *)
LEMMA BtLinkFrame ==
    ASSUME BtTypes, BtSlotInv, BtLinkInv, ~crossed' => ~crossed, torn' = torn,
           BtTypes', BtSlotInv', BtEventInv(events', links'),
           \A p \in Slots : HoldsOn(p),
           \A h \in BtHandles : FreshIn(events', h) => FreshIn(events, h) \/ NewLink(h),
           \A h \in BtHandles :
             (/\ ~DoomIn(ctls', links', orders', h) /\ links'[h] \in BtCtls
              /\ FreshIn(events', h) \/ ~AnnIn(events', h)) => KeepsAir(h) \/ NewLink(h)
    PROVE  BtLinkInv'
<1>0. ~crossed' => torn = {} /\ torn' = {} BY DEF BtLinkInv
<1> SUFFICES ASSUME ~crossed' PROVE
        /\ \A p \in Slots : "running" \in pads'[p].status => "connected" \in pads'[p].status
        /\ \A p \in Slots :
             "connected" \in pads'[p].status /\ ~AnnIn(events', pads'[p].handle) /\ ~DoomIn(ctls', links', orders', pads'[p].handle) =>
                 HeldOk(pads'[p], ctls'[links'[pads'[p].handle]].chan, Kinds(packets', pads'[p].handle))
        /\ \A h \in BtHandles :
             FreshIn(events', h) /\ ~DoomIn(ctls', links', orders', h) => FreshOk(ctls'[links'[h]].chan, Kinds(packets', h))
  BY <1>0 DEF BtLinkInv, HeldOk, FreshOk, OpenC, OpenI, Kinds
<1>1. ASSUME NEW p \in Slots, "running" \in pads'[p].status PROVE "connected" \in pads'[p].status
  BY <1>1 DEF BtLinkInv, SameLink, HoldsOn
<1>2. ASSUME NEW p \in Slots, "connected" \in pads'[p].status, ~AnnIn(events', pads'[p].handle),
             ~DoomIn(ctls', links', orders', pads'[p].handle)
      PROVE  HeldOk(pads'[p], ctls'[links'[pads'[p].handle]].chan, Kinds(packets', pads'[p].handle))
  <2> DEFINE h == pads[p].handle
  <2>0. SUFFICES ASSUME SameLink(p), AnnIn(events, h) => AnnIn(events', h)
                 PROVE  HeldOk(pads'[p], ctls'[links'[pads'[p].handle]].chan, Kinds(packets', pads'[p].handle))
    BY <1>2 DEF HoldsOn
  <2>1. SameLink(p) BY <2>0
  <2>2. pads'[p].handle = h /\ "connected" \in pads[p].status BY <2>1, <1>2 DEF SameLink
  <2>3. h \in BtHandles BY <2>2, <1>0 DEF BtSlotInv
  <2>4. ~AnnIn(events, h) BY <2>0, <2>2, <1>2
  <2> HIDE DEF h
  <2>a. links'[h] \in BtCtls
    <3>1. links'[h] # NoCtl BY <2>2, <2>3, <1>2 DEF BtSlotInv
    <3> QED BY <3>1, <2>3 DEF BtTypes, BtTypeOK
  <2>5. KeepsAir(h) BY <2>2, <2>3, <2>a, <1>2 DEF NewLink
  <2>6. HeldOk(pads[p], ctls[links[h]].chan, Kinds(packets, h)) BY <2>2, <2>4, <2>5 DEF BtLinkInv, KeepsAir, h
  <2>7. pads'[p].scid = pads[p].scid /\ ("running" \in pads'[p].status <=> "running" \in pads[p].status)
    BY <2>1 DEF SameLink
  <2>8. HeldOk(pads'[p], ctls[links[h]].chan, Kinds(packets, h)) BY <2>6, <2>7 DEF HeldOk
  <2>9. HeldOk(pads'[p], ctls'[links'[h]].chan, Kinds(packets', h)) BY <2>5, <2>8 DEF KeepsAir
  <2> QED BY <2>2, <2>9
<1>3. ASSUME NEW h \in BtHandles, FreshIn(events', h), ~DoomIn(ctls', links', orders', h)
      PROVE  FreshOk(ctls'[links'[h]].chan, Kinds(packets', h))
  <2>a. links'[h] \in BtCtls
    <3>1. PICK i \in DOMAIN events' : /\ events'[i].k = "complete" /\ events'[i].handle = h
                                      /\ \A n \in DOMAIN events' : i < n => events'[n] # Disc(h)
      BY <1>3 DEF FreshIn
    <3>2. links'[h] = events'[i].ctl BY <3>1 DEF BtEventInv
    <3>3. events'[i] \in BtEventTypes BY DEF BtTypes
    <3> QED BY <3>1, <3>2, <3>3 DEF BtEventTypes
  <2>b. SUFFICES ASSUME ~NewLink(h) PROVE FreshOk(ctls'[links'[h]].chan, Kinds(packets', h))
    BY DEF NewLink
  <2>1. KeepsAir(h) /\ FreshIn(events, h) BY <2>a, <2>b, <1>3
  <2>2. FreshOk(ctls[links[h]].chan, Kinds(packets, h)) BY <2>1 DEF BtLinkInv, KeepsAir
  <2> QED BY <2>1, <2>2 DEF KeepsAir
<1> QED BY <1>1, <1>2, <1>3

(* The answers that stop a slot.                                           *)
Tokens == {<<"discrsp", "control">>, <<"discrsp", "interrupt">>}

(* What is said of the slot a reset waits for stays true when the slot     *)
(* keeps its flags and what stops it stays on its way.                     *)
LEMMA BtResetFrame ==
    ASSUME BtTypes, BtResetInv, ~crossed' => ~crossed, call' = call,
           ~crossed' /\ call.op = "poll" =>
             LET q == pads[call.pad]
                 r == pads'[call.pad]
             IN /\ r.handle = q.handle /\ r.addr = q.addr
                /\ "request" \in q.status => "request" \in r.status
                /\ "running" \in q.status => "running" \in r.status
                /\ "running" \in r.status => "running" \in q.status
                /\ "connected" \in r.status => "connected" \in q.status
                /\ "running" \in q.status =>
                     /\ AnnIn(events, q.handle) => AnnIn(events', q.handle)
                     /\ DoomIn(ctls, links, orders, q.handle) =>
                          DoomIn(ctls', links', orders', q.handle) \/ AnnIn(events', q.handle)
                     /\ \A x \in Tokens : x \in Kinds(packets, q.handle) => x \in Kinds(packets', q.handle),
           call.op = "poll" /\ "running" \notin pads[call.pad].status =>
             \A i \in DOMAIN events' : events'[i].k = "complete" => \E j \in DOMAIN events : events[j] = events'[i]
    PROVE  BtResetInv'
<1> SUFFICES ASSUME ~crossed', call.op = "poll"
             PROVE  \/ "request" \in pads'[call.pad].status
                    \/ /\ "running" \in pads'[call.pad].status
                       /\ \/ AnnIn(events', pads'[call.pad].handle) \/ DoomIn(ctls', links', orders', pads'[call.pad].handle)
                          \/ <<"discrsp", "control">> \in Kinds(packets', pads'[call.pad].handle)
                          \/ <<"discrsp", "interrupt">> \in Kinds(packets', pads'[call.pad].handle)
                    \/ /\ "connected" \notin pads'[call.pad].status
                       /\ "running" \notin pads'[call.pad].status
                       /\ \A i \in DOMAIN events' :
                            events'[i].k = "complete" => events'[i].ctl # pads'[call.pad].addr
  BY DEF BtResetInv, Kinds
<1> DEFINE q == pads[call.pad]
           r == pads'[call.pad]
<1>1. /\ r.handle = q.handle /\ r.addr = q.addr
      /\ "request" \in q.status => "request" \in r.status
      /\ "running" \in q.status => "running" \in r.status
      /\ "running" \in r.status => "running" \in q.status
      /\ "connected" \in r.status => "connected" \in q.status
      /\ "running" \in q.status =>
           /\ AnnIn(events, q.handle) => AnnIn(events', q.handle)
           /\ DoomIn(ctls, links, orders, q.handle) =>
                DoomIn(ctls', links', orders', q.handle) \/ AnnIn(events', q.handle)
           /\ \A x \in Tokens : x \in Kinds(packets, q.handle) => x \in Kinds(packets', q.handle)
  OBVIOUS
<1>2. \/ "request" \in q.status
      \/ /\ "running" \in q.status
         /\ \/ AnnIn(events, q.handle) \/ DoomIn(ctls, links, orders, q.handle)
            \/ <<"discrsp", "control">> \in Kinds(packets, q.handle)
            \/ <<"discrsp", "interrupt">> \in Kinds(packets, q.handle)
      \/ /\ "connected" \notin q.status /\ "running" \notin q.status
         /\ \A i \in DOMAIN events : events[i].k = "complete" => events[i].ctl # q.addr
  BY DEF BtResetInv
<1>3. <<"discrsp", "control">> \in Tokens /\ <<"discrsp", "interrupt">> \in Tokens BY DEF Tokens
<1> HIDE DEF q, r
<1>4. CASE "request" \in q.status BY <1>1, <1>4 DEF r
<1>5. CASE /\ "running" \in q.status
           /\ \/ AnnIn(events, q.handle) \/ DoomIn(ctls, links, orders, q.handle)
              \/ <<"discrsp", "control">> \in Kinds(packets, q.handle)
              \/ <<"discrsp", "interrupt">> \in Kinds(packets, q.handle)
  <2>1. \/ AnnIn(events', q.handle) \/ DoomIn(ctls', links', orders', q.handle)
        \/ <<"discrsp", "control">> \in Kinds(packets', q.handle)
        \/ <<"discrsp", "interrupt">> \in Kinds(packets', q.handle)
    BY <1>1, <1>3, <1>5
  <2>2. "running" \in r.status /\ r.handle = q.handle BY <1>1, <1>5
  <2> QED BY <2>1, <2>2 DEF r
<1>6. CASE /\ "connected" \notin q.status /\ "running" \notin q.status
           /\ \A i \in DOMAIN events : events[i].k = "complete" => events[i].ctl # q.addr
  <2>1. \A i \in DOMAIN events' : events'[i].k = "complete" => \E j \in DOMAIN events : events[j] = events'[i]
    BY <1>6 DEF q
  <2>2. \A i \in DOMAIN events' : events'[i].k = "complete" => events'[i].ctl # r.addr
    BY <2>1, <1>1, <1>6
  <2> QED BY <2>2, <1>1, <1>6 DEF r
<1> QED BY <1>2, <1>4, <1>5, <1>6


----------------------------------------------------------------------------
(* The steps.                                                              *)

(* One of the bounds is used up; the others stay.                          *)
LEMMA BtSpend ==
    ASSUME BtTypes, NEW what \in {"calls", "connects", "faults"}, Spend(what)
    PROVE  left' \in [calls : 0 .. MaxBtCalls, connects : 0 .. MaxBtConnects, faults : 0 .. MaxBtFaults]
<1>1. MaxBtCalls \in Nat /\ MaxBtConnects \in Nat /\ MaxBtFaults \in Nat BY BtAssumption
<1>2. left \in [calls : 0 .. MaxBtCalls, connects : 0 .. MaxBtConnects, faults : 0 .. MaxBtFaults]
  BY DEF BtTypes, BtTypeOK
<1>3. CASE what = "calls"
  <2>1. left.calls > 0 /\ left' = [left EXCEPT !.calls = @ - 1] BY <1>3 DEF Spend
  <2>2. left.calls - 1 \in 0 .. MaxBtCalls BY <2>1, <1>1, <1>2
  <2> QED BY <2>1, <2>2, <1>2
<1>4. CASE what = "connects"
  <2>1. left.connects > 0 /\ left' = [left EXCEPT !.connects = @ - 1] BY <1>4 DEF Spend
  <2>2. left.connects - 1 \in 0 .. MaxBtConnects BY <2>1, <1>1, <1>2
  <2> QED BY <2>1, <2>2, <1>2
<1>5. CASE what = "faults"
  <2>1. left.faults > 0 /\ left' = [left EXCEPT !.faults = @ - 1] BY <1>5 DEF Spend
  <2>2. left.faults - 1 \in 0 .. MaxBtFaults BY <2>1, <1>1, <1>2
  <2> QED BY <2>1, <2>2, <1>2
<1> QED BY <1>3, <1>4, <1>5

(* The adapter is plugged in.                                              *)
LEMMA BtConnectStep == ASSUME BtInv, BtConnect PROVE BtInv'
<1> USE DEF BtInv, BtConnect, btAir, btMarks
<1>1. BtTypes' BY DEF BtTypes, BtTypeOK
<1>2. BtOut' BY DEF BtOut
<1>3. BtCtlInv' BY DEF BtCtlInv
<1>4. BtEventInv(events, links)' BY DEF BtEventInv
<1>5. BtSlotInv' BY DEF BtSlotInv, OneSlotPerHandle
<1>6. BtLinkInv' BY DEF BtLinkInv
<1>7. BtResetInv' BY DEF BtResetInv
<1> QED BY <1>1, <1>2, <1>3, <1>4, <1>5, <1>6, <1>7

(* The state of a cleared slot.                                            *)
LEMMA BtClear ==
    /\ ClearPad.handle = NoHandle /\ ClearPad.addr = NoCtl
    /\ "connected" \notin ClearPad.status /\ "running" \notin ClearPad.status
    /\ ClearPad \in PadTypes
    /\ OffCtl \in CtlTypes /\ OffCtl.at = "off" /\ \A ch \in Channels : OffCtl.chan[ch] = 0
BY DEF ClearPad, OffCtl, CtlTypes, PadTypes, Family

(* With all slots cleared, no link and no event of one, nothing is left to *)
(* say.                                                                    *)
LEMMA BtNothing ==
    ASSUME BtTypes', pads' = [p \in Slots |-> ClearPad], links' = [h \in BtHandles |-> NoCtl],
           ctls' = [c \in BtCtls |-> OffCtl], orders' = {}, ~crossed' => torn' = {},
           \A i \in DOMAIN events' : events'[i].k \notin {"complete", "request"}
    PROVE  /\ BtCtlInv' /\ BtEventInv(events, links)' /\ BtSlotInv' /\ BtLinkInv' /\ BtResetInv'
<1>1. \A p \in Slots : /\ pads'[p].handle = NoHandle /\ "connected" \notin pads'[p].status
                       /\ "running" \notin pads'[p].status
  BY BtClear
<1>a. NoHandle \notin BtHandles BY BtAssumption
<1>2. BtCtlInv' BY BtClear DEF BtCtlInv
<1>3. BtEventInv(events, links)' BY DEF BtEventInv
<1>4. BtSlotInv' BY <1>1, <1>a DEF BtSlotInv, OneSlotPerHandle
<1>5. \A h : ~FreshIn(events', h) BY DEF FreshIn
<1>6. BtLinkInv' BY <1>1, <1>5 DEF BtLinkInv
<1>7. call'.op = "poll" => call'.pad \in Slots BY DEF BtTypes, BtTypeOK
<1>8. BtResetInv' BY <1>1, <1>7 DEF BtResetInv
<1> QED BY <1>2, <1>3, <1>4, <1>6, <1>8

(* Its configuration is set: the slots are cleared.                        *)
LEMMA BtConfigSetStep == ASSUME BtInv, BtConfigSet PROVE BtInv'
<1> USE DEF BtInv, BtConfigSet, btAir, btMarks
<1> DEFINE e == Event("reset", NoCtl, NoHandle)
<1>0. /\ usb = "authorized" /\ usb' = "set" /\ pads' = [p \in Slots |-> ClearPad] /\ events' = <<e>>
      /\ UNCHANGED <<crossed, torn, call, packets, orders, links, ctls, left>>
      /\ ~crossed => torn = {}
  BY DEF BtLinkInv
<1>1. orders = {} /\ links = [h \in BtHandles |-> NoCtl] /\ ctls = [c \in BtCtls |-> OffCtl]
  BY <1>0 DEF BtOut
<1>2. e \in BtEventTypes /\ e.k = "reset" BY DEF Event, BtEventTypes
<1> HIDE DEF e, BtConfigSet
<1>3. events' \in Seq(BtEventTypes) /\ DOMAIN events' = {1} /\ events'[1] = e BY <1>0, <1>2
<1>4. BtTypes'
  <2>1. BtTypeOK' BY <1>0, BtClear DEF BtTypes, BtTypeOK, PadTypes
  <2> QED BY <2>1, <1>0, <1>1, <1>3 DEF BtTypes, BtOrders
<1>5. BtOut' BY <1>0 DEF BtOut
<1>6. \A i \in DOMAIN events' : events'[i].k \notin {"complete", "request"} BY <1>2, <1>3
<1> HIDE DEF BtInv
<1> QED BY <1>0, <1>1, <1>4, <1>5, <1>6, BtNothing DEF BtInv

(* The adapter is unplugged: nothing is on its way any more.               *)
LEMMA BtDisconnectStep == ASSUME BtInv, BtDisconnect PROVE BtInv'
<1> USE DEF BtInv, BtDisconnect, btMarks
<1>0. /\ usb' = "out" /\ pads' = [p \in Slots |-> ClearPad]
      /\ events' = <<>> /\ packets' = <<>> /\ orders' = {}
      /\ links' = [h \in BtHandles |-> NoCtl] /\ ctls' = [c \in BtCtls |-> OffCtl]
      /\ UNCHANGED <<crossed, torn, call>> /\ Spend("faults")
      /\ ~crossed => torn = {}
  BY DEF BtLinkInv
<1> HIDE DEF BtDisconnect
<1>1. left' \in [calls : 0 .. MaxBtCalls, connects : 0 .. MaxBtConnects, faults : 0 .. MaxBtFaults]
  BY <1>0, BtSpend
<1>2. BtTypes'
  <2>1. BtTypeOK' BY <1>0, <1>1, BtClear DEF BtTypes, BtTypeOK, CtlTypes, PadTypes
  <2> QED BY <2>1, <1>0 DEF BtTypes, BtOrders
<1>3. BtOut' BY <1>0 DEF BtOut
<1>4. \A i \in DOMAIN events' : events'[i].k \notin {"complete", "request"} BY <1>0
<1> HIDE DEF BtInv
<1> QED BY <1>0, <1>2, <1>3, <1>4, BtNothing DEF BtInv

(* What the steps of the launcher's thread leave alone.                    *)
LEMMA BtCallFrame ==
    ASSUME BtInv, BtTypes', UNCHANGED <<crossed, torn, usb, events, packets, orders, links, ctls>>,
           \A p \in Slots : /\ pads'[p].addr = pads[p].addr /\ SameLink(p)
    PROVE  BtOut' /\ BtCtlInv' /\ BtEventInv(events, links)' /\ BtSlotInv' /\ BtLinkInv'
<1>0. /\ BtTypes /\ BtOut /\ BtCtlInv /\ BtEventInv(events, links) /\ BtSlotInv /\ BtLinkInv
      /\ events \in Seq(BtEventTypes)
  BY DEF BtInv, BtTypes
<1>1. BtOut' BY <1>0 DEF BtOut
<1>2. BtCtlInv' BY <1>0 DEF BtCtlInv
<1>3. BtEventInv(events, links)' BY <1>0 DEF BtEventInv
<1>4. \A p \in Slots : KeepsLink(p) BY DEF KeepsLink, SameLink
<1>5. BtSlotInv' BY <1>0, <1>4, BtSlotFrame
<1>6. \A p \in Slots : HoldsOn(p) BY DEF HoldsOn
<1>7. \A h \in BtHandles : ~DoomIn(ctls', links', orders', h) /\ (FreshIn(events', h) \/ ~AnnIn(events', h)) => KeepsAir(h)
  BY DEF KeepsAir
<1>8. BtLinkInv'
  <2>1. BtEventInv(events', links') BY <1>0
  <2> QED BY <2>1, <1>0, <1>5, <1>6, <1>7, BtLinkFrame
<1> QED BY <1>1, <1>2, <1>3, <1>5, <1>8

(* The launcher calls ds34bt_reset.                                        *)
LEMMA BtCallStep == ASSUME BtInv, BtCall PROVE BtInv'
<1>0. /\ UNCHANGED <<crossed, torn, pads, usb, events, packets, orders, links, ctls>>
      /\ call' = [op |-> "flag", pad |-> 1, status |-> {}] /\ Spend("calls")
  BY DEF BtCall, Call, btAir, btMarks
<1>1. BtTypes'
  <2>1. left' \in [calls : 0 .. MaxBtCalls, connects : 0 .. MaxBtConnects, faults : 0 .. MaxBtFaults]
    BY <1>0, BtSpend DEF BtInv
  <2>2. 1 \in Slots BY BtAssumption DEF Slots
  <2>3. BtTypeOK' BY <1>0, <2>1, <2>2 DEF BtInv, BtTypes, BtTypeOK
  <2> QED BY <2>3, <1>0 DEF BtInv, BtTypes
<1>2. \A p \in Slots : pads'[p].addr = pads[p].addr /\ SameLink(p) BY <1>0 DEF SameLink
<1>3. BtOut' /\ BtCtlInv' /\ BtEventInv(events, links)' /\ BtSlotInv' /\ BtLinkInv'
  BY <1>0, <1>1, <1>2, BtCallFrame
<1>4. BtResetInv' BY <1>0 DEF BtResetInv
<1> QED BY <1>1, <1>3, <1>4 DEF BtInv

CallTypes == [op : {"none", "flag", "store", "poll"}, pad : Slots, status : SUBSET Flags]

(* ds34bt_reset reads the status of a slot it asks to stop.                *)
LEMMA BtResetRequestStep == ASSUME BtInv, ResetRequest PROVE BtInv'
<1>0. /\ UNCHANGED <<crossed, torn, usb, events, packets, orders, links, ctls, left, pads>>
      /\ call' = [op |-> "store", pad |-> call.pad, status |-> pads[call.pad].status]
  BY DEF ResetRequest, Serves, Call, btAir, btMarks
<1>1. /\ call \in CallTypes /\ pads \in [Slots -> PadTypes]
  BY DEF BtInv, BtTypes, BtTypeOK, PadTypes, CallTypes
<1>2. BtTypes'
  <2>1. pads[call.pad].status \in SUBSET Flags BY <1>1 DEF PadTypes, CallTypes
  <2>2. call' \in CallTypes BY <2>1, <1>0, <1>1 DEF CallTypes
  <2>3. BtTypeOK' BY <1>0, <2>2 DEF BtInv, BtTypes, BtTypeOK, CallTypes
  <2> QED BY <2>3, <1>0 DEF BtInv, BtTypes
<1>3. \A p \in Slots : pads'[p].addr = pads[p].addr /\ SameLink(p) BY <1>0 DEF SameLink
<1>4. BtOut' /\ BtCtlInv' /\ BtEventInv(events, links)' /\ BtSlotInv' /\ BtLinkInv'
  BY <1>0, <1>2, <1>3, BtCallFrame
<1>5. BtResetInv' BY <1>0 DEF BtResetInv
<1> QED BY <1>2, <1>4, <1>5 DEF BtInv

(* ds34bt_reset writes the status back, with the request.                  *)
LEMMA BtResetStoreStep == ASSUME BtInv, ResetStore PROVE BtInv'
<1>0. /\ UNCHANGED <<usb, events, packets, orders, links, ctls, left>>
      /\ pads' = [pads EXCEPT ![call.pad].status = call.status \cup {"request"}]
      /\ call' = [op |-> "poll", pad |-> call.pad, status |-> {}]
      /\ crossed' = (crossed \/ IsStale)
      /\ torn' = IF IsStale THEN torn \cup {call.pad} ELSE torn
  BY DEF ResetStore, Serves, Call, btAir
<1>1. /\ call \in CallTypes /\ pads \in [Slots -> PadTypes]
      /\ crossed \in BOOLEAN /\ torn \in SUBSET Slots
  BY DEF BtInv, BtTypes, BtTypeOK, PadTypes, CallTypes
<1> DEFINE q == [pads[call.pad] EXCEPT !.status = call.status \cup {"request"}]
<1>a. call.pad \in Slots /\ call.status \in SUBSET Flags BY <1>1 DEF CallTypes
<1>b. pads' = [pads EXCEPT ![call.pad] = q] BY <1>0, <1>1, <1>a
<1>c. /\ q \in PadTypes /\ q.status = call.status \cup {"request"}
      /\ q.handle = pads[call.pad].handle /\ q.addr = pads[call.pad].addr
      /\ q.scid = pads[call.pad].scid
  <2>1. call.status \cup {"request"} \in SUBSET Flags BY <1>a DEF Flags
  <2> QED BY <2>1, <1>1, <1>a DEF PadTypes
<1> HIDE DEF q
<1>2. pads'[call.pad] = q /\ \A p \in Slots : p # call.pad => pads'[p] = pads[p] BY <1>1, <1>a, <1>b
<1>3. BtTypes'
  <2>1. pads' \in [Slots -> PadTypes] BY <1>1, <1>b, <1>c
  <2>2. call' \in CallTypes BY <1>0, <1>a DEF CallTypes
  <2>3. crossed' \in BOOLEAN /\ torn' \subseteq Slots BY <1>0, <1>1, <1>a
  <2>4. BtTypeOK' BY <1>0, <2>1, <2>2, <2>3 DEF BtInv, BtTypes, BtTypeOK, PadTypes, CallTypes
  <2> QED BY <2>4, <1>0 DEF BtInv, BtTypes
<1>4. BtResetInv'
  <2>1. call'.pad = call.pad /\ "request" \in pads'[call.pad].status BY <1>0, <1>2, <1>c
  <2> QED BY <2>1 DEF BtResetInv
\* Nothing but the request has changed since the status was read.
<1>5. CASE ~IsStale
  <2>1. UNCHANGED <<crossed, torn>> BY <1>0, <1>1, <1>5
  <2>2. pads[call.pad].status \ {"request"} = call.status \ {"request"} BY <1>5 DEF IsStale
  <2>3. \A f \in {"connected", "running"} : f \in q.status <=> f \in pads[call.pad].status
    BY <2>2, <1>c
  <2>4. ASSUME NEW p \in Slots PROVE pads'[p].addr = pads[p].addr /\ SameLink(p)
    <3>1. CASE p # call.pad BY <3>1, <1>2 DEF SameLink
    <3>2. CASE p = call.pad BY <3>2, <2>3, <1>2, <1>c DEF SameLink
    <3> QED BY <3>1, <3>2
  <2>5. BtOut' /\ BtCtlInv' /\ BtEventInv(events, links)' /\ BtSlotInv' /\ BtLinkInv'
    BY <2>1, <2>4, <1>0, <1>3, BtCallFrame
  <2> QED BY <2>5, <1>3, <1>4 DEF BtInv
\* A callback's change is undone: of this slot only its handle still counts.
<1>6. CASE IsStale
  <2>0. /\ BtTypes /\ BtOut /\ BtCtlInv /\ BtEventInv(events, links) /\ BtSlotInv
        /\ events \in Seq(BtEventTypes)
    BY DEF BtInv, BtTypes
  <2>1. crossed' /\ torn' = torn \cup {call.pad} BY <1>0, <1>6
  <2>2. BtOut' BY <2>0, <1>0 DEF BtOut
  <2>3. BtCtlInv' BY <2>0, <1>0 DEF BtCtlInv
  <2>4. BtEventInv(events, links)' BY <2>0, <1>0 DEF BtEventInv
  <2>5. ASSUME NEW p \in Slots PROVE KeepsLink(p)
    <3>1. CASE p # call.pad BY <3>1, <1>0, <1>2 DEF KeepsLink
    <3>2. CASE p = call.pad BY <3>2, <2>1, <1>0, <1>2, <1>c DEF KeepsLink
    <3> QED BY <3>1, <3>2
  <2>6. BtSlotInv'
    <3>1. torn \subseteq torn' /\ links' = links /\ events' = events BY <2>1, <1>0
    <3> QED BY <3>1, <2>0, <2>5, BtSlotFrame
  <2>7. BtLinkInv' BY <2>1 DEF BtLinkInv
  <2> QED BY <2>2, <2>3, <2>4, <2>6, <2>7, <1>3, <1>4 DEF BtInv
<1> QED BY <1>5, <1>6

(* ds34bt_reset looks whether the slot it waits for has stopped.           *)
LEMMA BtResetPollStep == ASSUME BtInv, ResetPoll PROVE BtInv'
<1>0. /\ UNCHANGED <<crossed, torn, usb, events, packets, orders, links, ctls, left, pads>>
      /\ call' = IF call.pad < BtPads THEN [op |-> "flag", pad |-> call.pad + 1, status |-> {}] ELSE Idle
  BY DEF ResetPoll, Serves, Call, btAir, btMarks
<1>1. call'.op # "poll" /\ call' \in CallTypes
  <2>1. call.pad \in Slots /\ BtPads \in Nat \ {0} BY BtAssumption DEF BtInv, BtTypes, BtTypeOK
  <2>2. 1 \in Slots /\ (call.pad < BtPads => call.pad + 1 \in Slots) BY <2>1 DEF Slots
  <2> QED BY <1>0, <2>2 DEF Idle, Call, CallTypes
<1>2. BtTypes'
  <2>1. BtTypeOK' BY <1>0, <1>1 DEF BtInv, BtTypes, BtTypeOK, CallTypes
  <2> QED BY <2>1, <1>0 DEF BtInv, BtTypes
<1>3. \A p \in Slots : pads'[p].addr = pads[p].addr /\ SameLink(p) BY <1>0 DEF SameLink
<1>4. BtOut' /\ BtCtlInv' /\ BtEventInv(events, links)' /\ BtSlotInv' /\ BtLinkInv'
  BY <1>0, <1>2, <1>3, BtCallFrame
<1>5. BtResetInv' BY <1>1 DEF BtResetInv
<1> QED BY <1>2, <1>4, <1>5 DEF BtInv

(* A command is built: of those that are on their way only disconnections  *)
(* may be lost, and only then is the step marked.                          *)
LEMMA BtCommands ==
    ASSUME BtTypes, NEW new, Commands(new)
    PROVE  /\ \A o \in orders' : o \in orders \/ o \in new
           /\ crossed' \in BOOLEAN
           /\ ~crossed' => ~crossed /\ orders' = orders \cup new
<1>1. crossed \in BOOLEAN BY DEF BtTypes, BtTypeOK
<1>2. PICK lost \in SUBSET {o \in orders : o.k = "disconnect"} :
        orders' = (orders \ lost) \cup new /\ crossed' = (crossed \/ lost # {})
  BY DEF Commands
<1>3. ~crossed' => ~crossed /\ lost = {} BY <1>2
<1> QED BY <1>1, <1>2, <1>3

(* HCI_event_task has taken an event.                                      *)
LEMMA BtHciEvent ==
    ASSUME BtTypes, NEW k, NEW a \in Seq(BtEventTypes), \A i \in DOMAIN a : Quiet(a[i]), HciEvent(k, a)
    PROVE  /\ events' \in Seq(BtEventTypes) /\ Popped(events, events')
           /\ 1 \in DOMAIN events /\ Head(events) = events[1] /\ events[1] \in BtEventTypes /\ events[1].k = k
           /\ usb \in {"set", "configured"} /\ UNCHANGED <<torn, call, links>>
           /\ DOMAIN events \subseteq Nat /\ DOMAIN events' \subseteq Nat
<1>1. events \in Seq(BtEventTypes) /\ events # <<>> BY DEF BtTypes, HciEvent
<1>2. events' = Tail(events) \o a BY DEF HciEvent
<1>3. /\ events' \in Seq(BtEventTypes) /\ Popped(events, events')
      /\ 1 \in DOMAIN events /\ Head(events) = events[1] /\ Head(events) \in BtEventTypes
  BY <1>1, <1>2, BtTailOf
<1>4. DOMAIN events \subseteq Nat /\ DOMAIN events' \subseteq Nat BY <1>1, <1>3
<1> QED BY <1>3, <1>4 DEF HciEvent

(* An event was taken that changes no slot's link.                         *)
LEMMA BtPopFrame ==
    ASSUME BtInv, BtTypes', Popped(events, events'), 1 \in DOMAIN events,
           events[1].k # "disc", usb' \in {"set", "configured"},
           UNCHANGED <<torn, call, links>>,
           \A c \in BtCtls : ctls'[c].at = ctls[c].at,
           \A c \in BtCtls : (\A h \in BtHandles : links[h] # c) => ctls'[c].chan = ctls[c].chan,
           ~crossed' => ~crossed /\ orders' = orders, \A o \in orders' : o \in orders,
           \A p \in Slots : /\ SameLink(p) /\ pads'[p].addr = pads[p].addr
                            /\ pads'[p].status = pads[p].status,
           \A h \in BtHandles : ~DoomIn(ctls, links, orders, h) /\ links[h] \in BtCtls => KeepsAir(h),
           \A h, x : x \in Kinds(packets, h) => x \in Kinds(packets', h)
    PROVE  BtInv'
<1>0. /\ BtTypes /\ BtOut /\ BtCtlInv /\ BtEventInv(events, links) /\ BtSlotInv /\ BtLinkInv
      /\ BtResetInv
  BY DEF BtInv
<1>a. /\ events \in Seq(BtEventTypes) /\ events' \in Seq(BtEventTypes)
      /\ DOMAIN events \subseteq Nat /\ DOMAIN events' \subseteq Nat
  BY <1>0 DEF BtTypes
<1>1. BtOut' BY DEF BtOut
<1>2. BtCtlInv' BY <1>0, <1>a, BtCtlFrame
<1>3. BtEventInv(events, links)'
  <2>1. BtEventInv(events', links) BY <1>0, <1>a, BtPopEvents
  <2> QED BY <2>1 DEF BtEventInv
<1>4. \A h : events[1] # Disc(h) BY DEF Disc, Event
<1>5. BtSlotInv'
  <2>1. \A p \in Slots : KeepsLink(p) BY <1>4 DEF KeepsLink, SameLink
  <2> QED BY <2>1, <1>0, <1>a, BtSlotFrame
<1>6. /\ \A h : AnnIn(events, h) => AnnIn(events', h)
      /\ \A h : AnnIn(events', h) => AnnIn(events, h)
      /\ \A h : FreshIn(events', h) => FreshIn(events, h)
      /\ \A i \in DOMAIN events' : events'[i].k = "complete" =>
             i + 1 \in DOMAIN events /\ events'[i] = events[i + 1]
  BY <1>4, <1>a, BtPopAnnounced
<1>7. ~crossed' => \A h : DoomIn(ctls', links', orders', h) <=> DoomIn(ctls, links, orders, h)
  BY DEF DoomIn
<1>8. BtLinkInv'
  <2> SUFFICES ASSUME ~crossed' PROVE BtLinkInv' BY DEF BtLinkInv
  <2>1. \A p \in Slots : HoldsOn(p) BY <1>6 DEF HoldsOn
  <2>2. BtEventInv(events', links') BY <1>3 DEF BtEventInv
  <2> QED BY <2>1, <2>2, <1>0, <1>5, <1>6, <1>7, BtLinkFrame
<1>9. BtResetInv'
  <2> SUFFICES ASSUME ~crossed' PROVE BtResetInv' BY DEF BtResetInv
  <2> DEFINE q == pads[call.pad]
             r == pads'[call.pad]
  <2>1. call.pad \in Slots BY <1>0 DEF BtTypes, BtTypeOK
  <2>2. r.handle = q.handle /\ r.addr = q.addr /\ r.status = q.status BY <2>1 DEF SameLink
  <2>3. \A x \in Tokens : x \in Kinds(packets, q.handle) => x \in Kinds(packets', q.handle) OBVIOUS
  <2>4. \A i \in DOMAIN events' : events'[i].k = "complete" => \E j \in DOMAIN events : events[j] = events'[i]
    BY <1>6
  <2>5. /\ AnnIn(events, q.handle) => AnnIn(events', q.handle)
        /\ DoomIn(ctls, links, orders, q.handle) => DoomIn(ctls', links', orders', q.handle)
    BY <1>6, <1>7
  <2> QED BY <2>2, <2>3, <2>4, <2>5, <1>0, BtResetFrame
<1> QED BY <1>1, <1>2, <1>3, <1>5, <1>8, <1>9 DEF BtInv

(* A command of the driver to the adapter is complete.                     *)
LEMMA BtCommandStep == ASSUME BtInv, CommandComplete PROVE BtInv'
<1> DEFINE Takes(k, a) == /\ HciEvent(k, a) /\ \A i \in DOMAIN a : Quiet(a[i])
                          /\ usb' = usb \/ usb' = "configured"
                          /\ left' = left \/ Spend("faults")
<1>0. BtTypes /\ left \in [calls : 0 .. MaxBtCalls, connects : 0 .. MaxBtConnects, faults : 0 .. MaxBtFaults]
  BY DEF BtInv, BtTypes, BtTypeOK
<1>1. UNCHANGED <<pads, orders, crossed, ctls, packets>> BY DEF CommandComplete, Silent, NoCommand
<1>2. \E k \in {"reset", "read", "scan"}, a \in Seq(BtEventTypes) : Takes(k, a)
  <2>1. ASSUME NEW x \in {"reset", "read", "scan"}
        PROVE  /\ <<Event(x, NoCtl, NoHandle)>> \in Seq(BtEventTypes)
               /\ \A i \in DOMAIN <<Event(x, NoCtl, NoHandle)>> : Quiet(<<Event(x, NoCtl, NoHandle)>>[i])
    <3> DEFINE e == Event(x, NoCtl, NoHandle)
    <3>1. e \in BtEventTypes /\ Quiet(e) BY DEF Event, BtEventTypes, Quiet
    <3> HIDE DEF e
    <3>2. DOMAIN <<e>> = {1} /\ <<e>>[1] = e OBVIOUS
    <3> QED BY <3>1, <3>2 DEF e
  <2>2. \A k \in DOMAIN AfterCommand : k \in {"reset", "read", "scan"}
                                       /\ AfterCommand[k] \in {"reset", "read", "scan"}
    BY DEF AfterCommand
  <2>3. ASSUME NEW k \in DOMAIN AfterCommand,
               HciEvent(k, <<Event(AfterCommand[k], NoCtl, NoHandle)>>), UNCHANGED <<usb, left>>
        PROVE  \E a \in Seq(BtEventTypes) : Takes(k, a)
    <3>1. AfterCommand[k] \in {"reset", "read", "scan"} BY <2>2
    <3>2. Takes(k, <<Event(AfterCommand[k], NoCtl, NoHandle)>>) BY <2>1, <2>3, <3>1
    <3> HIDE DEF Takes
    <3> QED BY <3>1, <3>2, <2>1
  <2>4. ASSUME HciEvent("scan", <<>>), usb' = "configured", UNCHANGED left
        PROVE  \E a \in Seq(BtEventTypes) : Takes("scan", a)
    <3>1. <<>> \in Seq(BtEventTypes) /\ DOMAIN <<>> = {} OBVIOUS
    <3>2. Takes("scan", <<>>) BY <3>1, <2>4
    <3> HIDE DEF Takes
    <3> QED BY <3>1, <3>2
  <2>5. ASSUME NEW k, HciEvent(k, <<Event("reset", NoCtl, NoHandle)>>), Spend("faults"), UNCHANGED usb
        PROVE  \E a \in Seq(BtEventTypes) : Takes(k, a)
    <3>2. Takes(k, <<Event("reset", NoCtl, NoHandle)>>) BY <2>1, <2>5
    <3> HIDE DEF Takes
    <3> QED BY <3>2, <2>1
  <2> HIDE DEF Takes
  <2>6. \/ \E k \in DOMAIN AfterCommand : /\ HciEvent(k, <<Event(AfterCommand[k], NoCtl, NoHandle)>>)
                                         /\ UNCHANGED <<usb, left>>
        \/ HciEvent("scan", <<>>) /\ usb' = "configured" /\ UNCHANGED left
        \/ \E k \in DOMAIN AfterCommand \cup {"scan"} :
             HciEvent(k, <<Event("reset", NoCtl, NoHandle)>>) /\ Spend("faults") /\ UNCHANGED usb
    BY DEF CommandComplete
  <2> QED BY <2>2, <2>3, <2>4, <2>5, <2>6
<1>3. PICK k \in {"reset", "read", "scan"}, a \in Seq(BtEventTypes) : Takes(k, a)
  BY <1>2
<1>4. /\ events' \in Seq(BtEventTypes) /\ Popped(events, events')
      /\ 1 \in DOMAIN events /\ events[1].k = k
      /\ usb \in {"set", "configured"} /\ UNCHANGED <<torn, call, links>>
  BY <1>0, <1>3, BtHciEvent
<1>5. left' \in [calls : 0 .. MaxBtCalls, connects : 0 .. MaxBtConnects, faults : 0 .. MaxBtFaults]
  BY <1>0, <1>3, BtSpend
<1>9. usb' \in {"set", "configured"} BY <1>3, <1>4
<1>6. BtTypes'
  <2>1. BtTypeOK' BY <1>0, <1>1, <1>4, <1>5, <1>9 DEF BtTypes, BtTypeOK
  <2> QED BY <2>1, <1>0, <1>1, <1>4 DEF BtTypes
<1>7. \A p \in Slots : SameLink(p) /\ pads'[p].addr = pads[p].addr /\ pads'[p].status = pads[p].status
  BY <1>1 DEF SameLink
<1>8. \A h \in BtHandles : ~DoomIn(ctls, links, orders, h) /\ links[h] \in BtCtls => KeepsAir(h)
  BY <1>1, <1>4 DEF KeepsAir
<1>10. events[1].k # "disc" /\ (~crossed' => ~crossed /\ orders' = orders) /\ \A o \in orders' : o \in orders
  BY <1>1, <1>3, <1>4
<1> QED BY <1>1, <1>4, <1>6, <1>7, <1>8, <1>9, <1>10, BtPopFrame

(* A request for the control channel that reaches a controller.            *)
LEMMA BtAsksControl ==
    ASSUME NEW m, Sent(m, m.handle), m.k = "connreq", m.chan = "control",
           NEW C \in [Channels -> Family], NEW K, NEW D, NEW M, HearsOne(m, C, K, D, M)
    PROVE  /\ \A q : HeldOk(q, C, K) => HeldOk(q, D, M)
           /\ FreshOk(C, K) => FreshOk(D, M)
           /\ \A x : x \in K => x \in M
<1>1. /\ D["control"] # 0 /\ D["interrupt"] = C["interrupt"]
  <2>1. D = [C EXCEPT !["control"] = m.dcid] /\ m.dcid # 0 BY DEF HearsOne, Sent
  <2> QED BY <2>1 DEF Channels
<1>2. \A x : x \in M <=> x \in K \/ x = <<"connrsp", "control">> BY DEF HearsOne
<1>3. \A ch \in Channels : /\ <<"cfgrsp", ch>> \in M <=> <<"cfgrsp", ch>> \in K
                           /\ <<"discrsp", ch>> \in M <=> <<"discrsp", ch>> \in K
  BY <1>2
<1>4. <<"connrsp", "interrupt">> \in M <=> <<"connrsp", "interrupt">> \in K BY <1>2
<1>5. "control" \in Channels /\ "interrupt" \in Channels BY DEF Channels
<1>6. OpenC(D, M) BY <1>1 DEF OpenC
<1>7. OpenI(C, K) => OpenI(D, M) BY <1>1, <1>3, <1>5 DEF OpenI
<1>8. ASSUME NEW q, HeldOk(q, C, K) PROVE HeldOk(q, D, M)
  <2>1. (\/ D["interrupt"] # 0
         \/ \E k \in {"connrsp", "cfgrsp", "discrsp"} : <<k, "interrupt">> \in M) => "control" \in q.scid
    BY <1>8, <1>1, <1>3, <1>4, <1>5 DEF HeldOk
  <2>2. (<<"connrsp", "interrupt">> \in M \/ <<"cfgrsp", "interrupt">> \in M) => OpenI(D, M)
    BY <1>8, <1>3, <1>4, <1>5, <1>7 DEF HeldOk
  <2>3. "running" \in q.status => Channels \subseteq q.scid /\ OpenI(D, M) BY <1>8, <1>7 DEF HeldOk
  <2>4. \A ch \in Channels : <<"cfgrsp", ch>> \in M => ch \in q.scid BY <1>8, <1>3 DEF HeldOk
  <2>5. (\E ch \in Channels : <<"discrsp", ch>> \in M) => Channels \subseteq q.scid BY <1>8, <1>3 DEF HeldOk
  <2> QED BY <2>1, <2>2, <2>3, <2>4, <2>5, <1>6 DEF HeldOk
<1>9. FreshOk(C, K) => FreshOk(D, M) BY <1>1, <1>2 DEF FreshOk
<1> QED BY <1>2, <1>8, <1>9

(* The name of a controller is known: its channels are opened.             *)
LEMMA BtNameStep == ASSUME BtInv, RemoteNameComplete PROVE BtInv'
<1> DEFINE c == Head(events).ctl
           i == First({p \in Slots : pads[p].addr = c})
           m == Packet(pads[i].handle, "connreq", "control", 70)
<1>0. BtTypes /\ BtCtlInv BY DEF BtInv
<1>a. pads \in [Slots -> PadTypes] BY <1>0 DEF BtTypes, BtTypeOK, PadTypes
<1>1. /\ HciEvent("name", <<>>) /\ usb' = usb
      /\ \/ i > BtPads /\ UNCHANGED pads /\ Silent
         \/ /\ ~(i > BtPads) /\ pads' = [pads EXCEPT ![i].type = "ds4", ![i].fake = FALSE]
            /\ Says(<<m>>) \/ Silent
         \/ ~(i > BtPads) /\ pads' = [pads EXCEPT ![i].type = "ds3"] /\ Silent
      /\ left' = left \/ Spend("faults")
      /\ NoCommand \/ Commands({})
  BY DEF RemoteNameComplete
<1>b. /\ \A o \in orders' : o \in orders
      /\ crossed' \in BOOLEAN
      /\ ~crossed' => ~crossed /\ orders' = orders
  <2>1. CASE NoCommand BY <2>1, <1>0 DEF NoCommand, BtTypes, BtTypeOK
  <2>2. CASE Commands({}) BY <2>2, <1>0, BtCommands
  <2> QED BY <2>1, <2>2, <1>1
<1>c. left' \in [calls : 0 .. MaxBtCalls, connects : 0 .. MaxBtConnects, faults : 0 .. MaxBtFaults]
  <2>1. CASE left' = left BY <2>1, <1>0 DEF BtTypes, BtTypeOK
  <2>2. CASE Spend("faults") BY <2>2, <1>0, BtSpend
  <2> QED BY <2>1, <2>2, <1>1
<1>2. <<>> \in Seq(BtEventTypes) /\ DOMAIN <<>> = {} OBVIOUS
<1>3. /\ events' \in Seq(BtEventTypes) /\ Popped(events, events')
      /\ 1 \in DOMAIN events /\ events[1].k = "name"
      /\ usb \in {"set", "configured"} /\ UNCHANGED <<torn, call, links>>
  BY <1>0, <1>1, <1>2, BtHciEvent
<1>4. ~(i > BtPads) => i \in Slots
  <2>1. {p \in Slots : pads[p].addr = c} \in SUBSET Slots OBVIOUS
  <2> QED BY <2>1, BtFirst
<1> HIDE DEF c, i
<1>5. /\ pads' \in [Slots -> PadTypes]
      /\ \A p \in Slots : SameLink(p) /\ pads'[p].addr = pads[p].addr /\ pads'[p].status = pads[p].status
  <2>1. CASE pads' = pads BY <2>1, <1>a DEF SameLink
  <2>2. CASE i \in Slots /\ pads' = [pads EXCEPT ![i].type = "ds4", ![i].fake = FALSE]
    <3> DEFINE q == [pads[i] EXCEPT !.type = "ds4", !.fake = FALSE]
    <3>1. pads' = [pads EXCEPT ![i] = q] BY <2>2, <1>a
    <3>2. pads[i] \in PadTypes BY <2>2, <1>a
    <3>3. /\ q \in PadTypes /\ q.addr = pads[i].addr /\ q.status = pads[i].status
          /\ q.handle = pads[i].handle /\ q.scid = pads[i].scid
      BY <3>2 DEF PadTypes
    <3> HIDE DEF q
    <3> QED BY <3>1, <3>3, <2>2, <1>a DEF SameLink
  <2>3. CASE i \in Slots /\ pads' = [pads EXCEPT ![i].type = "ds3"]
    <3> DEFINE q == [pads[i] EXCEPT !.type = "ds3"]
    <3>1. pads' = [pads EXCEPT ![i] = q] BY <2>3, <1>a
    <3>2. pads[i] \in PadTypes BY <2>3, <1>a
    <3>3. /\ q \in PadTypes /\ q.addr = pads[i].addr /\ q.status = pads[i].status
          /\ q.handle = pads[i].handle /\ q.scid = pads[i].scid
      BY <3>2 DEF PadTypes
    <3> HIDE DEF q
    <3> QED BY <3>1, <3>3, <2>3, <1>a DEF SameLink
  <2> QED BY <2>1, <2>2, <2>3, <1>1, <1>4
<1>6. /\ ctls' \in [BtCtls -> CtlTypes] /\ packets' \in Seq(BtPackets)
      /\ \A j \in DOMAIN packets' : packets'[j].k = "connreq" => packets'[j].chan = "control"
      /\ \A d \in BtCtls : ctls'[d].at = ctls[d].at
      /\ \A d \in BtCtls : (\A h \in BtHandles : links[h] # d) => ctls'[d].chan = ctls[d].chan
      /\ \A h \in BtHandles : ~DoomIn(ctls, links, orders, h) /\ links[h] \in BtCtls => KeepsAir(h)
      /\ \A h, x : x \in Kinds(packets, h) => x \in Kinds(packets', h)
  <2>a. /\ ctls \in [BtCtls -> CtlTypes] /\ packets \in Seq(BtPackets)
        /\ \A j \in DOMAIN packets : packets[j].k = "connreq" => packets[j].chan = "control"
    BY <1>0 DEF BtTypes, BtTypeOK, CtlTypes
  <2>1. CASE Silent
    <3>1. UNCHANGED <<ctls, packets>> BY <2>1 DEF Silent
    <3>2. \A h \in BtHandles : ~DoomIn(ctls, links, orders, h) /\ links[h] \in BtCtls => KeepsAir(h)
      BY <3>1, <1>3 DEF KeepsAir
    <3> QED BY <3>1, <3>2, <2>a
  <2>2. CASE i \in Slots /\ Says(<<m>>)
    <3> DEFINE g == pads[i].handle
               r == [ctls |-> ctls, packets |-> packets]
               t == [ctls |-> ctls', packets |-> packets']
               out == <<m>>
    <3>1. g \in BtHandles \cup {NoHandle} BY <2>2, <1>a DEF PadTypes
    <3>2. Sent(m, g) /\ m.handle = g /\ m.k = "connreq" /\ m.chan = "control"
      BY DEF Sent, Packet, Channels
    <3> HIDE DEF m
    <3>3. Arrives(packets, out) /\ Len(out) = 1 /\ out[1] = m BY <2>2 DEF Says
    <3>4. AirOk(t) /\ SameElsewhere(g, r, t)
      <4> HIDE DEF out, g, r, t
      <4>1. Len(out) \in 0 .. 3 /\ \A j \in 1 .. Len(out) : Sent(out[j], g) BY <3>2, <3>3
      <4> QED BY <3>1, <3>3, <4>1, <2>a, <1>0, BtArrivesFrame DEF r, t
    <3>5. AirOk(r) BY <2>a DEF AirOk
    <3>6. t = HearOne(r, m)
      <4>1. ctls' = HearOne(r, out[1]).ctls /\ packets' = HearOne(r, out[1]).packets
        <5> HIDE DEF out
        <5> QED BY <3>3, BtArrives
      <4>2. AirOk(HearOne(r, m))
        <5> HIDE DEF r, out, g
        <5> QED BY <3>1, <3>2, <3>5, <1>0, BtHearOne
      <4>3. HearOne(r, m) = [ctls |-> HearOne(r, m).ctls, packets |-> HearOne(r, m).packets]
        <5> HIDE DEF r
        <5> QED BY <4>2 DEF AirOk
      <4> QED BY <4>1, <4>3, <3>3
    <3>7. t.ctls = ctls' /\ t.packets = packets' /\ r.ctls = ctls /\ r.packets = packets OBVIOUS
    <3> HIDE DEF r, t, out, g
    <3>8. (g \in BtHandles /\ links[g] # NoCtl /\ ctls[links[g]].at # "leaving") =>
            HearsOne(m, ctls[links[g]].chan, Kinds(packets, g), ctls'[links[g]].chan, Kinds(packets', g))
      BY <3>1, <3>2, <3>5, <3>6, <3>7, <1>0, BtHearOne
    <3>b. NoCtl \notin BtCtls BY BtAssumption
    <3>9. ASSUME NEW h \in BtHandles, ~DoomIn(ctls, links, orders, h), links[h] \in BtCtls PROVE KeepsAir(h)
      <4>1. CASE h # g
        <5>1. g \notin BtHandles \/ links[h] # links[g] BY <4>1, <3>9, <3>b, <1>0 DEF BtCtlInv
        <5>2. ctls'[links[h]] = ctls[links[h]] BY <5>1, <3>4, <3>7, <3>9 DEF SameElsewhere
        <5>3. Kinds(packets', h) = Kinds(packets, h) BY <4>1, <3>4, <3>7 DEF SameElsewhere
        <5> QED BY <5>2, <5>3, <3>9, <1>3 DEF KeepsAir
      <4>2. CASE h = g
        <5>1. ctls[links[h]].at # "leaving" BY <3>9 DEF DoomIn
        <5>2. HearsOne(m, ctls[links[h]].chan, Kinds(packets, h), ctls'[links[h]].chan, Kinds(packets', h))
          BY <5>1, <4>2, <3>8, <3>9, <3>b
        <5>3. ctls[links[h]].chan \in [Channels -> Family] BY <2>a, <3>9 DEF CtlTypes
        <5>4. Sent(m, m.handle) BY <3>2
        <5>5. /\ \A q : HeldOk(q, ctls[links[h]].chan, Kinds(packets, h))
                          => HeldOk(q, ctls'[links[h]].chan, Kinds(packets', h))
              /\ FreshOk(ctls[links[h]].chan, Kinds(packets, h))
                   => FreshOk(ctls'[links[h]].chan, Kinds(packets', h))
          BY <5>2, <5>3, <5>4, <3>2, BtAsksControl
        <5> QED BY <5>5, <3>9, <1>3 DEF KeepsAir
      <4> QED BY <4>1, <4>2
    <3>10. \A h, x : x \in Kinds(packets, h) => x \in Kinds(packets', h)
      <4> SUFFICES ASSUME NEW h PROVE \A x : x \in Kinds(packets, h) => x \in Kinds(packets', h)
        OBVIOUS
      <4>1. CASE h # g BY <4>1, <3>4, <3>7 DEF SameElsewhere
      <4>2. CASE h = g /\ (g \notin BtHandles \/ links[g] = NoCtl) BY <4>2, <3>4, <3>7 DEF SameElsewhere
      <4>3. CASE h = g /\ g \in BtHandles /\ links[g] # NoCtl /\ ctls[links[g]].at = "leaving"
        <5>1. t = r BY <4>3, <3>2, <3>6 DEF HearOne
        <5> QED BY <5>1, <3>7
      <4>4. CASE h = g /\ g \in BtHandles /\ links[g] # NoCtl /\ ctls[links[g]].at # "leaving"
        BY <4>4, <3>2, <3>8 DEF HearsOne
      <4> QED BY <4>1, <4>2, <4>3, <4>4
    <3>11. \A d \in BtCtls : (\A h \in BtHandles : links[h] # d) => ctls'[d].chan = ctls[d].chan
      BY <3>4, <3>7 DEF SameElsewhere
    <3> QED BY <3>4, <3>7, <3>9, <3>10, <3>11 DEF AirOk
  <2> QED BY <2>1, <2>2, <1>1, <1>4
<1>7. BtTypes'
  <2>1. BtTypeOK' BY <1>0, <1>1, <1>3, <1>5, <1>6, <1>b, <1>c DEF BtTypes, BtTypeOK, CtlTypes, PadTypes
  <2>2. BtOrders(orders') BY <1>0, <1>b DEF BtTypes, BtOrders
  <2> QED BY <2>1, <2>2, <1>0, <1>3, <1>6 DEF BtTypes, BtOrders, Accept, Disconnect, Event
<1>8. events[1].k # "disc" /\ usb' \in {"set", "configured"} BY <1>1, <1>3
<1> QED BY <1>3, <1>5, <1>6, <1>7, <1>8, <1>b, BtPopFrame

(* The end of a link is heard of.                                          *)
LEMMA BtDisconnStep == ASSUME BtInv, DisconnComplete PROVE BtInv'
<1> DEFINE h == Head(events).handle
           i == First({p \in Slots : pads[p].handle = h})
<1>0. /\ BtTypes /\ BtOut /\ BtCtlInv /\ BtEventInv(events, links) /\ BtSlotInv /\ BtLinkInv
      /\ BtResetInv
  BY DEF BtInv
<1>a. pads \in [Slots -> PadTypes] BY <1>0 DEF BtTypes, BtTypeOK, PadTypes
<1>1. /\ HciEvent("disc", <<>>) /\ UNCHANGED <<usb, orders, crossed, left, ctls, packets>>
      /\ pads' = IF i > BtPads THEN pads ELSE [pads EXCEPT ![i] = ClearPad]
  BY DEF DisconnComplete, Silent, NoCommand
<1>2. <<>> \in Seq(BtEventTypes) /\ DOMAIN <<>> = {} OBVIOUS
<1>3. /\ events' \in Seq(BtEventTypes) /\ Popped(events, events')
      /\ 1 \in DOMAIN events /\ Head(events) = events[1] /\ events[1] \in BtEventTypes /\ events[1].k = "disc"
      /\ usb \in {"set", "configured"} /\ UNCHANGED <<torn, call, links>>
      /\ DOMAIN events \subseteq Nat /\ DOMAIN events' \subseteq Nat
  BY <1>0, <1>1, <1>2, BtHciEvent
<1>4. events[1] = Disc(h) /\ h \in BtHandles BY <1>3 DEF BtEventTypes, Disc, Event
<1>5. \/ i > BtPads /\ \A p \in Slots : pads[p].handle # h
      \/ ~(i > BtPads) /\ i \in Slots /\ pads[i].handle = h
  <2>1. {p \in Slots : pads[p].handle = h} \in SUBSET Slots OBVIOUS
  <2> HIDE DEF h
  <2> QED BY <2>1, BtFirst
<1>b. NoHandle \notin BtHandles BY BtAssumption
<1> HIDE DEF h, i
<1>6. \A p \in Slots : \/ pads'[p] = ClearPad
                       \/ pads'[p] = pads[p] /\ pads[p].handle # h
  <2>1. CASE i > BtPads /\ \A p \in Slots : pads[p].handle # h BY <2>1, <1>1
  <2>2. CASE ~(i > BtPads) /\ i \in Slots /\ pads[i].handle = h
    <3>1. \A p \in Slots : p # i => pads[p].handle # h
      BY <2>2, <1>0, <1>4, <1>b DEF BtSlotInv, OneSlotPerHandle
    <3> QED BY <3>1, <2>2, <1>1, <1>a
  <2> QED BY <2>1, <2>2, <1>5
<1>c. \A g : g # h => Disc(g) # Disc(h) BY DEF Disc, Event
<1>7. BtTypes'
  <2>1. pads' \in [Slots -> PadTypes] BY <1>1, <1>5, <1>a, BtClear
  <2>2. BtTypeOK' BY <2>1, <1>0, <1>1, <1>3 DEF BtTypes, BtTypeOK, PadTypes
  <2> QED BY <2>2, <1>0, <1>1, <1>3 DEF BtTypes
<1>8. BtOut' BY <1>1, <1>3 DEF BtOut
<1>9. BtCtlInv' BY <1>0, <1>1, <1>3, BtCtlFrame
<1>10. BtEventInv(events, links)'
  <2>1. BtEventInv(events', links) BY <1>0, <1>3, BtPopEvents
  <2> QED BY <2>1, <1>3 DEF BtEventInv
<1>11. BtSlotInv'
  <2>1. \A p \in Slots : KeepsLink(p) BY <1>4, <1>6, <1>c, BtClear DEF KeepsLink
  <2> QED BY <2>1, <1>0, <1>3, BtSlotFrame
<1>12. /\ \A g : g # h /\ AnnIn(events, g) => AnnIn(events', g)
       /\ \A g : FreshIn(events', g) => FreshIn(events, g)
       /\ \A j \in DOMAIN events' : events'[j].k = "complete" =>
             j + 1 \in DOMAIN events /\ events'[j] = events[j + 1]
  BY <1>3, <1>4, <1>c, BtPopAnnounced
<1>13. BtLinkInv'
  <2>1. \A p \in Slots : HoldsOn(p) BY <1>6, <1>12, BtClear DEF HoldsOn, SameLink
  <2>2. BtEventInv(events', links') BY <1>10 DEF BtEventInv
  <2>3. \A g \in BtHandles : ~DoomIn(ctls', links', orders', g) => KeepsAir(g)
    BY <1>1, <1>3 DEF KeepsAir, DoomIn
  <2> QED BY <2>1, <2>2, <2>3, <1>0, <1>1, <1>3, <1>7, <1>11, <1>12, BtLinkFrame
<1>14. BtResetInv'
  <2>1. call.pad \in Slots BY <1>0 DEF BtTypes, BtTypeOK
  <2>2. CASE pads'[call.pad] = ClearPad
    <3>1. ASSUME NEW j \in DOMAIN events', events'[j].k = "complete" PROVE events'[j].ctl # NoCtl
      <4>1. events'[j] \in BtEventTypes BY <1>3
      <4>2. NoCtl \notin BtCtls BY BtAssumption
      <4> QED BY <4>1, <4>2, <3>1 DEF BtEventTypes
    <3> QED BY <3>1, <2>2, <1>3, BtClear DEF BtResetInv
  <2>3. CASE pads'[call.pad] = pads[call.pad] /\ pads[call.pad].handle # h
    <3>1. \A j \in DOMAIN events' : events'[j].k = "complete" => \E n \in DOMAIN events : events[n] = events'[j]
      BY <1>12
    <3>2. AnnIn(events, pads[call.pad].handle) => AnnIn(events', pads[call.pad].handle) BY <2>3, <1>12
    <3> QED BY <3>1, <3>2, <2>3, <1>0, <1>1, <1>3, BtResetFrame
  <2> QED BY <2>1, <2>2, <2>3, <1>6
<1> QED BY <1>7, <1>8, <1>9, <1>10, <1>11, <1>13, <1>14 DEF BtInv

(* The beginning of a link is heard of.                                    *)
LEMMA BtConnectCompleteStep == ASSUME BtInv, ConnectComplete PROVE BtInv'
<1> DEFINE e == Head(events)
           c == e.ctl
           h == e.handle
           i == First({p \in Slots : pads[p].addr = c})
           a(named) == IF named THEN <<Event("name", c, NoHandle)>> ELSE <<>>
<1>0. /\ BtTypes /\ BtOut /\ BtCtlInv /\ BtEventInv(events, links) /\ BtSlotInv /\ BtLinkInv
      /\ BtResetInv
  BY DEF BtInv
<1>a. pads \in [Slots -> PadTypes] BY <1>0 DEF BtTypes, BtTypeOK, PadTypes
<1>b. NoHandle \notin BtHandles /\ NoCtl \notin BtCtls BY BtAssumption
<1>t. BtPads \in Nat BY BtAssumption
<1>s. PICK named \in BOOLEAN :
        /\ HciEvent("complete", a(named)) /\ UNCHANGED <<usb, ctls, packets>>
        /\ left' = left \/ Spend("faults")
        /\ \/ i > BtPads /\ pads' = pads /\ NoCommand
           \/ /\ ~(i > BtPads) /\ Commands({})
              /\ pads' = [pads EXCEPT ![i].handle = h, ![i].status = @ \cup {"connected"}]
  BY DEF ConnectComplete, Silent
<1>u. /\ \A o \in orders' : o \in orders
      /\ crossed' \in BOOLEAN
      /\ ~crossed' => ~crossed /\ orders' = orders
  <2>1. CASE NoCommand BY <2>1, <1>0 DEF NoCommand, BtTypes, BtTypeOK
  <2>2. CASE Commands({}) BY <2>2, <1>0, BtCommands
  <2> QED BY <2>1, <2>2, <1>s
<1>v. left' \in [calls : 0 .. MaxBtCalls, connects : 0 .. MaxBtConnects, faults : 0 .. MaxBtFaults]
  <2>1. CASE left' = left BY <2>1, <1>0 DEF BtTypes, BtTypeOK
  <2>2. CASE Spend("faults") BY <2>2, <1>0, BtSpend
  <2> QED BY <2>1, <2>2, <1>s
<1>w. BtOrders(orders') BY <1>0, <1>u DEF BtTypes, BtOrders
<1>1. /\ HciEvent("complete", a(named)) /\ UNCHANGED <<usb, ctls, packets>>
      /\ pads' = IF i > BtPads THEN pads
                ELSE [pads EXCEPT ![i].handle = h, ![i].status = @ \cup {"connected"}]
  BY <1>s
<1>2. e = events[1] /\ e \in BtEventTypes /\ e.k = "complete" /\ 1 \in DOMAIN events
  <2>1. events \in Seq(BtEventTypes) /\ events # <<>> /\ e.k = "complete" BY <1>0, <1>1 DEF BtTypes, HciEvent
  <2> QED BY <2>1
<1>3. c \in BtCtls /\ h \in BtHandles BY <1>2 DEF BtEventTypes
<1>4. a(named) \in Seq(BtEventTypes) /\ \A j \in DOMAIN a(named) : Quiet(a(named)[j])
  <2> DEFINE n == Event("name", c, NoHandle)
  <2> HIDE DEF c, i
  <2>1. n \in BtEventTypes /\ Quiet(n) BY <1>3 DEF Event, BtEventTypes, Quiet
  <2> HIDE DEF n
  <2>2. /\ <<n>> \in Seq(BtEventTypes) /\ DOMAIN <<n>> = {1} /\ <<n>>[1] = n
        /\ <<>> \in Seq(BtEventTypes) /\ DOMAIN <<>> = {}
    BY <2>1
  <2> QED BY <2>1, <2>2 DEF n
<1> HIDE DEF a
<1>5. /\ events' \in Seq(BtEventTypes) /\ Popped(events, events')
      /\ usb \in {"set", "configured"} /\ UNCHANGED <<torn, call, links>>
      /\ DOMAIN events \subseteq Nat /\ DOMAIN events' \subseteq Nat
  BY <1>0, <1>1, <1>4, BtHciEvent
<1>6. \/ i > BtPads
      \/ ~(i > BtPads) /\ i \in Slots /\ pads[i].addr = c
  <2>1. {p \in Slots : pads[p].addr = c} \in SUBSET Slots OBVIOUS
  <2> HIDE DEF c
  <2> QED BY <2>1, BtFirst
<1> HIDE DEF i, e, c, h
<1>7. \A g : events[1] # Disc(g) BY <1>2 DEF Disc, Event
<1>8. CASE i > BtPads
  <2>1. pads' = pads BY <1>1, <1>8
  <2>2. BtTypes'
    <3>1. BtTypeOK' BY <2>1, <1>0, <1>1, <1>5, <1>u, <1>v DEF BtTypes, BtTypeOK
    <3> QED BY <3>1, <1>0, <1>1, <1>5, <1>w DEF BtTypes, BtOrders, Accept, Disconnect, Event
  <2>3. \A p \in Slots : SameLink(p) /\ pads'[p].addr = pads[p].addr /\ pads'[p].status = pads[p].status
    BY <2>1 DEF SameLink
  <2>4. \A g \in BtHandles : ~DoomIn(ctls, links, orders, g) /\ links[g] \in BtCtls => KeepsAir(g)
    BY <1>1, <1>5 DEF KeepsAir
  <2>5. usb' \in {"set", "configured"} /\ events[1].k # "disc" BY <1>1, <1>2, <1>5
  <2>6. /\ \A d \in BtCtls : ctls'[d].at = ctls[d].at
        /\ \A d \in BtCtls : (\A g \in BtHandles : links[g] # d) => ctls'[d].chan = ctls[d].chan
        /\ \A g, x : x \in Kinds(packets, g) => x \in Kinds(packets', g)
    BY <1>1
  <2> QED BY <2>2, <2>3, <2>4, <2>5, <2>6, <1>2, <1>5, <1>u, BtPopFrame
<1>9. CASE ~(i > BtPads) /\ i \in Slots /\ pads[i].addr = c
  <2> DEFINE q == [pads[i] EXCEPT !.handle = h, !.status = @ \cup {"connected"}]
  <2>1. pads' = [pads EXCEPT ![i] = q] BY <1>1, <1>9, <1>a
  <2>2. /\ q \in PadTypes /\ q.addr = c /\ q.handle = h /\ q.status = pads[i].status \cup {"connected"}
        /\ q.scid = pads[i].scid
    <3>1. pads[i] \in PadTypes BY <1>9, <1>a
    <3>2. pads[i].status \cup {"connected"} \in SUBSET Flags BY <3>1 DEF PadTypes, Flags
    <3> QED BY <3>1, <3>2, <1>3, <1>9 DEF PadTypes
  <2> HIDE DEF q
  <2>3. pads'[i] = q /\ \A p \in Slots : p # i => pads'[p] = pads[p] BY <2>1, <1>9, <1>a
  \* No slot holds this handle, and this one is not connected.
  <2>4. /\ \A p \in Slots : pads[p].handle # h
        /\ i \notin torn => "connected" \notin pads[i].status
    <3>1. ASSUME NEW p \in Slots,
                 pads[p].handle = h \/ (p = i /\ "connected" \in pads[i].status /\ i \notin torn)
          PROVE  FALSE
      <4>1. pads[p].handle \in BtHandles BY <3>1, <1>0, <1>3, <1>9 DEF BtSlotInv
      <4>2. \E n \in DOMAIN events : n < 1 /\ events[n] = Disc(pads[p].handle)
        BY <3>1, <4>1, <1>0, <1>2, <1>9 DEF BtSlotInv, h, c
      <4>3. \A n \in DOMAIN events : n >= 1 BY <1>0 DEF BtTypes
      <4> QED BY <4>2, <4>3, <1>5
    <3> QED BY <3>1, <1>9
  <2>5. BtTypes'
    <3>1. pads' \in [Slots -> PadTypes] BY <2>1, <2>2, <1>a
    <3>2. BtTypeOK' BY <3>1, <1>0, <1>1, <1>5, <1>u, <1>v DEF BtTypes, BtTypeOK, PadTypes
    <3> QED BY <3>2, <1>0, <1>1, <1>5, <1>w DEF BtTypes, BtOrders, Accept, Disconnect, Event
  <2>6. BtOut' BY <1>1, <1>5 DEF BtOut
  <2>7. BtCtlInv' BY <1>0, <1>1, <1>5, <1>u, BtCtlFrame
  <2>8. BtEventInv(events', links')
    <3>1. BtEventInv(events', links) BY <1>0, <1>5, BtPopEvents
    <3> QED BY <3>1, <1>5
  <2>9. /\ \A j \in DOMAIN events' : events'[j].k = "complete" =>
              j + 1 \in DOMAIN events /\ events'[j] = events[j + 1]
        /\ \A n \in DOMAIN events : n = 1 \/ (n - 1 \in DOMAIN events' /\ events'[n - 1] = events[n])
        /\ \A g : AnnIn(events, g) => AnnIn(events', g)
        /\ \A g : FreshIn(events', g) => FreshIn(events, g)
    BY <1>5, <1>7, BtPopAnnounced DEF Popped
  <2>10. ASSUME ~AnnIn(events', h) PROVE links[h] = c /\ FreshIn(events, h)
    <3>1. \A n \in DOMAIN events : 1 < n => events[n] # Disc(h)
      BY <2>10, <2>9, <1>5 DEF AnnIn
    <3> QED BY <3>1, <1>0, <1>2 DEF BtEventInv, FreshIn, c, h
  <2>11. BtSlotInv'
    <3>1. ASSUME NEW p \in Slots, NEW j \in DOMAIN events', events'[j].k = "complete",
                 pads'[p].handle \in BtHandles,
                 \/ events'[j].handle = pads'[p].handle
                 \/ "connected" \in pads'[p].status /\ p \notin torn' /\ events'[j].ctl = pads'[p].addr
          PROVE  \E n \in DOMAIN events' : n < j /\ events'[n] = Disc(pads'[p].handle)
      <4>1. j + 1 \in DOMAIN events /\ events'[j] = events[j + 1] /\ j \in Nat /\ j >= 1
        BY <3>1, <2>9, <1>5
      <4>2. PICK n \in DOMAIN events : 1 < n /\ n < j + 1 /\ events[n] = Disc(pads'[p].handle)
        <5>1. CASE p = i
          <6>1. 1 < j + 1 /\ events[1].k = "complete" BY <4>1, <1>2
          <6>2. events[1].handle = events[j + 1].handle \/ events[1].ctl = events[j + 1].ctl
            BY <5>1, <4>1, <3>1, <2>2, <2>3, <1>2 DEF h, c
          <6>3. events[j + 1].k = "complete" BY <4>1, <3>1
          <6>4. \E n \in DOMAIN events : 1 < n /\ n < j + 1 /\ events[n] = Disc(events[1].handle)
            BY <6>1, <6>2, <6>3, <4>1, <1>0, <1>2 DEF BtEventInv
          <6> QED BY <6>4, <5>1, <2>2, <2>3, <1>2 DEF h
        <5>2. CASE p # i
          <6>1. pads'[p] = pads[p] BY <5>2, <2>3
          <6>2. PICK n \in DOMAIN events : n < j + 1 /\ events[n] = Disc(pads[p].handle)
            BY <6>1, <4>1, <3>1, <1>0, <1>5 DEF BtSlotInv
          <6>3. n # 1 /\ n \in Nat /\ n >= 1 BY <6>2, <1>0, <1>7 DEF BtTypes
          <6> QED BY <6>1, <6>2, <6>3
        <5> QED BY <5>1, <5>2
      <4>3. n # 1 /\ n - 1 < j BY <4>1, <4>2, <1>5
      <4> QED BY <4>2, <4>3, <2>9
    <3>2. OneSlotPerHandle'
      <4> SUFFICES ASSUME NEW p \in Slots, NEW r \in Slots, p # r, pads'[p].handle # NoHandle
                   PROVE  pads'[p].handle # pads'[r].handle
        BY DEF OneSlotPerHandle
      <4> QED BY <2>2, <2>3, <2>4, <1>0 DEF BtSlotInv, OneSlotPerHandle
    <3>3. ASSUME NEW p \in Slots, "connected" \in pads'[p].status, p \notin torn'
          PROVE  pads'[p].handle \in BtHandles
      BY <3>3, <2>2, <2>3, <1>0, <1>3, <1>5 DEF BtSlotInv
    <3>4. ASSUME NEW p \in Slots, pads'[p].handle \in BtHandles, ~AnnIn(events', pads'[p].handle)
          PROVE  /\ links'[pads'[p].handle] # NoCtl
                 /\ "connected" \in pads'[p].status /\ p \notin torn' => links'[pads'[p].handle] = pads'[p].addr
      <4>1. CASE p = i BY <4>1, <3>4, <2>2, <2>3, <2>10, <1>3, <1>5, <1>b
      <4>2. CASE p # i BY <4>2, <3>4, <2>3, <2>9, <1>0, <1>5 DEF BtSlotInv
      <4> QED BY <4>1, <4>2
    <3> QED BY <3>1, <3>2, <3>3, <3>4 DEF BtSlotInv
  <2>12. BtLinkInv'
    <3> SUFFICES ASSUME ~crossed' PROVE BtLinkInv' BY DEF BtLinkInv
    <3>0. ~crossed /\ orders' = orders /\ torn = {} BY <1>0, <1>u DEF BtLinkInv
    <3>1. ASSUME NEW p \in Slots PROVE HoldsOn(p)
      <4>1. CASE p # i BY <4>1, <2>3, <2>9 DEF HoldsOn, SameLink
      <4>2. CASE p = i
        <5>1. "connected" \in pads'[i].status BY <2>2, <2>3
        <5>2. ASSUME ~crossed, ~AnnIn(events', h), ~DoomIn(ctls', links', orders', h)
              PROVE  HeldOk(q, ctls[links[h]].chan, Kinds(packets, h))
          <6>1. FreshIn(events, h) /\ ~DoomIn(ctls, links, orders, h) BY <5>2, <3>0, <2>10, <1>1, <1>5
          <6>2. FreshOk(ctls[links[h]].chan, Kinds(packets, h)) BY <6>1, <5>2, <1>0, <1>3 DEF BtLinkInv
          <6>3. "running" \notin q.status BY <5>2, <3>0, <2>2, <2>4, <1>0, <1>9 DEF BtLinkInv
          <6> QED BY <6>2, <6>3 DEF FreshOk, HeldOk, OpenC, Channels
        <5> QED BY <5>1, <5>2, <4>2, <3>0, <2>2, <2>3, <1>1, <1>5 DEF HoldsOn
      <4> QED BY <4>1, <4>2
    <3>2. \A g \in BtHandles : ~DoomIn(ctls', links', orders', g) => KeepsAir(g)
      BY <3>0, <1>1, <1>5 DEF KeepsAir, DoomIn
    <3> QED BY <3>0, <3>1, <3>2, <2>5, <2>8, <2>9, <2>11, <1>0, <1>5, BtLinkFrame
  <2>13. BtResetInv'
    <3> SUFFICES ASSUME ~crossed' PROVE BtResetInv' BY DEF BtResetInv
    <3>0. ~crossed /\ orders' = orders /\ torn = {} BY <1>0, <1>u DEF BtLinkInv
    <3>1. call.pad \in Slots BY <1>0 DEF BtTypes, BtTypeOK
    <3>2. CASE call.pad = i
      <4>1. SUFFICES ASSUME ~crossed, call.op = "poll" PROVE "request" \in pads'[call.pad].status
        BY <3>0, <1>5 DEF BtResetInv
      <4>2. "running" \notin pads[i].status BY <4>1, <3>0, <2>4, <1>0, <1>9 DEF BtLinkInv
      <4>3. events[1].ctl = pads[i].addr BY <1>2, <1>9 DEF c
      <4>4. "request" \in pads[i].status BY <4>1, <4>2, <4>3, <3>2, <1>0, <1>2 DEF BtResetInv
      <4> QED BY <4>4, <3>2, <2>2, <2>3
    <3>3. CASE call.pad # i
      <4>1. \A j \in DOMAIN events' : events'[j].k = "complete" => \E n \in DOMAIN events : events[n] = events'[j]
        BY <2>9
      <4>2. pads'[call.pad] = pads[call.pad] BY <3>1, <3>3, <2>3
      <4> QED BY <4>1, <4>2, <3>0, <2>9, <1>0, <1>1, <1>5, BtResetFrame
    <3> QED BY <3>2, <3>3
  <2>14. BtEventInv(events, links)' BY <2>8 DEF BtEventInv
  <2> QED BY <2>5, <2>6, <2>7, <2>11, <2>12, <2>13, <2>14 DEF BtInv
<1> QED BY <1>6, <1>8, <1>9

(* A controller's request for a connection is heard of.                    *)
LEMMA BtConnectRequestStep == ASSUME BtInv, ConnectRequest PROVE BtInv'
<1> DEFINE c == Head(events).ctl
           i == First({p \in Slots : IsFree(p)})
<1>0. /\ BtTypes /\ BtOut /\ BtCtlInv /\ BtEventInv(events, links) /\ BtSlotInv /\ BtLinkInv
      /\ BtResetInv
  BY DEF BtInv
<1>a. pads \in [Slots -> PadTypes] BY <1>0 DEF BtTypes, BtTypeOK, PadTypes
<1>b. ctls \in [BtCtls -> CtlTypes] /\ links \in [BtHandles -> BtCtls \cup {NoCtl}]
  BY <1>0 DEF BtTypes, BtTypeOK, CtlTypes
<1>c. NoHandle \notin BtHandles /\ NoCtl \notin BtCtls BY BtAssumption
<1>1. /\ HciEvent("request", <<>>) /\ UNCHANGED <<usb, packets, left>>
      /\ \/ i > BtPads /\ ctls' = [ctls EXCEPT ![c].at = "off"] /\ UNCHANGED pads /\ Commands({})
         \/ /\ ~(i > BtPads)
            /\ \E cut \in {{}, {Disconnect(pads[i].handle)}} : Commands(cut \cup {Accept(c)})
            /\ pads' = Taken(i, c) /\ ctls' = ctls
  BY DEF ConnectRequest
<1>2. <<>> \in Seq(BtEventTypes) /\ DOMAIN <<>> = {} OBVIOUS
<1>3. /\ events' \in Seq(BtEventTypes) /\ Popped(events, events')
      /\ 1 \in DOMAIN events /\ Head(events) = events[1] /\ events[1] \in BtEventTypes
      /\ events[1].k = "request"
      /\ usb \in {"set", "configured"} /\ UNCHANGED <<torn, call, links>>
      /\ DOMAIN events \subseteq Nat /\ DOMAIN events' \subseteq Nat
  BY <1>0, <1>1, <1>2, BtHciEvent
<1>4. c \in BtCtls BY <1>3 DEF BtEventTypes
<1>5. ~(i > BtPads) => i \in Slots
  <2>1. {p \in Slots : IsFree(p)} \in SUBSET Slots OBVIOUS
  <2> QED BY <2>1, BtFirst
<1> HIDE DEF i
<1>6. /\ ctls[c].at = "asking" /\ Accept(c) \notin orders
      /\ \A h \in BtHandles : links[h] # c
      /\ \A j \in DOMAIN events' : events'[j].k = "request" =>
           j + 1 \in DOMAIN events /\ events'[j] = events[j + 1] /\ events'[j].ctl # c
  <2>1. ctls[c].at = "asking" /\ Accept(c) \notin orders BY <1>0, <1>3 DEF BtCtlInv
  <2>2. \A h \in BtHandles : links[h] # c BY <2>1, <1>0, <1>4, <1>c DEF BtCtlInv
  <2>3. ASSUME NEW j \in DOMAIN events', events'[j].k = "request"
        PROVE  j + 1 \in DOMAIN events /\ events'[j] = events[j + 1] /\ events'[j].ctl # c
    <3>1. j + 1 \in DOMAIN events /\ events'[j] = events[j + 1] BY <2>3, <1>3, BtPopAnnounced
    <3>2. j \in Nat /\ j >= 1 BY <1>3
    <3>3. j + 1 # 1 BY <3>2
    <3>4. events[j + 1].ctl # events[1].ctl BY <3>1, <3>3, <2>3, <1>0, <1>3 DEF BtCtlInv
    <3> QED BY <3>1, <3>4, <1>3
  <2> QED BY <2>1, <2>2, <2>3
<1>7. /\ \A j \in DOMAIN events' : events'[j].k = "complete" =>
            j + 1 \in DOMAIN events /\ events'[j] = events[j + 1] /\ events'[j].ctl # c
      /\ \A g : AnnIn(events, g) => AnnIn(events', g)
      /\ \A g : FreshIn(events', g) => FreshIn(events, g)
  <2>1. \A g : events[1] # Disc(g) BY <1>3 DEF Disc, Event
  <2>2. /\ \A j \in DOMAIN events' : events'[j].k = "complete" =>
              j + 1 \in DOMAIN events /\ events'[j] = events[j + 1]
        /\ \A g : AnnIn(events, g) => AnnIn(events', g)
        /\ \A g : FreshIn(events', g) => FreshIn(events, g)
    BY <2>1, <1>3, BtPopAnnounced
  <2>3. ASSUME NEW j \in DOMAIN events', events'[j].k = "complete" PROVE events'[j].ctl # c
    <3>1. j + 1 \in DOMAIN events /\ events'[j] = events[j + 1] BY <2>2, <2>3
    <3>2. j \in Nat /\ j >= 1 BY <1>3
    <3>3. 1 < j + 1 BY <3>2
    <3>4. events[1].ctl # events[j + 1].ctl BY <3>1, <3>3, <2>3, <1>0, <1>3 DEF BtEventInv
    <3> QED BY <3>1, <3>4, <1>3
  <2> QED BY <2>2, <2>3
<1> HIDE DEF c
<1>d. \E new : /\ Commands(new)
               /\ \A o \in new : \/ o = Accept(c) /\ ctls' = ctls
                                 \/ \E h \in BtHandles \cup {NoHandle} : o = Disconnect(h)
  <2>1. CASE Commands({}) BY <2>1
  <2>2. ASSUME i \in Slots, NEW cut \in {{}, {Disconnect(pads[i].handle)}}, ctls' = ctls,
               Commands(cut \cup {Accept(c)})
        PROVE  \A o \in cut \cup {Accept(c)} :
                  \/ o = Accept(c) /\ ctls' = ctls
                  \/ \E h \in BtHandles \cup {NoHandle} : o = Disconnect(h)
    <3>1. pads[i].handle \in BtHandles \cup {NoHandle} BY <2>2, <1>a DEF PadTypes
    <3> QED BY <3>1, <2>2
  <2> QED BY <2>1, <2>2, <1>1, <1>5
<1>e. PICK new : /\ Commands(new)
                 /\ \A o \in new : \/ o = Accept(c) /\ ctls' = ctls
                                   \/ \E h \in BtHandles \cup {NoHandle} : o = Disconnect(h)
  BY <1>d
<1>f. /\ \A o \in orders' : o \in orders \/ o \in new
      /\ crossed' \in BOOLEAN
      /\ ~crossed' => ~crossed /\ orders' = orders \cup new
  BY <1>0, <1>e, BtCommands
<1>8. /\ ctls' \in [BtCtls -> CtlTypes]
      /\ \A d \in BtCtls : ctls'[d].chan = ctls[d].chan /\ (d # c => ctls'[d].at = ctls[d].at)
  <2>1. CASE ctls' = ctls BY <2>1, <1>b
  <2>2. CASE ctls' = [ctls EXCEPT ![c].at = "off"]
    <3> DEFINE v == [ctls[c] EXCEPT !.at = "off"]
    <3>1. ctls' = [ctls EXCEPT ![c] = v] BY <2>2, <1>b, <1>4
    <3>2. v \in CtlTypes /\ v.chan = ctls[c].chan BY <1>b, <1>4 DEF CtlTypes
    <3> HIDE DEF v
    <3> QED BY <3>1, <3>2, <2>2, <1>b, <1>4
  <2> QED BY <2>1, <2>2, <1>1
<1>9. /\ ~crossed' => \A o \in orders : o \in orders'
      /\ \A d \in BtCtls : Accept(d) \in orders' => Accept(d) \in orders \/ (d = c /\ ctls' = ctls)
      /\ BtOrders(orders')
  <2>1. \A d, h : Accept(d) # Disconnect(h) BY DEF Accept, Disconnect, Event
  <2>2. \A d : Accept(d) = Accept(c) => d = c BY DEF Accept, Event
  <2>3. BtOrders(orders') BY <1>0, <1>4, <1>e, <1>f DEF BtTypes, BtOrders
  <2>4. \A d \in BtCtls : Accept(d) \in orders' => Accept(d) \in orders \/ (d = c /\ ctls' = ctls)
    BY <2>1, <2>2, <1>e, <1>f
  <2> QED BY <2>3, <2>4, <1>f
<1>10. /\ pads' \in [Slots -> PadTypes]
       /\ \A p \in Slots : \/ pads'[p] = pads[p]
                           \/ /\ pads'[p].addr = c /\ pads'[p].handle = pads[p].handle
                              /\ "connected" \notin pads'[p].status /\ "running" \notin pads'[p].status
                              /\ "request" \in pads[p].status => "request" \in pads'[p].status
  <2>1. CASE pads' = pads BY <2>1, <1>a
  <2>2. CASE i \in Slots /\ pads' = Taken(i, c)
    <3> DEFINE q == [pads[i] EXCEPT !.addr = c, !.fake = (c \in BtFake), !.status = @ \cap {"request"}]
    <3>1. pads[i] \in PadTypes BY <2>2, <1>a
    <3>2. pads' = [pads EXCEPT ![i] = q] BY <2>2, <1>a DEF Taken
    <3>3. /\ q \in PadTypes /\ q.addr = c /\ q.handle = pads[i].handle
          /\ q.status = pads[i].status \cap {"request"}
      <4>1. pads[i].status \cap {"request"} \in SUBSET Flags /\ (c \in BtFake) \in BOOLEAN
        BY <3>1 DEF PadTypes
      <4> QED BY <4>1, <3>1, <1>4 DEF PadTypes
    <3> HIDE DEF q
    <3>4. "connected" \notin q.status /\ "running" \notin q.status
          /\ ("request" \in pads[i].status => "request" \in q.status)
      BY <3>3
    <3> QED BY <3>2, <3>3, <3>4, <2>2, <1>a
  <2> QED BY <2>1, <2>2, <1>1, <1>5
<1>11. BtTypes'
  <2>1. BtTypeOK' BY <1>0, <1>1, <1>3, <1>8, <1>10, <1>f DEF BtTypes, BtTypeOK, CtlTypes, PadTypes
  <2> QED BY <2>1, <1>0, <1>1, <1>3, <1>9 DEF BtTypes, BtOrders, Accept, Disconnect, Event
<1>12. BtOut' BY <1>1, <1>3 DEF BtOut
<1>13. BtCtlInv'
  <2>1. \A h \in BtHandles : links'[h] # NoCtl => ctls'[links'[h]].at \in {"linked", "leaving"}
    BY <1>0, <1>3, <1>6, <1>8, <1>b DEF BtCtlInv
  <2>2. \A g, h \in BtHandles : links'[g] = links'[h] /\ links'[g] # NoCtl => g = h
    BY <1>0, <1>3 DEF BtCtlInv
  <2>3. ASSUME NEW d \in BtCtls, Accept(d) \in orders' PROVE ctls'[d].at = "asking"
    <3>1. CASE Accept(d) \in orders BY <3>1, <1>0, <1>6, <1>8 DEF BtCtlInv
    <3>2. CASE d = c /\ ctls' = ctls BY <3>2, <1>6
    <3> QED BY <3>1, <3>2, <2>3, <1>9
  <2>4. ASSUME NEW j \in DOMAIN events', events'[j].k = "request"
        PROVE  ctls'[events'[j].ctl].at = "asking" /\ Accept(events'[j].ctl) \notin orders'
    <3>1. j + 1 \in DOMAIN events /\ events'[j] = events[j + 1] /\ events'[j].ctl # c BY <2>4, <1>6
    <3>2. events'[j].ctl \in BtCtls
      <4>1. events'[j] \in BtEventTypes BY <1>3
      <4> QED BY <4>1, <2>4 DEF BtEventTypes
    <3>3. ctls[events'[j].ctl].at = "asking" /\ Accept(events'[j].ctl) \notin orders
      BY <3>1, <2>4, <1>0 DEF BtCtlInv
    <3> QED BY <3>1, <3>2, <3>3, <1>8, <1>9
  <2>5. ASSUME NEW j \in DOMAIN events', NEW n \in DOMAIN events', events'[j].k = "request",
               events'[n].k = "request", events'[j].ctl = events'[n].ctl
        PROVE  j = n
    <3>1. j + 1 \in DOMAIN events /\ events'[j] = events[j + 1] BY <2>5, <1>6
    <3>2. n + 1 \in DOMAIN events /\ events'[n] = events[n + 1] BY <2>5, <1>6
    <3>3. j + 1 = n + 1 BY <3>1, <3>2, <2>5, <1>0 DEF BtCtlInv
    <3> QED BY <3>3, <1>3
  <2>6. \A d \in BtCtls : (\A h \in BtHandles : links'[h] # d) => \A ch \in Channels : ctls'[d].chan[ch] = 0
    BY <1>0, <1>3, <1>8 DEF BtCtlInv
  <2> QED BY <2>1, <2>2, <2>3, <2>4, <2>5, <2>6 DEF BtCtlInv, Accept, Event
<1>14. BtEventInv(events', links')
  <2>1. BtEventInv(events', links) BY <1>0, <1>3, BtPopEvents
  <2> QED BY <2>1, <1>3
<1>15. BtSlotInv'
  <2>1. \A g : events[1] # Disc(g) BY <1>3 DEF Disc, Event
  <2>2. \A p \in Slots : KeepsLink(p) BY <2>1, <1>10 DEF KeepsLink
  <2> QED BY <2>2, <1>0, <1>3, BtSlotFrame
<1>16. ~crossed' => \A g : DoomIn(ctls, links, orders, g) => DoomIn(ctls', links', orders', g)
  BY <1>3, <1>6, <1>8, <1>9 DEF DoomIn
<1>17. BtLinkInv'
  <2> SUFFICES ASSUME ~crossed' PROVE BtLinkInv' BY DEF BtLinkInv
  <2>1. \A p \in Slots : HoldsOn(p) BY <1>7, <1>10 DEF HoldsOn, SameLink
  <2>2. ASSUME NEW g \in BtHandles, ~DoomIn(ctls', links', orders', g), links'[g] \in BtCtls
        PROVE  KeepsAir(g)
    BY <2>2, <1>1, <1>3, <1>8, <1>16 DEF KeepsAir
  <2> QED BY <2>1, <2>2, <1>0, <1>3, <1>7, <1>11, <1>14, <1>15, <1>f, BtLinkFrame
<1>18. BtResetInv'
  <2> SUFFICES ASSUME ~crossed' PROVE BtResetInv' BY DEF BtResetInv
  <2>1. call.pad \in Slots BY <1>0 DEF BtTypes, BtTypeOK
  <2>2. CASE pads'[call.pad] = pads[call.pad]
    <3>1. \A j \in DOMAIN events' : events'[j].k = "complete" => \E n \in DOMAIN events : events[n] = events'[j]
      BY <1>7
    <3> QED BY <3>1, <2>2, <1>0, <1>1, <1>3, <1>7, <1>16, <1>f, BtResetFrame
  <2>3. CASE /\ pads'[call.pad].addr = c
             /\ "connected" \notin pads'[call.pad].status /\ "running" \notin pads'[call.pad].status
    BY <2>3, <1>3, <1>7 DEF BtResetInv
  <2> QED BY <2>1, <2>2, <2>3, <1>10
<1>19. BtEventInv(events, links)' BY <1>14 DEF BtEventInv
<1> QED BY <1>11, <1>12, <1>13, <1>15, <1>17, <1>18, <1>19 DEF BtInv

(* What is on its way after an event was added.                            *)
LEMMA BtAppendFrame ==
    ASSUME NEW s \in Seq(BtEventTypes), NEW t, NEW e, Appended(s, t, e)
    PROVE  /\ \A g : AnnIn(s, g) => AnnIn(t, g)
           /\ \A g : e = Disc(g) => AnnIn(t, g) /\ ~FreshIn(t, g)
           /\ \A g : FreshIn(t, g) => FreshIn(s, g) \/ (e.k = "complete" /\ e.handle = g)
           /\ \A i \in DOMAIN t : t[i].k = "complete" /\ e.k # "complete" => \E j \in DOMAIN s : s[j] = t[i]
<1> DEFINE m == Len(s) + 1
<1>0. DOMAIN s \subseteq Nat /\ m \in Nat OBVIOUS
<1>1. DOMAIN t = DOMAIN s \cup {m} /\ t[m] = e /\ \A i \in DOMAIN s : t[i] = s[i] /\ i < m
  BY DEF Appended
<1> HIDE DEF m
<1>2. \A g : AnnIn(s, g) => AnnIn(t, g) BY <1>1 DEF AnnIn
<1>c. \A g : Disc(g).k = "disc" BY DEF Disc, Event
<1>3. ASSUME NEW g, e = Disc(g) PROVE AnnIn(t, g) /\ ~FreshIn(t, g)
  BY <1>1, <1>3, <1>c DEF AnnIn, FreshIn
<1>4. ASSUME NEW g, FreshIn(t, g) PROVE FreshIn(s, g) \/ (e.k = "complete" /\ e.handle = g)
  BY <1>1, <1>4 DEF FreshIn
<1>5. \A i \in DOMAIN t : t[i].k = "complete" /\ e.k # "complete" => \E j \in DOMAIN s : s[j] = t[i]
  BY <1>1
<1> QED BY <1>2, <1>3, <1>4, <1>5

(* A link ends.                                                            *)
LEMMA BtCutStep ==
    ASSUME BtInv, NEW h \in BtHandles, links[h] # NoCtl, Cut(h),
           UNCHANGED <<crossed, torn, pads, usb, call, packets>>,
           \A o \in orders' : o \in orders,
           \A g : Disconnect(g) \in orders /\ g # h => Disconnect(g) \in orders',
           left' \in [calls : 0 .. MaxBtCalls, connects : 0 .. MaxBtConnects, faults : 0 .. MaxBtFaults]
    PROVE  BtInv'
<1> DEFINE c == links[h]
<1>0. /\ BtTypes /\ BtOut /\ BtCtlInv /\ BtEventInv(events, links) /\ BtSlotInv /\ BtLinkInv
      /\ BtResetInv
  BY DEF BtInv
<1>b. /\ ctls \in [BtCtls -> CtlTypes] /\ links \in [BtHandles -> BtCtls \cup {NoCtl}]
      /\ events \in Seq(BtEventTypes)
  BY <1>0 DEF BtTypes, BtTypeOK, CtlTypes
<1>c. NoHandle \notin BtHandles /\ NoCtl \notin BtCtls BY BtAssumption
<1>1. /\ links' = [links EXCEPT ![h] = NoCtl] /\ ctls' = [ctls EXCEPT ![c] = OffCtl]
      /\ events' = Append(events, Disc(h))
  BY DEF Cut, Disc
<1>2. c \in BtCtls BY <1>b
<1>3. Disc(h) \in BtEventTypes /\ Disc(h).k = "disc" BY DEF Disc, Event, BtEventTypes
<1>4. events' \in Seq(BtEventTypes) /\ Appended(events, events', Disc(h)) BY <1>1, <1>3, <1>b, BtAppendOf
<1> HIDE DEF c
<1>5. /\ ctls' \in [BtCtls -> CtlTypes] /\ ctls'[c] = OffCtl /\ \A d \in BtCtls : d # c => ctls'[d] = ctls[d]
      /\ links' \in [BtHandles -> BtCtls \cup {NoCtl}]
      /\ links'[h] = NoCtl /\ \A g \in BtHandles : g # h => links'[g] = links[g]
  BY <1>1, <1>2, <1>b, BtClear
<1>6. \A g \in BtHandles : g # h => links[g] # c BY <1>0, <1>2, <1>c DEF BtCtlInv, c
<1>7. ctls[c].at \in {"linked", "leaving"} BY <1>0 DEF BtCtlInv, c
<1>8. BtTypes'
  <2>1. BtTypeOK' BY <1>0, <1>5 DEF BtTypes, BtTypeOK, CtlTypes
  <2>2. BtOrders(orders') BY <1>0 DEF BtTypes, BtOrders
  <2> QED BY <2>1, <2>2, <1>0, <1>4 DEF BtTypes, BtOrders, Accept, Disconnect, Event
<1>9. BtOut' BY <1>0 DEF BtOut
<1>10. BtCtlInv'
  <2>1. \A g \in BtHandles : links'[g] # NoCtl => ctls'[links'[g]].at \in {"linked", "leaving"}
    BY <1>0, <1>5, <1>6, <1>b DEF BtCtlInv
  <2>2. \A f, g \in BtHandles : links'[f] = links'[g] /\ links'[f] # NoCtl => f = g
    BY <1>0, <1>5 DEF BtCtlInv
  <2>3. ASSUME NEW d \in BtCtls, Accept(d) \in orders' PROVE ctls'[d].at = "asking"
    <3>1. ctls[d].at = "asking" BY <2>3, <1>0 DEF BtCtlInv
    <3> QED BY <3>1, <1>5, <1>7
  <2>a. \A i \in DOMAIN events' : events'[i].k = "request" => i \in DOMAIN events /\ events'[i] = events[i]
    BY <1>3, <1>4 DEF Appended
  <2>4. ASSUME NEW j \in DOMAIN events', events'[j].k = "request"
        PROVE  ctls'[events'[j].ctl].at = "asking" /\ Accept(events'[j].ctl) \notin orders'
    <3>1. j \in DOMAIN events /\ events'[j] = events[j] BY <2>4, <2>a
    <3>2. events'[j].ctl \in BtCtls
      <4>1. events'[j] \in BtEventTypes BY <1>4
      <4> QED BY <4>1, <2>4 DEF BtEventTypes
    <3>3. ctls[events'[j].ctl].at = "asking" /\ Accept(events'[j].ctl) \notin orders
      BY <3>1, <2>4, <1>0 DEF BtCtlInv
    <3> QED BY <3>1, <3>2, <3>3, <1>5, <1>7
  <2>5. ASSUME NEW j \in DOMAIN events', NEW n \in DOMAIN events', events'[j].k = "request",
               events'[n].k = "request", events'[j].ctl = events'[n].ctl
        PROVE  j = n
    BY <2>5, <2>a, <1>0 DEF BtCtlInv
  <2>6. ASSUME NEW d \in BtCtls, \A g \in BtHandles : links'[g] # d
        PROVE  \A ch \in Channels : ctls'[d].chan[ch] = 0
    <3>1. CASE d = c BY <3>1, <1>5, BtClear
    <3>2. CASE d # c
      <4>1. \A g \in BtHandles : links[g] # d BY <3>2, <2>6, <1>5 DEF c
      <4> QED BY <4>1, <3>2, <1>0, <1>5 DEF BtCtlInv
    <3> QED BY <3>1, <3>2
  <2> QED BY <2>1, <2>2, <2>3, <2>4, <2>5, <2>6 DEF BtCtlInv, Accept, Event
<1>11. BtEventInv(events', links') BY <1>0, <1>1, <1>4, <1>5, <1>b, BtAppendEvents
<1>12. BtSlotInv' BY <1>0, <1>1, <1>4, BtSlotAppend
<1>13. /\ \A g : AnnIn(events, g) => AnnIn(events', g)
       /\ AnnIn(events', h) /\ ~FreshIn(events', h)
       /\ \A g : FreshIn(events', g) => FreshIn(events, g)
       /\ \A i \in DOMAIN events' : events'[i].k = "complete" => \E j \in DOMAIN events : events[j] = events'[i]
  BY <1>3, <1>4, <1>b, BtAppendFrame
<1>14. ASSUME NEW g \in BtHandles, g # h
       PROVE  DoomIn(ctls', links', orders', g) <=> DoomIn(ctls, links, orders, g)
  <2>1. links'[g] = links[g] /\ links[g] # c BY <1>5, <1>6, <1>14
  <2>2. Disconnect(g) \in orders' <=> Disconnect(g) \in orders BY <1>14
  <2> QED BY <2>1, <2>2, <1>5 DEF DoomIn
<1>15. BtLinkInv'
  <2>1. \A p \in Slots : HoldsOn(p) BY <1>13 DEF HoldsOn, SameLink
  <2>2. ASSUME NEW g \in BtHandles, ~DoomIn(ctls', links', orders', g), links'[g] \in BtCtls
        PROVE  KeepsAir(g)
    <3>1. g # h BY <2>2, <1>5, <1>c
    <3>2. ~DoomIn(ctls, links, orders, g) /\ ctls'[links'[g]] = ctls[links[g]]
      BY <3>1, <2>2, <1>5, <1>6, <1>14
    <3> QED BY <3>2 DEF KeepsAir
  <2> QED BY <2>1, <2>2, <1>0, <1>8, <1>11, <1>12, <1>13, BtLinkFrame
<1>16. BtResetInv'
  <2> DEFINE q == pads[call.pad]
  <2>1. call.pad \in Slots BY <1>0 DEF BtTypes, BtTypeOK
  <2>2. ASSUME ~crossed, "running" \in q.status
        PROVE  DoomIn(ctls, links, orders, q.handle) =>
                 DoomIn(ctls', links', orders', q.handle) \/ AnnIn(events', q.handle)
    <3>1. q.handle \in BtHandles BY <2>1, <2>2, <1>0 DEF BtLinkInv, BtSlotInv
    <3> HIDE DEF q
    <3> QED BY <3>1, <1>13, <1>14
  <2> QED BY <2>2, <1>0, <1>13, BtResetFrame
<1>17. BtEventInv(events, links)' BY <1>11 DEF BtEventInv
<1> QED BY <1>8, <1>9, <1>10, <1>12, <1>15, <1>16, <1>17 DEF BtInv

(* A link ends because its controller was switched off.                    *)
LEMMA BtGoneStep == ASSUME BtInv, CtlIsGone PROVE BtInv'
<1>1. PICK h \in BtHandles : links[h] # NoCtl /\ Cut(h) BY DEF CtlIsGone
<1>2. UNCHANGED <<crossed, torn, pads, usb, call, packets, orders, left>> BY DEF CtlIsGone, btMarks
<1>3. left' \in [calls : 0 .. MaxBtCalls, connects : 0 .. MaxBtConnects, faults : 0 .. MaxBtFaults]
  BY <1>2 DEF BtInv, BtTypes, BtTypeOK
<1> QED BY <1>1, <1>2, <1>3, BtCutStep

(* A link ends because its controller is out of reach.                     *)
LEMMA BtLostStep == ASSUME BtInv, LinkLost PROVE BtInv'
<1>1. PICK h \in BtHandles : links[h] # NoCtl /\ Cut(h) BY DEF LinkLost
<1>2. UNCHANGED <<crossed, torn, pads, usb, call, packets, orders>> /\ Spend("faults")
  BY DEF LinkLost, btMarks
<1>3. left' \in [calls : 0 .. MaxBtCalls, connects : 0 .. MaxBtConnects, faults : 0 .. MaxBtFaults]
  BY <1>2, BtSpend DEF BtInv
<1> QED BY <1>1, <1>2, <1>3, BtCutStep

(* A link ends because the driver told the adapter so.                     *)
LEMMA BtAdapterDisconnectsStep ==
    ASSUME BtInv, NEW h \in BtHandles \cup {NoHandle}, AdapterDisconnects(h) PROVE BtInv'
<1>1. /\ orders' = orders \ {Disconnect(h)} /\ UNCHANGED <<crossed, torn, pads, usb, call, packets, left>>
      /\ Disconnect(h) \in orders
  BY DEF AdapterDisconnects, Order, btMarks
<1>2. /\ \A o \in orders' : o \in orders
      /\ \A g : Disconnect(g) \in orders /\ g # h => Disconnect(g) \in orders'
      /\ \A d : Accept(d) \in orders <=> Accept(d) \in orders'
  <2>1. \A g : Disconnect(g) = Disconnect(h) => g = h BY DEF Disconnect, Event
  <2>2. \A d : Accept(d) # Disconnect(h) BY DEF Accept, Disconnect, Event
  <2> QED BY <2>1, <2>2, <1>1
<1>3. CASE h \in BtHandles /\ links[h] # NoCtl
  <2>1. Cut(h) BY <1>3 DEF AdapterDisconnects
  <2>2. left' \in [calls : 0 .. MaxBtCalls, connects : 0 .. MaxBtConnects, faults : 0 .. MaxBtFaults]
    BY <1>1 DEF BtInv, BtTypes, BtTypeOK
  <2> QED BY <2>1, <2>2, <1>1, <1>2, <1>3, BtCutStep
<1>4. CASE ~(h \in BtHandles /\ links[h] # NoCtl)
  <2>0. /\ BtTypes /\ BtOut /\ BtCtlInv /\ BtEventInv(events, links) /\ BtSlotInv /\ BtLinkInv
        /\ BtResetInv /\ events \in Seq(BtEventTypes)
    BY DEF BtInv, BtTypes
  <2>1. UNCHANGED <<links, ctls, events>> BY <1>4 DEF AdapterDisconnects, btAir
  <2>2. BtTypes'
    <3>1. BtTypeOK' BY <2>0, <2>1, <1>1 DEF BtTypes, BtTypeOK
    <3>2. BtOrders(orders') BY <1>2, <2>0 DEF BtTypes, BtOrders
    <3> QED BY <3>1, <3>2, <2>0, <2>1, <1>1 DEF BtTypes, BtOrders, Accept, Disconnect, Event
  <2>3. BtOut' BY <2>0, <2>1, <1>1 DEF BtOut
  <2>4. BtCtlInv' BY <2>0, <2>1, <1>2, BtCtlFrame
  <2>5. BtEventInv(events, links)' /\ BtEventInv(events', links') BY <2>0, <2>1 DEF BtEventInv
  <2>6. \A p \in Slots : KeepsLink(p) BY <2>1, <1>1 DEF KeepsLink
  <2>7. BtSlotInv' BY <2>0, <2>1, <2>6, <1>1, BtSlotFrame
  <2>c. NoCtl \notin BtCtls BY BtAssumption
  <2>8. \A g : g # h => (DoomIn(ctls, links, orders, g) <=> DoomIn(ctls', links', orders', g))
    BY <2>1, <1>2 DEF DoomIn
  <2>9. BtLinkInv'
    <3>1. \A p \in Slots : HoldsOn(p) BY <2>1, <1>1 DEF HoldsOn, SameLink
    <3>2. ASSUME NEW g \in BtHandles, ~DoomIn(ctls', links', orders', g), links'[g] \in BtCtls
          PROVE  KeepsAir(g)
      <4>1. g # h BY <3>2, <2>1, <2>c, <1>4
      <4> QED BY <4>1, <3>2, <2>1, <2>8, <1>1 DEF KeepsAir
    <3> QED BY <3>1, <3>2, <2>0, <2>1, <2>2, <2>5, <2>7, <1>1, BtLinkFrame
  <2>10. BtResetInv'
    <3> DEFINE q == pads[call.pad]
    <3>1. call.pad \in Slots BY <2>0 DEF BtTypes, BtTypeOK
    <3>2. ASSUME ~crossed, "running" \in q.status
          PROVE  DoomIn(ctls, links, orders, q.handle) =>
                   DoomIn(ctls', links', orders', q.handle) \/ AnnIn(events', q.handle)
      <4>0. q.handle \in BtHandles BY <3>1, <3>2, <2>0 DEF BtLinkInv, BtSlotInv
      <4>1. CASE q.handle = h BY <4>0, <4>1, <3>1, <2>0, <2>1, <1>4 DEF BtSlotInv
      <4>2. CASE q.handle # h BY <4>2, <2>8
      <4> QED BY <4>1, <4>2
    <3> QED BY <3>2, <2>0, <2>1, <1>1, BtResetFrame
  <2> QED BY <2>2, <2>3, <2>4, <2>5, <2>7, <2>9, <2>10 DEF BtInv
<1> QED BY <1>3, <1>4

(* A controller changes its state and nothing of its channels.             *)
LEMMA BtCtlAt ==
    ASSUME ctls \in [BtCtls -> CtlTypes], NEW c \in BtCtls,
           NEW a \in {"off", "asking", "linked", "leaving"}, ctls' = [ctls EXCEPT ![c].at = a]
    PROVE  /\ ctls' \in [BtCtls -> CtlTypes] /\ ctls'[c].at = a
           /\ \A d \in BtCtls : ctls'[d].chan = ctls[d].chan /\ (d # c => ctls'[d].at = ctls[d].at)
<1> DEFINE v == [ctls[c] EXCEPT !.at = a]
<1>1. ctls' = [ctls EXCEPT ![c] = v] OBVIOUS
<1>2. v \in CtlTypes /\ v.chan = ctls[c].chan /\ v.at = a BY DEF CtlTypes
<1> HIDE DEF v
<1> QED BY <1>1, <1>2

(* A controller asks for a connection.                                     *)
LEMMA BtAsksStep == ASSUME BtInv, CtlAsks PROVE BtInv'
<1>1. PICK c \in BtCtls : /\ ctls[c].at = "off" /\ ctls' = [ctls EXCEPT ![c].at = "asking"]
                          /\ events' = Append(events, Event("request", c, NoHandle))
  BY DEF CtlAsks
<1>2. UNCHANGED <<crossed, torn, pads, usb, call, packets, orders, links>> /\ usb = "configured" /\ Spend("connects")
  BY DEF CtlAsks, btMarks
<1> DEFINE e == Event("request", c, NoHandle)
<1>0. /\ BtTypes /\ BtOut /\ BtCtlInv /\ BtEventInv(events, links) /\ BtSlotInv /\ BtLinkInv
      /\ BtResetInv
  BY DEF BtInv
<1>b. /\ ctls \in [BtCtls -> CtlTypes] /\ links \in [BtHandles -> BtCtls \cup {NoCtl}]
      /\ events \in Seq(BtEventTypes)
  BY <1>0 DEF BtTypes, BtTypeOK, CtlTypes
<1>c. NoHandle \notin BtHandles /\ NoCtl \notin BtCtls BY BtAssumption
<1>3. e \in BtEventTypes /\ e.k = "request" /\ e.ctl = c BY DEF Event, BtEventTypes
<1>4. events' \in Seq(BtEventTypes) /\ Appended(events, events', e) BY <1>1, <1>3, <1>b, BtAppendOf
<1> HIDE DEF e
<1>5. /\ ctls' \in [BtCtls -> CtlTypes] /\ ctls'[c].at = "asking"
      /\ \A d \in BtCtls : ctls'[d].chan = ctls[d].chan /\ (d # c => ctls'[d].at = ctls[d].at)
  BY <1>1, <1>b, BtCtlAt
<1>6. /\ \A h \in BtHandles : links[h] # c
      /\ Accept(c) \notin orders
      /\ \A i \in DOMAIN events : events[i].k = "request" => events[i].ctl # c
  BY <1>0, <1>1, <1>c DEF BtCtlInv
<1>7. left' \in [calls : 0 .. MaxBtCalls, connects : 0 .. MaxBtConnects, faults : 0 .. MaxBtFaults]
  BY <1>0, <1>2, BtSpend
<1>8. BtTypes'
  <2>1. BtTypeOK' BY <1>0, <1>2, <1>5, <1>7 DEF BtTypes, BtTypeOK, CtlTypes
  <2> QED BY <2>1, <1>0, <1>2, <1>4 DEF BtTypes, BtOrders, Accept, Disconnect, Event
<1>9. BtOut' BY <1>2 DEF BtOut
<1>10. BtCtlInv'
  <2>1. \A g \in BtHandles : links'[g] # NoCtl => ctls'[links'[g]].at \in {"linked", "leaving"}
    BY <1>0, <1>2, <1>5, <1>6, <1>b DEF BtCtlInv
  <2>2. \A f, g \in BtHandles : links'[f] = links'[g] /\ links'[f] # NoCtl => f = g
    BY <1>0, <1>2 DEF BtCtlInv
  <2>3. ASSUME NEW d \in BtCtls, Accept(d) \in orders' PROVE ctls'[d].at = "asking"
    BY <2>3, <1>0, <1>2, <1>5 DEF BtCtlInv
  <2>a. \A i \in DOMAIN events' : events'[i].k = "request" =>
           \/ i \in DOMAIN events /\ events'[i] = events[i]
           \/ i = Len(events) + 1 /\ events'[i].ctl = c
    BY <1>3, <1>4 DEF Appended
  <2>4. ASSUME NEW j \in DOMAIN events', events'[j].k = "request"
        PROVE  ctls'[events'[j].ctl].at = "asking" /\ Accept(events'[j].ctl) \notin orders'
    <3>1. CASE events'[j].ctl = c BY <3>1, <1>2, <1>5, <1>6
    <3>2. CASE events'[j].ctl # c
      <4>1. j \in DOMAIN events /\ events'[j] = events[j] BY <3>2, <2>4, <2>a
      <4>2. events'[j].ctl \in BtCtls
        <5>1. events'[j] \in BtEventTypes BY <1>4
        <5> QED BY <5>1, <2>4 DEF BtEventTypes
      <4> QED BY <4>1, <4>2, <3>2, <2>4, <1>0, <1>2, <1>5 DEF BtCtlInv
    <3> QED BY <3>1, <3>2
  <2>5. ASSUME NEW j \in DOMAIN events', NEW n \in DOMAIN events', events'[j].k = "request",
               events'[n].k = "request", events'[j].ctl = events'[n].ctl
        PROVE  j = n
    BY <2>5, <2>a, <1>0, <1>6 DEF BtCtlInv
  <2>6. \A d \in BtCtls : (\A h \in BtHandles : links'[h] # d) => \A ch \in Channels : ctls'[d].chan[ch] = 0
    BY <1>0, <1>2, <1>5 DEF BtCtlInv
  <2> QED BY <2>1, <2>2, <2>3, <2>4, <2>5, <2>6 DEF BtCtlInv, Accept, Event
<1>11. BtEventInv(events', links') BY <1>0, <1>2, <1>3, <1>4, <1>b, BtAppendEvents
<1>12. BtSlotInv' BY <1>0, <1>2, <1>3, <1>4, BtSlotAppend
<1>13. /\ \A g : AnnIn(events, g) => AnnIn(events', g)
       /\ \A g : FreshIn(events', g) => FreshIn(events, g)
       /\ \A i \in DOMAIN events' : events'[i].k = "complete" => \E j \in DOMAIN events : events[j] = events'[i]
  BY <1>3, <1>4, <1>b, BtAppendFrame
<1>14. \A g \in BtHandles : DoomIn(ctls', links', orders', g) <=> DoomIn(ctls, links, orders, g)
  BY <1>2, <1>5, <1>6 DEF DoomIn
<1>15. BtLinkInv'
  <2>1. \A p \in Slots : HoldsOn(p) BY <1>2, <1>13 DEF HoldsOn, SameLink
  <2>2. ASSUME NEW g \in BtHandles, ~DoomIn(ctls', links', orders', g), links'[g] \in BtCtls
        PROVE  KeepsAir(g)
    BY <2>2, <1>2, <1>5, <1>14 DEF KeepsAir
  <2> QED BY <2>1, <2>2, <1>0, <1>2, <1>8, <1>11, <1>12, <1>13, BtLinkFrame
<1>16. BtResetInv'
  <2> DEFINE q == pads[call.pad]
  <2>1. call.pad \in Slots BY <1>0 DEF BtTypes, BtTypeOK
  <2>2. ASSUME ~crossed, "running" \in q.status
        PROVE  DoomIn(ctls, links, orders, q.handle) => DoomIn(ctls', links', orders', q.handle)
    <3>1. q.handle \in BtHandles BY <2>1, <2>2, <1>0 DEF BtLinkInv, BtSlotInv
    <3> HIDE DEF q
    <3> QED BY <3>1, <1>14
  <2> QED BY <2>2, <1>0, <1>2, <1>13, BtResetFrame
<1>17. BtEventInv(events, links)' BY <1>11 DEF BtEventInv
<1> QED BY <1>8, <1>9, <1>10, <1>12, <1>15, <1>16, <1>17 DEF BtInv

(* A packet came in and nothing else happened to the slots and the events. *)
LEMMA BtSendFrame ==
    ASSUME BtInv, BtTypes', UNCHANGED <<crossed, torn, pads, usb, call, events, orders, links>>,
           usb \in {"set", "configured"}, BtCtlInv',
           \A h : DoomIn(ctls, links, orders, h) => DoomIn(ctls', links', orders', h),
           \A h \in BtHandles : ~DoomIn(ctls', links', orders', h) /\ links[h] \in BtCtls => KeepsAir(h),
           \A h, x : x \in Kinds(packets, h) => x \in Kinds(packets', h)
    PROVE  BtInv'
<1>0. /\ BtTypes /\ BtOut /\ BtCtlInv /\ BtEventInv(events, links) /\ BtSlotInv /\ BtLinkInv
      /\ BtResetInv /\ events \in Seq(BtEventTypes)
  BY DEF BtInv, BtTypes
<1>1. BtOut' BY DEF BtOut
<1>2. BtEventInv(events, links)' /\ BtEventInv(events', links') BY <1>0 DEF BtEventInv
<1>3. \A p \in Slots : KeepsLink(p) BY DEF KeepsLink
<1>4. BtSlotInv' BY <1>0, <1>3, BtSlotFrame
<1>5. \A p \in Slots : HoldsOn(p) BY DEF HoldsOn, SameLink
<1>6. BtLinkInv' BY <1>0, <1>2, <1>4, <1>5, BtLinkFrame
<1>7. BtResetInv' BY <1>0, BtResetFrame
<1> QED BY <1>1, <1>2, <1>4, <1>6, <1>7 DEF BtInv

(* A link is there only with a configured adapter.                         *)
LEMMA BtLinkIsSet ==
    ASSUME BtInv, NEW h \in BtHandles, links[h] # NoCtl PROVE usb \in {"set", "configured"}
<1>1. usb \in {"out", "authorized", "set", "configured"} /\ BtOut BY DEF BtInv, BtTypes, BtTypeOK
<1> QED BY <1>1 DEF BtOut

(* A controller reports.                                                   *)
LEMMA BtReportsStep == ASSUME BtInv, NEW h \in BtHandles, CtlReports(h) PROVE BtInv'
<1> DEFINE c == links[h]
           C == ctls[c].chan
           m == Packet(h, "report", "interrupt", C["interrupt"])
<1>1. /\ links[h] # NoCtl /\ C["interrupt"] # 0 /\ packets' = Append(packets, m)
      /\ UNCHANGED <<crossed, torn, pads, usb, call, events, orders, links, ctls, left>>
  BY DEF CtlReports, CtlSends, btMarks
<1>0. /\ BtTypes /\ BtCtlInv /\ packets \in Seq(BtPackets)
      /\ ctls \in [BtCtls -> CtlTypes] /\ links \in [BtHandles -> BtCtls \cup {NoCtl}]
  BY DEF BtInv, BtTypes, BtTypeOK, CtlTypes
<1>2. c \in BtCtls BY <1>0, <1>1
<1>3. m \in BtPackets /\ m.handle = h /\ m.k = "report" /\ m.chan = "interrupt"
  <2>1. C["interrupt"] \in Family BY <1>0, <1>2 DEF CtlTypes, Channels
  <2> QED BY <2>1 DEF Packet, BtPackets, BtPacketTypes, Channels
<1> HIDE DEF m
<1>4. /\ packets' \in Seq(BtPackets)
      /\ \A i \in DOMAIN packets' : packets'[i] = m \/ \E j \in DOMAIN packets : packets'[i] = packets[j]
      /\ \A g : g # h => Kinds(packets', g) = Kinds(packets, g)
      /\ \A x : x \in Kinds(packets', h) <=> x \in Kinds(packets, h) \/ x = <<"report", "interrupt">>
  BY <1>0, <1>1, <1>3, BtKindsAppend
<1>5. BtTypes'
  <2>1. BtTypeOK' BY <1>0, <1>1 DEF BtTypes, BtTypeOK
  <2>2. \A i \in DOMAIN packets' : packets'[i].k = "connreq" => packets'[i].chan = "control"
    BY <1>0, <1>3, <1>4 DEF BtTypes
  <2> QED BY <2>1, <2>2, <1>0, <1>1, <1>4 DEF BtTypes, BtOrders, Accept, Disconnect, Event
<1>6. BtCtlInv' BY <1>0, <1>1 DEF BtCtlInv, Accept, Event
<1>7. \A g : DoomIn(ctls, links, orders, g) <=> DoomIn(ctls', links', orders', g) BY <1>1 DEF DoomIn
<1>8. \A g, x : x \in Kinds(packets, g) => x \in Kinds(packets', g) BY <1>4
<1>9. ASSUME NEW g \in BtHandles, ~DoomIn(ctls', links', orders', g) PROVE KeepsAir(g)
  <2>1. CASE g # h BY <2>1, <1>1, <1>4, <1>7, <1>9 DEF KeepsAir
  <2>2. CASE g = h
    <3> DEFINE K == Kinds(packets, h)
               M == Kinds(packets', h)
    <3>1. \A k \in {"connrsp", "cfgrsp", "discrsp"}, ch \in Channels : <<k, ch>> \in M <=> <<k, ch>> \in K
      BY <1>4
    <3> HIDE DEF K, M
    <3>2. "control" \in Channels /\ "interrupt" \in Channels BY DEF Channels
    <3>3. (OpenC(C, K) <=> OpenC(C, M)) /\ (OpenI(C, K) <=> OpenI(C, M)) BY <3>1, <3>2 DEF OpenC, OpenI
    <3>4. ASSUME NEW q, HeldOk(q, C, K) PROVE HeldOk(q, C, M)
      BY <3>1, <3>2, <3>3, <3>4 DEF HeldOk
    <3>5. ~FreshOk(C, K) BY <1>1 DEF FreshOk
    <3>6. ctls'[links'[g]].chan = C /\ ctls[links[g]].chan = C BY <2>2, <1>1
    <3> QED BY <3>4, <3>5, <3>6, <2>2, <1>7, <1>9 DEF KeepsAir, K, M
  <2> QED BY <2>1, <2>2
<1>10. usb \in {"set", "configured"} BY <1>1, BtLinkIsSet
<1> QED BY <1>1, <1>5, <1>6, <1>7, <1>8, <1>9, <1>10, BtSendFrame

(* A controller is switched off: its link is about to end.                 *)
LEMMA BtLeavesStep == ASSUME BtInv, CtlLeaves PROVE BtInv'
<1>1. PICK h \in BtHandles, ch \in Channels :
        /\ links[h] # NoCtl /\ ctls' = [ctls EXCEPT ![links[h]] = [OffCtl EXCEPT !.at = "leaving"]]
        /\ packets' = Append(packets, Packet(h, "discreq", ch, ctls[links[h]].chan[ch]))
  BY DEF CtlLeaves
<1>2. UNCHANGED <<crossed, torn, pads, usb, call, events, orders, links>> /\ Spend("faults")
  BY DEF CtlLeaves, CtlSends, btMarks
<1> DEFINE c == links[h]
           v == [OffCtl EXCEPT !.at = "leaving"]
           m == Packet(h, "discreq", ch, ctls[c].chan[ch])
<1>0. /\ BtTypes /\ BtCtlInv /\ packets \in Seq(BtPackets)
      /\ ctls \in [BtCtls -> CtlTypes] /\ links \in [BtHandles -> BtCtls \cup {NoCtl}]
  BY DEF BtInv, BtTypes, BtTypeOK, CtlTypes
<1>3. c \in BtCtls BY <1>0, <1>1
<1>4. m \in BtPackets /\ m.handle = h /\ m.k = "discreq"
  <2>1. ctls[c].chan[ch] \in Family BY <1>0, <1>3 DEF CtlTypes
  <2> QED BY <2>1 DEF Packet, BtPackets, BtPacketTypes
<1>5. v \in CtlTypes /\ v.at = "leaving" /\ \A x \in Channels : v.chan[x] = 0
  BY DEF OffCtl, CtlTypes, Family
<1>6. ctls' = [ctls EXCEPT ![c] = v] /\ packets' = Append(packets, m) BY <1>1
<1> HIDE DEF v, m
<1>7. /\ ctls' \in [BtCtls -> CtlTypes] /\ ctls'[c] = v
      /\ \A d \in BtCtls : d # c => ctls'[d] = ctls[d]
  BY <1>0, <1>3, <1>5, <1>6
<1>8. /\ packets' \in Seq(BtPackets)
      /\ \A i \in DOMAIN packets' : packets'[i] = m \/ \E j \in DOMAIN packets : packets'[i] = packets[j]
      /\ \A g : g # h => Kinds(packets', g) = Kinds(packets, g)
      /\ \A x : x \in Kinds(packets', h) <=> x \in Kinds(packets, h) \/ x = <<m.k, m.chan>>
  BY <1>0, <1>4, <1>6, BtKindsAppend
<1> HIDE DEF c
<1>9. left' \in [calls : 0 .. MaxBtCalls, connects : 0 .. MaxBtConnects, faults : 0 .. MaxBtFaults]
  BY <1>0, <1>2, BtSpend
<1>10. BtTypes'
  <2>1. BtTypeOK' BY <1>0, <1>2, <1>7, <1>9 DEF BtTypes, BtTypeOK, CtlTypes
  <2>2. \A i \in DOMAIN packets' : packets'[i].k = "connreq" => packets'[i].chan = "control"
    BY <1>0, <1>4, <1>8 DEF BtTypes
  <2> QED BY <2>1, <2>2, <1>0, <1>2, <1>8 DEF BtTypes, BtOrders, Accept, Disconnect, Event
<1>c. NoCtl \notin BtCtls BY BtAssumption
<1>11. ctls[c].at \in {"linked", "leaving"} /\ \A g \in BtHandles : g # h => links[g] # c
  BY <1>0, <1>1, <1>3, <1>c DEF BtCtlInv, c
<1>12. BtCtlInv'
  <2>1. \A g \in BtHandles : links'[g] # NoCtl => ctls'[links'[g]].at \in {"linked", "leaving"}
    BY <1>0, <1>2, <1>5, <1>7 DEF BtCtlInv
  <2>2. \A f, g \in BtHandles : links'[f] = links'[g] /\ links'[f] # NoCtl => f = g
    BY <1>0, <1>2 DEF BtCtlInv
  <2>3. ASSUME NEW d \in BtCtls, Accept(d) \in orders' PROVE ctls'[d].at = "asking"
    BY <2>3, <1>0, <1>2, <1>7, <1>11 DEF BtCtlInv
  <2>4. ASSUME NEW j \in DOMAIN events, events[j].k = "request"
        PROVE  ctls'[events[j].ctl].at = "asking" /\ Accept(events[j].ctl) \notin orders
    <3>1. events[j].ctl \in BtCtls
      <4>1. events[j] \in BtEventTypes BY <1>0 DEF BtTypes
      <4> QED BY <4>1, <2>4 DEF BtEventTypes
    <3> QED BY <3>1, <2>4, <1>0, <1>7, <1>11 DEF BtCtlInv
  <2>5. \A j, n \in DOMAIN events : (/\ events[j].k = "request" /\ events[n].k = "request"
                                     /\ events[j].ctl = events[n].ctl) => j = n
    BY <1>0 DEF BtCtlInv
  <2>6. ASSUME NEW d \in BtCtls, \A g \in BtHandles : links'[g] # d
        PROVE  \A x \in Channels : ctls'[d].chan[x] = 0
    BY <2>6, <1>0, <1>2, <1>5, <1>7 DEF BtCtlInv
  <2> QED BY <2>1, <2>2, <2>3, <2>4, <2>5, <2>6, <1>2 DEF BtCtlInv, Accept, Event
<1>13. \A g : DoomIn(ctls, links, orders, g) => DoomIn(ctls', links', orders', g)
  BY <1>2, <1>5, <1>7 DEF DoomIn
<1>14. \A g, x : x \in Kinds(packets, g) => x \in Kinds(packets', g) BY <1>8
<1>15. ASSUME NEW g \in BtHandles, ~DoomIn(ctls', links', orders', g), links[g] \in BtCtls PROVE KeepsAir(g)
  <2>1. g # h BY <1>2, <1>3, <1>5, <1>7, <1>15 DEF DoomIn, c
  <2> QED BY <2>1, <1>2, <1>7, <1>8, <1>11, <1>13, <1>15 DEF KeepsAir
<1>16. usb \in {"set", "configured"} BY <1>1, BtLinkIsSet
<1> QED BY <1>2, <1>10, <1>12, <1>13, <1>14, <1>15, <1>16, BtSendFrame

(* The adapter makes a link, which no slot has heard of yet.               *)
LEMMA BtLinkMade ==
    ASSUME BtInv, ~PollDue, NEW c \in BtCtls, Accept(c) \in orders, orders' = orders \ {Accept(c)},
           NEW h \in BtHandles, FreeHandle(h), links' = [links EXCEPT ![h] = c],
           events' = Append(events, Event("complete", c, h)),
           packets' = IF c \in BtDs4 THEN packets
                      ELSE Append(packets, Packet(h, "connreq", "control", 0)),
           ctls' = [ctls EXCEPT ![c].at = "linked"],
           UNCHANGED <<left, crossed, torn, pads, usb, call>>
    PROVE  BtInv'
<1> DEFINE e == Event("complete", c, h)
           m == Packet(h, "connreq", "control", 0)
<1>0. /\ BtTypes /\ BtOut /\ BtCtlInv /\ BtEventInv(events, links) /\ BtSlotInv /\ BtLinkInv
      /\ BtResetInv
  BY DEF BtInv
<1>b. /\ ctls \in [BtCtls -> CtlTypes] /\ links \in [BtHandles -> BtCtls \cup {NoCtl}]
      /\ events \in Seq(BtEventTypes) /\ packets \in Seq(BtPackets)
  BY <1>0 DEF BtTypes, BtTypeOK, CtlTypes
<1>c. NoHandle \notin BtHandles /\ NoCtl \notin BtCtls BY BtAssumption
<1>3. e \in BtEventTypes /\ e.k = "complete" /\ e.ctl = c /\ e.handle = h BY DEF Event, BtEventTypes
<1>4. events' \in Seq(BtEventTypes) /\ Appended(events, events', e) BY <1>3, <1>b, BtAppendOf
<1>5. /\ ctls' \in [BtCtls -> CtlTypes] /\ ctls'[c].at = "linked"
      /\ \A d \in BtCtls : ctls'[d].chan = ctls[d].chan /\ (d # c => ctls'[d].at = ctls[d].at)
  BY <1>b, BtCtlAt
<1>6. /\ links' \in [BtHandles -> BtCtls \cup {NoCtl}] /\ links'[h] = c
      /\ \A g \in BtHandles : g # h => links'[g] = links[g]
  BY <1>b
<1>7. links[h] = NoCtl /\ Kinds(packets, h) = {}
  <2>1. links[h] = NoCtl /\ \A i \in DOMAIN packets : packets[i].handle # h BY DEF FreeHandle
  <2>2. \A x : x \notin Kinds(packets, h) BY <2>1 DEF Kinds
  <2> QED BY <2>1, <2>2
<1>8. /\ packets' \in Seq(BtPackets)
      /\ \A i \in DOMAIN packets' : packets'[i] = m \/ \E j \in DOMAIN packets : packets'[i] = packets[j]
      /\ \A g : g # h => Kinds(packets', g) = Kinds(packets, g)
      /\ \A x : x \in Kinds(packets', h) => x = <<"connreq", "control">>
  <2>1. m \in BtPackets /\ m.handle = h /\ m.k = "connreq" /\ m.chan = "control"
    BY DEF Packet, BtPackets, BtPacketTypes, Channels, Family
  <2> HIDE DEF m
  <2>2. CASE packets' = packets BY <2>2, <1>7, <1>b
  <2>3. CASE packets' = Append(packets, m)
    <3>1. /\ packets' \in Seq(BtPackets)
          /\ \A i \in DOMAIN packets' : packets'[i] = m \/ \E j \in DOMAIN packets : packets'[i] = packets[j]
          /\ \A g : g # h => Kinds(packets', g) = Kinds(packets, g)
          /\ \A x : x \in Kinds(packets', h) <=> x \in Kinds(packets, h) \/ x = <<m.k, m.chan>>
      <4>1. packets \in Seq(BtPackets) /\ m \in BtPackets BY <2>1, <1>b
      <4>2. /\ Append(packets, m) \in Seq(BtPackets)
            /\ \A i \in DOMAIN Append(packets, m) : Append(packets, m)[i] = m
                                           \/ \E j \in DOMAIN packets : Append(packets, m)[i] = packets[j]
            /\ \A g : g # m.handle => Kinds(Append(packets, m), g) = Kinds(packets, g)
            /\ \A x : x \in Kinds(Append(packets, m), m.handle) <=>
                        x \in Kinds(packets, m.handle) \/ x = <<m.k, m.chan>>
        BY <4>1, BtKindsAppend
      <4> QED BY <4>2, <2>1, <2>3
    <3> QED BY <3>1, <2>1, <1>7
  <2> QED BY <2>2, <2>3 DEF m
<1> HIDE DEF e
<1>9. /\ ctls[c].at = "asking" /\ \A g \in BtHandles : links[g] # c
      /\ \A i \in DOMAIN events : events[i].k = "request" => events[i].ctl # c
      /\ \A ch \in Channels : ctls[c].chan[ch] = 0
  <2>1. ctls[c].at = "asking" BY <1>0 DEF BtCtlInv
  <2>2. \A g \in BtHandles : links[g] # c BY <2>1, <1>0, <1>c DEF BtCtlInv
  <2> QED BY <2>1, <2>2, <1>0 DEF BtCtlInv
<1>10. /\ \A o \in orders' : o \in orders
       /\ \A g : Disconnect(g) \in orders <=> Disconnect(g) \in orders'
       /\ \A d : Accept(d) \in orders' => d # c
  <2>1. \A g : Disconnect(g) # Accept(c) BY DEF Accept, Disconnect, Event
  <2> QED BY <2>1
<1>11. BtTypes'
  <2>1. BtTypeOK' BY <1>0, <1>5, <1>6 DEF BtTypes, BtTypeOK, CtlTypes
  <2>2. BtOrders(orders') BY <1>0, <1>10 DEF BtTypes, BtOrders
  <2>3. \A i \in DOMAIN packets' : packets'[i].k = "connreq" => packets'[i].chan = "control"
    BY <1>0, <1>8 DEF BtTypes, Packet
  <2> QED BY <2>1, <2>2, <2>3, <1>4, <1>8 DEF BtTypes, BtOrders, Accept, Disconnect, Event
<1>12. BtOut' BY <1>0 DEF BtOut
<1>13. BtCtlInv'
  <2>1. \A g \in BtHandles : links'[g] # NoCtl => ctls'[links'[g]].at \in {"linked", "leaving"}
    BY <1>0, <1>5, <1>6, <1>9, <1>b DEF BtCtlInv
  <2>2. \A f, g \in BtHandles : links'[f] = links'[g] /\ links'[f] # NoCtl => f = g
    BY <1>0, <1>6, <1>9 DEF BtCtlInv
  <2>3. ASSUME NEW d \in BtCtls, Accept(d) \in orders' PROVE ctls'[d].at = "asking"
    BY <2>3, <1>0, <1>5, <1>10 DEF BtCtlInv
  <2>a. \A i \in DOMAIN events' : events'[i].k = "request" => i \in DOMAIN events /\ events'[i] = events[i]
    BY <1>3, <1>4 DEF Appended
  <2>4. ASSUME NEW j \in DOMAIN events', events'[j].k = "request"
        PROVE  ctls'[events'[j].ctl].at = "asking" /\ Accept(events'[j].ctl) \notin orders'
    <3>1. j \in DOMAIN events /\ events'[j] = events[j] BY <2>4, <2>a
    <3>2. events'[j].ctl \in BtCtls
      <4>1. events'[j] \in BtEventTypes BY <1>4
      <4> QED BY <4>1, <2>4 DEF BtEventTypes
    <3>3. ctls[events'[j].ctl].at = "asking" /\ Accept(events'[j].ctl) \notin orders
      BY <3>1, <2>4, <1>0 DEF BtCtlInv
    <3>4. events'[j].ctl # c BY <3>1, <2>4, <1>9
    <3> QED BY <3>2, <3>3, <3>4, <1>5, <1>10
  <2>5. ASSUME NEW j \in DOMAIN events', NEW n \in DOMAIN events', events'[j].k = "request",
               events'[n].k = "request", events'[j].ctl = events'[n].ctl
        PROVE  j = n
    BY <2>5, <2>a, <1>0 DEF BtCtlInv
  <2>6. ASSUME NEW d \in BtCtls, \A g \in BtHandles : links'[g] # d
        PROVE  \A ch \in Channels : ctls'[d].chan[ch] = 0
    <3>1. \A g \in BtHandles : links[g] # d BY <2>6, <1>6, <1>7, <1>c
    <3> QED BY <3>1, <1>0, <1>5 DEF BtCtlInv
  <2> QED BY <2>1, <2>2, <2>3, <2>4, <2>5, <2>6 DEF BtCtlInv, Accept, Event
<1>14. BtEventInv(events', links')
  <2>1. /\ e.k = "complete" /\ e.handle \in BtHandles /\ links' = [links EXCEPT ![e.handle] = e.ctl]
        /\ e.ctl \in BtCtls
        /\ links[e.handle] = NoCtl /\ \A g \in BtHandles : links[g] # e.ctl
        /\ \A i \in DOMAIN events : events[i].k = "request" => events[i].ctl # e.ctl
    BY <1>3, <1>7, <1>9
  <2> QED BY <2>1, <1>0, <1>4, <1>6, <1>b, BtAppendEvents
<1>15. /\ \A g : AnnIn(events, g) => AnnIn(events', g)
       /\ \A g : FreshIn(events', g) => FreshIn(events, g) \/ g = h
  BY <1>3, <1>4, <1>b, BtAppendFrame
<1>16. /\ DOMAIN events' = DOMAIN events \cup {Len(events) + 1}
       /\ events'[Len(events) + 1] = e
       /\ \A i \in DOMAIN events : events'[i] = events[i] /\ i < Len(events) + 1
  BY <1>4 DEF Appended
<1>17. BtSlotInv'
  <2>1. ASSUME NEW p \in Slots, NEW j \in DOMAIN events', events'[j].k = "complete",
               pads[p].handle \in BtHandles,
               \/ events'[j].handle = pads[p].handle
               \/ "connected" \in pads[p].status /\ p \notin torn /\ events'[j].ctl = pads[p].addr
        PROVE  \E n \in DOMAIN events' : n < j /\ events'[n] = Disc(pads[p].handle)
    <3>1. CASE j \in DOMAIN events
      <4>1. PICK n \in DOMAIN events : n < j /\ events[n] = Disc(pads[p].handle)
        BY <3>1, <2>1, <1>0, <1>16 DEF BtSlotInv
      <4> QED BY <4>1, <1>16
    <3>2. CASE j = Len(events) + 1
      <4>1. AnnIn(events, pads[p].handle)
        <5>1. CASE pads[p].handle = h BY <5>1, <1>0, <1>7 DEF BtSlotInv
        <5>2. CASE "connected" \in pads[p].status /\ p \notin torn /\ c = pads[p].addr
          BY <5>2, <2>1, <1>0, <1>9 DEF BtSlotInv
        <5> QED BY <5>1, <5>2, <3>2, <2>1, <1>3, <1>16
      <4> QED BY <4>1, <3>2, <1>16 DEF AnnIn
    <3> QED BY <3>1, <3>2, <1>16
  <2>2. ASSUME NEW p \in Slots, pads[p].handle \in BtHandles, ~AnnIn(events', pads[p].handle)
        PROVE  /\ links'[pads[p].handle] # NoCtl
               /\ "connected" \in pads[p].status /\ p \notin torn => links'[pads[p].handle] = pads[p].addr
    <3>1. ~AnnIn(events, pads[p].handle) BY <2>2, <1>15
    <3>2. pads[p].handle # h BY <3>1, <2>2, <1>0, <1>7 DEF BtSlotInv
    <3> QED BY <3>1, <3>2, <2>2, <1>0, <1>6 DEF BtSlotInv
  <2>3. OneSlotPerHandle' BY <1>0 DEF BtSlotInv, OneSlotPerHandle
  <2>4. \A p \in Slots : "connected" \in pads[p].status /\ p \notin torn => pads[p].handle \in BtHandles
    BY <1>0 DEF BtSlotInv
  <2> QED BY <2>1, <2>2, <2>3, <2>4 DEF BtSlotInv, AnnIn, Disc, Event
<1>18. \A g \in BtHandles : g # h => (DoomIn(ctls', links', orders', g) <=> DoomIn(ctls, links, orders, g))
  BY <1>5, <1>6, <1>9, <1>10 DEF DoomIn
<1>19. NewLink(h)
  <2>1. \A p \in Slots : pads'[p].handle = h => AnnIn(events', h) BY <1>0, <1>7, <1>15 DEF BtSlotInv
  <2>2. ctls'[links'[h]].chan = ctls[c].chan BY <1>5, <1>6
  <2>3. "interrupt" \in Channels /\ "control" \in Channels BY DEF Channels
  <2>4. <<"connrsp", "control">> \notin Kinds(packets', h) BY <1>8
  <2>5. Kinds(packets', h) \subseteq {<<"connreq", "control">>, <<"connrsp", "control">>} BY <1>8
  <2> QED BY <2>1, <2>2, <2>3, <2>4, <2>5, <1>9 DEF NewLink, FreshOk
<1>20. BtLinkInv'
  <2>1. \A p \in Slots : HoldsOn(p) BY <1>15 DEF HoldsOn, SameLink
  <2>2. ASSUME NEW g \in BtHandles, ~DoomIn(ctls', links', orders', g), links'[g] \in BtCtls, g # h
        PROVE  KeepsAir(g)
    BY <2>2, <1>5, <1>6, <1>8, <1>18 DEF KeepsAir
  <2> QED BY <2>1, <2>2, <1>0, <1>11, <1>14, <1>15, <1>17, <1>19, BtLinkFrame
<1>21. BtResetInv'
  <2> DEFINE q == pads[call.pad]
  <2>1. call.pad \in Slots BY <1>0 DEF BtTypes, BtTypeOK
  <2>2. ASSUME ~crossed, "running" \in q.status
        PROVE  /\ DoomIn(ctls, links, orders, q.handle) =>
                    DoomIn(ctls', links', orders', q.handle) \/ AnnIn(events', q.handle)
               /\ \A x \in Tokens : x \in Kinds(packets, q.handle) => x \in Kinds(packets', q.handle)
    <3>1. q.handle \in BtHandles BY <2>1, <2>2, <1>0 DEF BtLinkInv, BtSlotInv
    <3>2. q.handle = h => AnnIn(events', h) BY <2>1, <1>0, <1>7, <1>15 DEF BtSlotInv
    <3> HIDE DEF q
    <3>3. \A x : x \in Kinds(packets, q.handle) => x \in Kinds(packets', q.handle) BY <1>7, <1>8
    <3> QED BY <3>1, <3>2, <3>3, <1>18
  <2>3. call.op = "poll" => "running" \in pads[call.pad].status BY DEF PollDue
  <2> QED BY <2>2, <2>3, <1>0, <1>15, BtResetFrame
<1>22. BtEventInv(events, links)' BY <1>14 DEF BtEventInv
<1> QED BY <1>11, <1>12, <1>13, <1>17, <1>20, <1>21, <1>22 DEF BtInv

(* The adapter carries out the driver's command to accept, or fails.       *)
LEMMA BtAcceptsStep == ASSUME BtInv, NEW c \in BtCtls, AdapterAccepts(c) PROVE BtInv'
<1>1. /\ ~PollDue /\ Accept(c) \in orders /\ orders' = orders \ {Accept(c)}
      /\ UNCHANGED <<crossed, torn, pads, usb, call>>
  BY DEF AdapterAccepts, Order, btMarks
<1>2. CASE /\ \E h \in BtHandles :
                /\ FreeHandle(h) /\ \A g \in BtHandles : FreeHandle(g) => h <= g
                /\ links' = [links EXCEPT ![h] = c]
                /\ events' = Append(events, Event("complete", c, h))
                /\ packets' = IF c \in BtDs4 THEN packets
                              ELSE Append(packets, Packet(h, "connreq", "control", 0))
           /\ ctls' = [ctls EXCEPT ![c].at = "linked"]
           /\ UNCHANGED left
  BY <1>1, <1>2, BtLinkMade
<1>3. CASE /\ Spend("faults") /\ ctls' = [ctls EXCEPT ![c].at = "off"]
           /\ UNCHANGED <<links, events, packets>>
  <2>0. /\ BtTypes /\ BtOut /\ BtCtlInv /\ BtEventInv(events, links) /\ BtSlotInv /\ BtLinkInv
        /\ BtResetInv /\ events \in Seq(BtEventTypes) /\ ctls \in [BtCtls -> CtlTypes]
        /\ links \in [BtHandles -> BtCtls \cup {NoCtl}]
    BY DEF BtInv, BtTypes, BtTypeOK, CtlTypes
  <2>c. NoCtl \notin BtCtls BY BtAssumption
  <2>1. /\ ctls' \in [BtCtls -> CtlTypes] /\ ctls'[c].at = "off"
        /\ \A d \in BtCtls : ctls'[d].chan = ctls[d].chan /\ (d # c => ctls'[d].at = ctls[d].at)
    BY <2>0, <1>3, BtCtlAt
  <2>2. /\ \A g \in BtHandles : links[g] # c
        /\ \A i \in DOMAIN events : events[i].k = "request" => events[i].ctl # c
    <3>1. ctls[c].at = "asking" BY <2>0, <1>1 DEF BtCtlInv
    <3> QED BY <3>1, <2>0, <2>c, <1>1 DEF BtCtlInv
  <2>3. /\ \A o \in orders' : o \in orders
        /\ \A g : Disconnect(g) \in orders <=> Disconnect(g) \in orders'
        /\ \A d : Accept(d) \in orders' => d # c
    <3>1. \A g : Disconnect(g) # Accept(c) BY DEF Accept, Disconnect, Event
    <3> QED BY <3>1, <1>1
  <2>4. left' \in [calls : 0 .. MaxBtCalls, connects : 0 .. MaxBtConnects, faults : 0 .. MaxBtFaults]
    BY <2>0, <1>3, BtSpend
  <2>5. BtTypes'
    <3>1. BtTypeOK' BY <2>0, <2>1, <2>4, <1>1, <1>3 DEF BtTypes, BtTypeOK, CtlTypes
    <3>2. BtOrders(orders') BY <2>0, <2>3 DEF BtTypes, BtOrders
    <3> QED BY <3>1, <3>2, <2>0, <1>3 DEF BtTypes, BtOrders, Accept, Disconnect, Event
  <2>6. BtOut' BY <2>0, <1>1 DEF BtOut
  <2>7. BtCtlInv'
    <3>1. \A g \in BtHandles : links'[g] # NoCtl => ctls'[links'[g]].at \in {"linked", "leaving"}
      BY <2>0, <2>1, <2>2, <1>3 DEF BtCtlInv
    <3>2. \A d \in BtCtls : Accept(d) \in orders' => ctls'[d].at = "asking"
      BY <2>0, <2>1, <2>3 DEF BtCtlInv
    <3>3. ASSUME NEW j \in DOMAIN events, events[j].k = "request"
          PROVE  ctls'[events[j].ctl].at = "asking" /\ Accept(events[j].ctl) \notin orders'
      <4>1. events[j].ctl \in BtCtls
        <5>1. events[j] \in BtEventTypes BY <2>0
        <5> QED BY <5>1, <3>3 DEF BtEventTypes
      <4> QED BY <4>1, <3>3, <2>0, <2>1, <2>2, <2>3 DEF BtCtlInv
    <3>4. \A d \in BtCtls : (\A h \in BtHandles : links'[h] # d) => \A ch \in Channels : ctls'[d].chan[ch] = 0
      BY <2>0, <2>1, <1>3 DEF BtCtlInv
    <3>5. /\ \A f, g \in BtHandles : links[f] = links[g] /\ links[f] # NoCtl => f = g
          /\ \A j, n \in DOMAIN events : (/\ events[j].k = "request" /\ events[n].k = "request"
                                          /\ events[j].ctl = events[n].ctl) => j = n
      BY <2>0 DEF BtCtlInv
    <3> QED BY <3>1, <3>2, <3>3, <3>4, <3>5, <1>3 DEF BtCtlInv, Accept, Event
  <2>8. BtEventInv(events, links)' /\ BtEventInv(events', links') BY <2>0, <1>3 DEF BtEventInv
  <2>9. \A p \in Slots : KeepsLink(p) BY <1>1, <1>3 DEF KeepsLink
  <2>10. BtSlotInv' BY <2>0, <2>9, <1>1, <1>3, BtSlotFrame
  <2>11. \A g \in BtHandles : DoomIn(ctls, links, orders, g) <=> DoomIn(ctls', links', orders', g)
    BY <2>1, <2>2, <2>3, <1>3 DEF DoomIn
  <2>12. BtLinkInv'
    <3>1. \A p \in Slots : HoldsOn(p) BY <1>1, <1>3 DEF HoldsOn, SameLink
    <3>2. \A g \in BtHandles : ~DoomIn(ctls', links', orders', g) /\ links'[g] \in BtCtls => KeepsAir(g)
      BY <2>1, <2>11, <1>3 DEF KeepsAir
    <3> QED BY <3>1, <3>2, <2>0, <2>5, <2>8, <2>10, <1>1, <1>3, BtLinkFrame
  <2>13. BtResetInv'
    <3> DEFINE q == pads[call.pad]
    <3>1. call.pad \in Slots BY <2>0 DEF BtTypes, BtTypeOK
    <3>2. ASSUME ~crossed, "running" \in q.status
          PROVE  DoomIn(ctls, links, orders, q.handle) => DoomIn(ctls', links', orders', q.handle)
      <4>1. q.handle \in BtHandles BY <3>1, <3>2, <2>0 DEF BtLinkInv, BtSlotInv
      <4> HIDE DEF q
      <4> QED BY <4>1, <2>11
    <3> QED BY <3>2, <2>0, <1>1, <1>3, BtResetFrame
  <2> QED BY <2>5, <2>6, <2>7, <2>8, <2>10, <2>12, <2>13 DEF BtInv
<1> QED BY <1>2, <1>3 DEF AdapterAccepts

----------------------------------------------------------------------------
(* A packet.                                                               *)

Reply(p, k, ch) == Packet(pads[p].handle, k, ch, Dcid(p))

(* The answer t of L2CAP_event_task to packet m for slot p.                *)
TaskIs(p, m, t) ==
    LET q == pads[p]
    IN /\ t.pad \in PadTypes /\ t.pad.addr = q.addr /\ t.pad.handle = q.handle
       /\ t.pad.fake = q.fake
       /\ \/ /\ m.k = "connreq" /\ t.pad.scid = q.scid \cup {"control"} /\ t.pad.status = q.status
             /\ t.out = <<Reply(p, "connrsp", "control"), Reply(p, "cfgreq", "control")>> /\ ~t.cut
          \/ /\ m.k = "connrsp" /\ t.pad.scid = q.scid \cup {m.chan} /\ t.pad.status = q.status
             /\ t.out = <<Reply(p, "cfgreq", m.chan)>> /\ ~t.cut
          \/ /\ m.k = "cfgrsp" /\ m.chan = "control" /\ t.pad = q
             /\ t.out = <<Reply(p, "connreq", "interrupt")>> /\ ~t.cut
          \/ /\ m.k = "cfgrsp" /\ m.chan = "interrupt" /\ t.pad.scid = q.scid
             /\ t.pad.status = q.status \cup {"running"} /\ t.out = <<>> /\ ~t.cut
          \/ /\ m.k = "discrsp" /\ m.chan = "control" /\ t.pad.scid = q.scid
             /\ t.pad.status = q.status \cup {"disconnecting"} /\ t.out = <<>> /\ t.cut
          \/ /\ m.k = "discrsp" /\ m.chan = "interrupt" /\ t.pad.scid = q.scid
             /\ t.pad.status = q.status \cup {"disconnecting"}
             /\ t.out = <<Reply(p, "discreq", "control")>> /\ ~t.cut
          \/ /\ m.k = "discrsp" => m.chan \notin q.scid
             /\ t.pad.scid = q.scid /\ t.out = <<>> /\ ~t.cut
             /\ t.pad.status \in {q.status, q.status \cup {"disconnecting"}}

(* What l2cap_event_task makes of a packet: the slot and the packets to    *)
(* send.                                                                   *)
LEMMA BtTask ==
    ASSUME BtTypes, NEW p \in Slots, NEW m \in BtPackets, m.k = "connreq" => m.chan = "control"
    PROVE  TaskIs(p, m, L2capTask(p, m))
<1> DEFINE q == pads[p]
           t == L2capTask(p, m)
           opened == [q EXCEPT !.scid = @ \cup {m.chan}]
           Gains(flag) == [q EXCEPT !.status = @ \cup {flag}]
           Cuts(w) == [w EXCEPT !.cut = TRUE]
<1>1. q \in PadTypes BY DEF BtTypes, BtTypeOK, PadTypes
<1>2. m.chan \in Channels BY DEF BtPackets
<1>3. /\ opened \in PadTypes /\ opened.addr = q.addr /\ opened.handle = q.handle /\ opened.fake = q.fake
      /\ opened.scid = q.scid \cup {m.chan} /\ opened.status = q.status
  <2>1. q.scid \cup {m.chan} \in SUBSET Channels BY <1>1, <1>2 DEF PadTypes
  <2> HIDE DEF q
  <2> QED BY <2>1, <1>1 DEF PadTypes
<1>4. ASSUME NEW flag \in {"running", "disconnecting"}
      PROVE  /\ Gains(flag) \in PadTypes /\ Gains(flag).addr = q.addr /\ Gains(flag).handle = q.handle
             /\ Gains(flag).fake = q.fake
             /\ Gains(flag).scid = q.scid /\ Gains(flag).status = q.status \cup {flag}
  <2>1. q.status \cup {flag} \in SUBSET Flags BY <1>1 DEF PadTypes, Flags
  <2> HIDE DEF q
  <2> QED BY <2>1, <1>1 DEF PadTypes
<1>a. ASSUME NEW pad, NEW out
      PROVE  With(p, pad, out).pad = pad /\ With(p, pad, out).out = out /\ ~With(p, pad, out).cut
  BY DEF With, Unchanged
<1>b. Unchanged(p).pad = q /\ Unchanged(p).out = <<>> /\ ~Unchanged(p).cut BY DEF Unchanged
<1>c. ASSUME NEW pad, NEW out
      PROVE  LET w == [With(p, pad, out) EXCEPT !.cut = TRUE] IN w.pad = pad /\ w.out = out /\ w.cut
  BY DEF With, Unchanged
<1> DEFINE ours == m.dcid = Dcid(p)
<1>6. t = CASE m.k = "connreq" ->
                 With(p, opened, <<Reply(p, "connrsp", m.chan), Reply(p, "cfgreq", m.chan)>>)
            [] m.k = "connrsp" /\ ours -> With(p, opened, <<Reply(p, "cfgreq", m.chan)>>)
            [] m.k = "cfgrsp" /\ ours /\ m.chan = "control" ->
                 With(p, q, <<Reply(p, "connreq", "interrupt")>>)
            [] m.k = "cfgrsp" /\ ours /\ m.chan = "interrupt" -> With(p, Gains("running"), <<>>)
            [] m.k = "discreq" /\ ours -> With(p, Gains("disconnecting"), <<>>)
            [] m.k = "discrsp" /\ m.chan = "control" /\ m.chan \in q.scid ->
                 Cuts(With(p, Gains("disconnecting"), <<>>))
            [] m.k = "discrsp" /\ m.chan = "interrupt" /\ m.chan \in q.scid ->
                 With(p, Gains("disconnecting"), <<Reply(p, "discreq", "control")>>)
            [] OTHER -> Unchanged(p)
  BY DEF L2capTask, Reply
<1> HIDE DEF t, opened, Gains, Cuts, ours, q
<1>7. CASE m.k = "connreq"
  <2>1. t = With(p, opened, <<Reply(p, "connrsp", "control"), Reply(p, "cfgreq", "control")>>) BY <1>6, <1>7
  <2>2. t.pad = opened /\ t.out = <<Reply(p, "connrsp", "control"), Reply(p, "cfgreq", "control")>> /\ ~t.cut BY <2>1, <1>a, <1>b, <1>c DEF Cuts
  <2>3. TaskIs(p, m, t) BY <2>2, <1>3, <1>7 DEF TaskIs, q
  <2> QED BY <2>3 DEF t
<1>8. CASE m.k = "connrsp" /\ ours
  <2>1. t = With(p, opened, <<Reply(p, "cfgreq", m.chan)>>) BY <1>6, <1>8
  <2>2. t.pad = opened /\ t.out = <<Reply(p, "cfgreq", m.chan)>> /\ ~t.cut BY <2>1, <1>a, <1>b, <1>c DEF Cuts
  <2>3. TaskIs(p, m, t) BY <2>2, <1>3, <1>8 DEF TaskIs, q
  <2> QED BY <2>3 DEF t
<1>9. CASE m.k = "cfgrsp" /\ ours /\ m.chan = "control"
  <2>1. t = With(p, q, <<Reply(p, "connreq", "interrupt")>>) BY <1>6, <1>9
  <2>2. t.pad = q /\ t.out = <<Reply(p, "connreq", "interrupt")>> /\ ~t.cut BY <2>1, <1>a, <1>b, <1>c DEF Cuts
  <2>3. TaskIs(p, m, t) BY <2>2, <1>1, <1>9 DEF TaskIs, q
  <2> QED BY <2>3 DEF t
<1>10. CASE m.k = "cfgrsp" /\ ours /\ m.chan = "interrupt"
  <2>1. t = With(p, Gains("running"), <<>>) BY <1>6, <1>10
  <2>2. t.pad = Gains("running") /\ t.out = <<>> /\ ~t.cut BY <2>1, <1>a, <1>b, <1>c DEF Cuts
  <2>3. TaskIs(p, m, t) BY <2>2, <1>4, <1>10 DEF TaskIs, q
  <2> QED BY <2>3 DEF t
<1>11. CASE m.k = "discreq" /\ ours
  <2>1. t = With(p, Gains("disconnecting"), <<>>) BY <1>6, <1>11
  <2>2. t.pad = Gains("disconnecting") /\ t.out = <<>> /\ ~t.cut BY <2>1, <1>a, <1>b, <1>c DEF Cuts
  <2>3. TaskIs(p, m, t) BY <2>2, <1>4, <1>11 DEF TaskIs, q
  <2> QED BY <2>3 DEF t
<1>12. CASE m.k = "discrsp" /\ m.chan = "control" /\ m.chan \in q.scid
  <2>1. t = Cuts(With(p, Gains("disconnecting"), <<>>)) BY <1>6, <1>12
  <2>2. t.pad = Gains("disconnecting") /\ t.out = <<>> /\ t.cut BY <2>1, <1>a, <1>b, <1>c DEF Cuts
  <2>3. TaskIs(p, m, t) BY <2>2, <1>4, <1>12 DEF TaskIs, q
  <2> QED BY <2>3 DEF t
<1>13. CASE m.k = "discrsp" /\ m.chan = "interrupt" /\ m.chan \in q.scid
  <2>1. t = With(p, Gains("disconnecting"), <<Reply(p, "discreq", "control")>>) BY <1>6, <1>13
  <2>2. t.pad = Gains("disconnecting") /\ t.out = <<Reply(p, "discreq", "control")>> /\ ~t.cut BY <2>1, <1>a, <1>b, <1>c DEF Cuts
  <2>3. TaskIs(p, m, t) BY <2>2, <1>4, <1>13 DEF TaskIs, q
  <2> QED BY <2>3 DEF t
<1>14. CASE /\ m.k # "connreq" /\ ~(m.k = "connrsp" /\ ours) /\ ~(m.k = "cfgrsp" /\ ours)
            /\ ~(m.k = "discreq" /\ ours) /\ ~(m.k = "discrsp" /\ m.chan \in q.scid)
  <2>1. t = Unchanged(p) BY <1>6, <1>14
  <2>2. t.pad = q /\ t.out = <<>> /\ ~t.cut BY <2>1, <1>a, <1>b, <1>c DEF Cuts
  <2>3. TaskIs(p, m, t) BY <2>2, <1>1, <1>14 DEF TaskIs, q
  <2> QED BY <2>3 DEF t
<1>15. m.chan = "control" \/ m.chan = "interrupt" BY <1>2 DEF Channels
<1> QED BY <1>7, <1>8, <1>9, <1>10, <1>11, <1>12, <1>13, <1>14, <1>15

(* The packets out change the channels C and the packets K of their link   *)
(* to D and M.                                                             *)
Chans == [Channels -> Family]
Chain(out, C, K, D, M) ==
    \/ Len(out) = 0 /\ D = C /\ M = K
    \/ Len(out) = 1 /\ HearsOne(out[1], C, K, D, M)
    \/ /\ Len(out) = 2
       /\ \E E \in Chans : \E L : HearsOne(out[1], C, K, E, L) /\ HearsOne(out[2], E, L, D, M)
    \/ /\ Len(out) = 3
       /\ \E E, F \in Chans : \E L, N : /\ HearsOne(out[1], C, K, E, L) /\ HearsOne(out[2], E, L, F, N)
                                        /\ HearsOne(out[3], F, N, D, M)

(* The answers to a packet in a row: the first one is heard first.         *)
LEMMA BtChainOf ==
    ASSUME BtTypes, NEW g \in BtHandles, links[g] # NoCtl, ctls[links[g]].at # "leaving",
           NEW in \in Seq(BtPackets),
           \A i \in DOMAIN in : in[i].k = "connreq" => in[i].chan = "control",
           NEW out, Len(out) \in 0 .. 3, \A i \in 1 .. Len(out) : Sent(out[i], g),
           Arrives(in, out)
    PROVE  Chain(out, ctls[links[g]].chan, Kinds(in, g), ctls'[links[g]].chan, Kinds(packets', g))
<1> DEFINE r0 == [ctls |-> ctls, packets |-> in]
           r1 == HearOne(r0, out[1])
           r2 == HearOne(r1, out[2])
           r3 == HearOne(r2, out[3])
           c == links[g]
<1>1. /\ Len(out) = 0 => ctls' = r0.ctls /\ packets' = r0.packets
      /\ Len(out) = 1 => ctls' = r1.ctls /\ packets' = r1.packets
      /\ Len(out) = 2 => ctls' = r2.ctls /\ packets' = r2.packets
      /\ Len(out) = 3 => ctls' = r3.ctls /\ packets' = r3.packets
  BY BtArrives
<1>2. AirOk(r0) /\ r0.ctls = ctls /\ r0.packets = in BY DEF AirOk, BtTypes, BtTypeOK, CtlTypes
<1>3. g \in BtHandles \cup {NoHandle} /\ c \in BtCtls /\ ctls[c].at # "leaving" BY DEF BtTypes, BtTypeOK
<1>4. \A r : AirOk(r) => r.ctls[c].chan \in Chans BY <1>3 DEF AirOk, CtlTypes, Chans
<1> HIDE DEF r0, r1, r2, r3
<1>5. ASSUME NEW r, AirOk(r), NEW i \in 1 .. Len(out)
      PROVE  /\ AirOk(HearOne(r, out[i]))
             /\ HearsOne(out[i], r.ctls[c].chan, Kinds(r.packets, g),
                         HearOne(r, out[i]).ctls[c].chan, Kinds(HearOne(r, out[i]).packets, g))
  <2>1. Sent(out[i], g) OBVIOUS
  <2> QED BY <2>1, <1>3, <1>5, BtHearOne
<1> HIDE DEF c
<1>6. CASE Len(out) = 0 BY <1>1, <1>2, <1>6 DEF Chain, c
<1>7. CASE Len(out) = 1
  <2>1. HearsOne(out[1], r0.ctls[c].chan, Kinds(r0.packets, g), r1.ctls[c].chan, Kinds(r1.packets, g))
    BY <1>2, <1>5, <1>7 DEF r1
  <2> QED BY <2>1, <1>1, <1>2, <1>7 DEF Chain, c
<1>8. CASE Len(out) = 2
  <2>1. /\ HearsOne(out[1], r0.ctls[c].chan, Kinds(r0.packets, g), r1.ctls[c].chan, Kinds(r1.packets, g))
        /\ AirOk(r1)
    BY <1>2, <1>5, <1>8 DEF r1
  <2>2. HearsOne(out[2], r1.ctls[c].chan, Kinds(r1.packets, g), r2.ctls[c].chan, Kinds(r2.packets, g))
    BY <2>1, <1>5, <1>8 DEF r2
  <2>3. r1.ctls[c].chan \in Chans BY <2>1, <1>4
  <2> QED BY <2>1, <2>2, <2>3, <1>1, <1>2, <1>8 DEF Chain, c
<1>9. CASE Len(out) = 3
  <2>1. /\ HearsOne(out[1], r0.ctls[c].chan, Kinds(r0.packets, g), r1.ctls[c].chan, Kinds(r1.packets, g))
        /\ AirOk(r1)
    BY <1>2, <1>5, <1>9 DEF r1
  <2>2. /\ HearsOne(out[2], r1.ctls[c].chan, Kinds(r1.packets, g), r2.ctls[c].chan, Kinds(r2.packets, g))
        /\ AirOk(r2)
    BY <2>1, <1>5, <1>9 DEF r2
  <2>3. HearsOne(out[3], r2.ctls[c].chan, Kinds(r2.packets, g), r3.ctls[c].chan, Kinds(r3.packets, g))
    BY <2>2, <1>5, <1>9 DEF r3
  <2>4. r1.ctls[c].chan \in Chans /\ r2.ctls[c].chan \in Chans BY <2>1, <2>2, <1>4
  <2> QED BY <2>1, <2>2, <2>3, <2>4, <1>1, <1>2, <1>9 DEF Chain, c
<1> QED BY <1>6, <1>7, <1>8, <1>9

(* The last packet is heard last.                                          *)
LEMMA BtChainLast ==
    ASSUME NEW T, NEW o \in Seq(T), Len(o) \in 0 .. 2, NEW m \in T, NEW C \in Chans, NEW K, NEW D, NEW M,
           Chain(Append(o, m), C, K, D, M)
    PROVE  \E E \in Chans : \E L : Chain(o, C, K, E, L) /\ HearsOne(m, E, L, D, M)
<1> DEFINE s == Append(o, m)
<1>1. Len(s) = Len(o) + 1 /\ s[Len(o) + 1] = m /\ \A i \in 1 .. Len(o) : s[i] = o[i]
  BY AppendProperties
<1> HIDE DEF s
<1>2. Chain(s, C, K, D, M) BY DEF s
<1>3. CASE Len(o) = 0 BY <1>1, <1>2, <1>3 DEF Chain
<1>4. CASE Len(o) = 1
  <2>1. Len(s) = 2 /\ s[2] = m /\ s[1] = o[1] BY <1>1, <1>4
  <2> QED BY <2>1, <1>2, <1>4 DEF Chain
<1>5. CASE Len(o) = 2
  <2>1. Len(s) = 3 /\ s[3] = m /\ s[1] = o[1] /\ s[2] = o[2] BY <1>1, <1>5
  <2>2. PICK E \in Chans, F \in Chans : \E L, N : /\ HearsOne(s[1], C, K, E, L) /\ HearsOne(s[2], E, L, F, N)
                                       /\ HearsOne(s[3], F, N, D, M)
    BY <2>1, <1>2 DEF Chain
  <2>3. PICK L, N : /\ HearsOne(s[1], C, K, E, L) /\ HearsOne(s[2], E, L, F, N)
                    /\ HearsOne(s[3], F, N, D, M)
    BY <2>2
  <2>4. Chain(o, C, K, F, N) BY <2>1, <2>3, <1>5 DEF Chain
  <2> QED BY <2>1, <2>3, <2>4
<1> QED BY <1>3, <1>4, <1>5

(* A link whose end is answered needs nothing else.                        *)
LEMMA BtTokenHeld ==
    ASSUME NEW q, NEW C, NEW K, <<"discrsp", "control">> \in K, Channels \subseteq q.scid
    PROVE  HeldOk(q, C, K)
BY DEF HeldOk, OpenC, OpenI, Channels

(* A packet that answers no disconnection is taken.                        *)
LEMMA BtPopHeld ==
    ASSUME NEW q, NEW C, NEW K, NEW L, NEW x, \A y : y \in K <=> y \in L \/ y = x, x \notin Tokens,
           HeldOk(q, C, K)
    PROVE  /\ HeldOk(q, C, L) /\ (OpenC(C, K) => OpenC(C, L)) /\ (OpenI(C, K) => OpenI(C, L))
           /\ \A y \in Tokens : y \in K => y \in L
<1>1. \A y \in Tokens : y \in K <=> y \in L OBVIOUS
<1>2. <<"discrsp", "control">> \in Tokens /\ <<"discrsp", "interrupt">> \in Tokens BY DEF Tokens
<1>3. (OpenC(C, K) => OpenC(C, L)) /\ (OpenI(C, K) => OpenI(C, L)) BY <1>1, <1>2 DEF OpenC, OpenI
<1>4. \A y : y \in L => y \in K OBVIOUS
<1>5. HeldOk(q, C, L)
  <2>1. (<<"connrsp", "control">> \in L \/ <<"cfgrsp", "control">> \in L) => OpenC(C, L)
    BY <1>3, <1>4 DEF HeldOk
  <2>2. \A ch \in Channels : <<"cfgrsp", ch>> \in L => ch \in q.scid BY <1>4 DEF HeldOk
  <2>3. (\/ C["interrupt"] # 0
         \/ \E k \in {"connrsp", "cfgrsp", "discrsp"} : <<k, "interrupt">> \in L) =>
             "control" \in q.scid /\ OpenC(C, L)
    BY <1>3, <1>4 DEF HeldOk
  <2>4. (<<"connrsp", "interrupt">> \in L \/ <<"cfgrsp", "interrupt">> \in L) => OpenI(C, L)
    BY <1>3, <1>4 DEF HeldOk
  <2>5. "running" \in q.status => Channels \subseteq q.scid /\ OpenC(C, L) /\ OpenI(C, L)
    BY <1>3 DEF HeldOk
  <2>6. (\E ch \in Channels : <<"discrsp", ch>> \in L) => Channels \subseteq q.scid BY <1>4 DEF HeldOk
  <2> QED BY <2>1, <2>2, <2>3, <2>4, <2>5, <2>6 DEF HeldOk
<1> QED BY <1>1, <1>3, <1>5

(* A slot that knows of more channels.                                     *)
LEMMA BtMoreHeld ==
    ASSUME NEW q, NEW r, NEW C, NEW K, HeldOk(q, C, K), q.scid \subseteq r.scid,
           "running" \in r.status =>
              "running" \in q.status \/ (Channels \subseteq r.scid /\ OpenC(C, K) /\ OpenI(C, K))
    PROVE  HeldOk(r, C, K)
<1>1. \A ch : ch \in q.scid => ch \in r.scid OBVIOUS
<1>2. Channels \subseteq q.scid => Channels \subseteq r.scid OBVIOUS
<1> QED BY <1>1, <1>2 DEF HeldOk

(* The packets the driver sends for a slot, each in its turn.              *)
LEMMA BtHeard ==
    ASSUME NEW q, NEW m, Sent(m, m.handle), NEW C \in Chans, NEW K, NEW D, NEW M,
           HearsOne(m, C, K, D, M), HeldOk(q, C, K),
           \/ m.k = "connrsp" /\ m.chan = "control"
           \/ m.k = "cfgreq" /\ m.chan \in q.scid
           \/ m.k = "connreq" /\ m.chan = "interrupt" /\ "control" \in q.scid /\ OpenC(C, K)
           \/ m.k = "discreq" /\ m.chan = "interrupt" /\ "running" \in q.status
    PROVE  /\ HeldOk(q, D, M) /\ \A x \in K : x \in M
           /\ m.k = "discreq" => \E x \in Tokens : x \in M
<1>0. /\ m.chan \in Channels /\ m.dcid # 0 /\ "control" \in Channels /\ "interrupt" \in Channels
      /\ m.k \in {"connreq", "connrsp", "cfgreq", "discreq"}
      /\ \A ch \in Channels : ch = "control" \/ ch = "interrupt"
  BY DEF Sent, Channels
<1>1. CASE m.k = "connrsp" /\ m.chan = "control"
  <2>1. D = [C EXCEPT !["control"] = m.dcid] /\ M = K BY <1>1 DEF HearsOne
  <2>2. D["control"] # 0 /\ D["interrupt"] = C["interrupt"] BY <2>1, <1>0 DEF Chans
  <2>3. OpenC(D, M) /\ (OpenI(C, K) => OpenI(D, M)) BY <2>1, <2>2 DEF OpenC, OpenI
  <2>4. HeldOk(q, D, M) BY <2>1, <2>2, <2>3 DEF HeldOk
  <2> QED BY <2>1, <2>4, <1>1
<1>2. CASE m.k = "cfgreq" /\ m.chan \in q.scid
  <2>1. CASE C[m.chan] = 0 BY <2>1, <1>2 DEF HearsOne
  <2>2. CASE C[m.chan] # 0
    <3>1. D = C /\ \A x : x \in M <=> x \in K \/ x = <<"cfgrsp", m.chan>> BY <1>2, <2>2 DEF HearsOne
    <3>2. \A k \in {"connrsp", "discrsp"}, ch \in Channels : <<k, ch>> \in M <=> <<k, ch>> \in K BY <3>1
    <3>3. \A ch \in Channels : <<"cfgrsp", ch>> \in M => <<"cfgrsp", ch>> \in K \/ ch = m.chan BY <3>1
    <3>4. (OpenC(C, K) <=> OpenC(D, M)) /\ (OpenI(C, K) <=> OpenI(D, M))
      BY <3>1, <3>2, <1>0 DEF OpenC, OpenI
    <3>5. m.chan = "control" => OpenC(D, M) BY <3>1, <2>2 DEF OpenC
    <3>6. m.chan = "interrupt" => "control" \in q.scid /\ OpenC(D, M) /\ OpenI(D, M)
      BY <3>1, <3>4, <2>2 DEF HeldOk, OpenI
    <3>a. (<<"connrsp", "control">> \in M \/ <<"cfgrsp", "control">> \in M) => OpenC(D, M)
      BY <3>2, <3>3, <3>4, <3>5, <1>0 DEF HeldOk
    <3>b. \A ch \in Channels : <<"cfgrsp", ch>> \in M => ch \in q.scid BY <3>3, <1>2 DEF HeldOk
    <3>c. (\/ D["interrupt"] # 0
           \/ \E k \in {"connrsp", "cfgrsp", "discrsp"} : <<k, "interrupt">> \in M) =>
               "control" \in q.scid /\ OpenC(D, M)
      BY <3>1, <3>2, <3>3, <3>4, <3>6, <1>0 DEF HeldOk
    <3>d. (<<"connrsp", "interrupt">> \in M \/ <<"cfgrsp", "interrupt">> \in M) => OpenI(D, M)
      BY <3>2, <3>3, <3>4, <3>6, <1>0 DEF HeldOk
    <3>e. "running" \in q.status => Channels \subseteq q.scid /\ OpenC(D, M) /\ OpenI(D, M)
      BY <3>4 DEF HeldOk
    <3>f. (\E ch \in Channels : <<"discrsp", ch>> \in M) => Channels \subseteq q.scid BY <3>2 DEF HeldOk
    <3> QED BY <3>1, <3>a, <3>b, <3>c, <3>d, <3>e, <3>f, <1>2 DEF HeldOk
  <2> QED BY <2>1, <2>2
<1>3. CASE m.k = "connreq" /\ m.chan = "interrupt" /\ "control" \in q.scid /\ OpenC(C, K)
  <2>1. D = [C EXCEPT !["interrupt"] = m.dcid] /\ \A x : x \in M <=> x \in K \/ x = <<"connrsp", "interrupt">>
    BY <1>3 DEF HearsOne
  <2>2. D["interrupt"] # 0 /\ D["control"] = C["control"] BY <2>1, <1>0 DEF Chans
  <2>3. /\ \A k \in {"cfgrsp", "discrsp"}, ch \in Channels : <<k, ch>> \in M <=> <<k, ch>> \in K
        /\ <<"connrsp", "control">> \in M <=> <<"connrsp", "control">> \in K
    BY <2>1
  <2>4. OpenC(D, M) /\ OpenI(D, M) BY <2>2, <2>3, <1>0, <1>3 DEF OpenC, OpenI
  <2>5. \A ch \in Channels : <<"cfgrsp", ch>> \in M => ch \in q.scid BY <2>3 DEF HeldOk
  <2>6. (\E ch \in Channels : <<"discrsp", ch>> \in M) => Channels \subseteq q.scid BY <2>3 DEF HeldOk
  <2>7. "running" \in q.status => Channels \subseteq q.scid BY DEF HeldOk
  <2> QED BY <2>1, <2>4, <2>5, <2>6, <2>7, <1>3 DEF HeldOk
<1>4. CASE m.k = "discreq" /\ m.chan = "interrupt" /\ "running" \in q.status
  <2>0. Channels \subseteq q.scid /\ OpenC(C, K) /\ OpenI(C, K) BY <1>4 DEF HeldOk
  <2>a. <<"discrsp", "control">> \in Tokens /\ <<"discrsp", "interrupt">> \in Tokens BY DEF Tokens
  <2>1. CASE C["interrupt"] = 0
    <3>1. D = C /\ M = K BY <2>1, <1>4 DEF HearsOne
    <3>2. <<"discrsp", "control">> \in K \/ <<"discrsp", "interrupt">> \in K BY <2>0, <2>1 DEF OpenI
    <3> QED BY <3>1, <3>2, <2>a
  <2>2. CASE C["interrupt"] # 0
    <3>1. D = [C EXCEPT !["interrupt"] = 0] /\ \A x : x \in M <=> x \in K \/ x = <<"discrsp", "interrupt">>
      BY <2>2, <1>4 DEF HearsOne
    <3>2. D["control"] = C["control"] /\ <<"discrsp", "interrupt">> \in M BY <3>1, <1>0 DEF Chans
    <3>3. OpenC(D, M) /\ OpenI(D, M) BY <3>1, <3>2, <2>0 DEF OpenC, OpenI
    <3>4. HeldOk(q, D, M) BY <3>3, <2>0, <1>0 DEF HeldOk
    <3> QED BY <3>1, <3>2, <3>4, <2>a
  <2> QED BY <2>1, <2>2
<1> QED BY <1>1, <1>2, <1>3, <1>4

(* What a packet of a slot's own link leaves: C and K are the channels and *)
(* the packets to come before it, D and M after the answers of the task.   *)
LEMMA BtTaskHeld ==
    ASSUME BtTypes, NEW p \in Slots, NEW m \in BtPackets, NEW t, TaskIs(p, m, t), ~t.cut,
           NEW C \in Chans, NEW K, NEW L, \A y : y \in K <=> y \in L \/ y = <<m.k, m.chan>>,
           HeldOk(pads[p], C, K), NEW D, NEW M, Chain(t.out, C, L, D, M)
    PROVE  /\ HeldOk(t.pad, D, M)
           /\ (\E x \in Tokens : x \in K) => \E x \in Tokens : x \in M
<1> DEFINE q == pads[p]
           x == <<m.k, m.chan>>
<1>0. /\ m.chan \in Channels /\ "control" \in Channels /\ "interrupt" \in Channels
      /\ \A ch \in Channels : ch = "control" \/ ch = "interrupt"
  BY DEF BtPackets, Channels
<1>1. ASSUME NEW k \in {"connreq", "connrsp", "cfgreq", "discreq"}, NEW ch \in Channels
      PROVE  LET y == Reply(p, k, ch) IN Sent(y, y.handle) /\ y.k = k /\ y.chan = ch
  BY <1>1 DEF Reply, Packet, Sent, Dcid
<1>2. m.k # "discrsp" => x \notin Tokens BY DEF Tokens
<1>3. m.k # "discrsp" => /\ HeldOk(q, C, L) /\ (OpenC(C, K) => OpenC(C, L)) /\ (OpenI(C, K) => OpenI(C, L))
                         /\ \A y \in Tokens : y \in K => y \in L
  BY <1>2, BtPopHeld
<1>4. x \in K OBVIOUS
<1>5. /\ Len(<<>>) = 0 /\ \A a : Len(<<a>>) = 1 /\ <<a>>[1] = a
      /\ \A a, b : Len(<<a, b>>) = 2 /\ <<a, b>>[1] = a /\ <<a, b>>[2] = b
  OBVIOUS
<1>6. CASE /\ m.k = "connreq" /\ t.pad.scid = q.scid \cup {"control"} /\ t.pad.status = q.status
           /\ t.out = <<Reply(p, "connrsp", "control"), Reply(p, "cfgreq", "control")>>
  <2> DEFINE a == Reply(p, "connrsp", "control")
             b == Reply(p, "cfgreq", "control")
  <2>1. /\ Sent(a, a.handle) /\ a.k = "connrsp" /\ a.chan = "control"
        /\ Sent(b, b.handle) /\ b.k = "cfgreq" /\ b.chan = "control"
    BY <1>0, <1>1
  <2> HIDE DEF a, b
  <2>2. PICK E \in Chans : \E N : HearsOne(a, C, L, E, N) /\ HearsOne(b, E, N, D, M)
    BY <1>5, <1>6 DEF Chain, a, b
  <2>3. PICK N : HearsOne(a, C, L, E, N) /\ HearsOne(b, E, N, D, M) BY <2>2
  <2>4. HeldOk(t.pad, C, L) BY <1>3, <1>6, BtMoreHeld
  <2>5. HeldOk(t.pad, E, N) /\ \A y \in L : y \in N
    <3>1. Sent(a, a.handle) /\ HearsOne(a, C, L, E, N) /\ a.k = "connrsp" /\ a.chan = "control"
      BY <2>1, <2>3
    <3> HIDE DEF q, x
    <3> QED BY <3>1, <2>4, BtHeard
  <2>6. b.chan \in t.pad.scid BY <2>1, <1>6
  <2>7. HeldOk(t.pad, D, M) /\ \A y \in N : y \in M BY <2>1, <2>3, <2>5, <2>6, BtHeard
  <2> QED BY <2>5, <2>7, <1>3, <1>6
<1>7. CASE /\ m.k = "connrsp" /\ t.pad.scid = q.scid \cup {m.chan} /\ t.pad.status = q.status
           /\ t.out = <<Reply(p, "cfgreq", m.chan)>>
  <2> DEFINE b == Reply(p, "cfgreq", m.chan)
  <2>1. Sent(b, b.handle) /\ b.k = "cfgreq" /\ b.chan = m.chan BY <1>0, <1>1
  <2> HIDE DEF b
  <2>2. HearsOne(b, C, L, D, M) BY <1>5, <1>7 DEF Chain, b
  <2>3. HeldOk(t.pad, C, L) BY <1>3, <1>7, BtMoreHeld
  <2>4. b.chan \in t.pad.scid BY <2>1, <1>7
  <2>5. HeldOk(t.pad, D, M) /\ \A y \in L : y \in M BY <2>1, <2>2, <2>3, <2>4, BtHeard
  <2> QED BY <2>5, <1>3, <1>7
<1>8. CASE /\ m.k = "cfgrsp" /\ m.chan = "control" /\ t.pad = q
           /\ t.out = <<Reply(p, "connreq", "interrupt")>>
  <2> DEFINE b == Reply(p, "connreq", "interrupt")
  <2>1. Sent(b, b.handle) /\ b.k = "connreq" /\ b.chan = "interrupt" BY <1>0, <1>1
  <2> HIDE DEF b
  <2>2. HearsOne(b, C, L, D, M) BY <1>5, <1>8 DEF Chain, b
  <2>3. "control" \in q.scid /\ OpenC(C, K) BY <1>0, <1>4, <1>8 DEF HeldOk
  <2>4. HeldOk(q, C, L) /\ OpenC(C, L) BY <2>3, <1>3, <1>8
  <2>5. HeldOk(q, D, M) /\ \A y \in L : y \in M BY <2>1, <2>2, <2>3, <2>4, BtHeard
  <2> QED BY <2>5, <1>3, <1>8
<1>9. CASE /\ m.k = "cfgrsp" /\ m.chan = "interrupt" /\ t.pad.scid = q.scid
           /\ t.pad.status = q.status \cup {"running"} /\ t.out = <<>>
  <2>1. D = C /\ M = L BY <1>5, <1>9 DEF Chain
  <2>2. "interrupt" \in q.scid /\ "control" \in q.scid /\ OpenC(C, K) /\ OpenI(C, K)
    BY <1>0, <1>4, <1>9 DEF HeldOk
  <2>3. Channels \subseteq q.scid BY <2>2, <1>0
  <2>4. HeldOk(t.pad, C, L) BY <2>2, <2>3, <1>3, <1>9, BtMoreHeld
  <2> QED BY <2>1, <2>4, <1>3, <1>9
<1>10. CASE /\ m.k = "discrsp" /\ m.chan = "interrupt" /\ t.pad.scid = q.scid
            /\ t.pad.status = q.status \cup {"disconnecting"}
            /\ t.out = <<Reply(p, "discreq", "control")>>
  <2> DEFINE b == Reply(p, "discreq", "control")
  <2>1. Sent(b, b.handle) /\ b.k = "discreq" /\ b.chan = "control" BY <1>0, <1>1
  <2> HIDE DEF b
  <2>2. HearsOne(b, C, L, D, M) BY <1>5, <1>10 DEF Chain, b
  <2>3. Channels \subseteq q.scid /\ OpenC(C, K) BY <1>0, <1>4, <1>10 DEF HeldOk
  <2>4. <<"discrsp", "control">> \in M
    <3>1. CASE C["control"] # 0 BY <3>1, <2>1, <2>2 DEF HearsOne
    <3>2. CASE C["control"] = 0
      <4>1. <<"discrsp", "control">> \in K BY <3>2, <2>3 DEF OpenC
      <4>2. <<"discrsp", "control">> \in L BY <4>1, <1>10
      <4>3. M = L BY <3>2, <2>1, <2>2 DEF HearsOne
      <4> QED BY <4>2, <4>3
    <3> QED BY <3>1, <3>2
  <2>5. HeldOk(t.pad, D, M) BY <2>3, <2>4, <1>10, BtTokenHeld
  <2> QED BY <2>4, <2>5 DEF Tokens
<1>11. CASE /\ m.k = "discrsp" => m.chan \notin q.scid
            /\ t.pad.scid = q.scid /\ t.out = <<>>
            /\ t.pad.status \in {q.status, q.status \cup {"disconnecting"}}
  <2>1. D = C /\ M = L BY <1>5, <1>11 DEF Chain
  <2>2. m.k # "discrsp"
    <3>1. m.k = "discrsp" => Channels \subseteq q.scid BY <1>0, <1>4 DEF HeldOk
    <3> QED BY <3>1, <1>0, <1>11
  <2>3. "running" \in t.pad.status => "running" \in q.status BY <1>11
  <2>4. HeldOk(t.pad, C, L) BY <2>2, <2>3, <1>3, <1>11, BtMoreHeld
  <2> QED BY <2>1, <2>2, <2>4, <1>3
<1> QED BY <1>6, <1>7, <1>8, <1>9, <1>10, <1>11 DEF TaskIs

(* The slot a reset waits for is about to stop or has stopped.             *)
StopsAt(p) ==
    \/ "request" \in pads'[p].status
    \/ /\ "running" \in pads'[p].status
       /\ \/ AnnIn(events', pads'[p].handle) \/ DoomIn(ctls', links', orders', pads'[p].handle)
          \/ <<"discrsp", "control">> \in Kinds(packets', pads'[p].handle)
          \/ <<"discrsp", "interrupt">> \in Kinds(packets', pads'[p].handle)
    \/ /\ "connected" \notin pads'[p].status /\ "running" \notin pads'[p].status
       /\ \A i \in DOMAIN events' : events'[i].k = "complete" => events'[i].ctl # pads'[p].addr

(* A step about the link of one handle.                                    *)
LEMMA BtOneLink ==
    ASSUME BtInv, BtTypes', NEW h \in BtHandles, UNCHANGED <<usb, events, links, call>>,
           usb \in {"set", "configured"},
           \A d \in BtCtls : ctls'[d].at = ctls[d].at /\ (d # links[h] => ctls'[d] = ctls[d]),
           \A g : g # h => Kinds(packets', g) = Kinds(packets, g),
           \A c \in BtCtls : Accept(c) \in orders' => Accept(c) \in orders,
           ~crossed' => ~crossed /\ \A o \in orders : o \in orders', torn' = torn,
           \A s \in Slots : pads[s].handle # h => pads'[s] = pads[s],
           \A s \in Slots : /\ pads'[s].handle = pads[s].handle /\ pads'[s].addr = pads[s].addr
                            /\ "connected" \in pads'[s].status => "connected" \in pads[s].status,
           \A s \in Slots : ~crossed' /\ pads[s].handle = h =>
              /\ "connected" \in pads'[s].status
              /\ (~AnnIn(events, h) /\ ~DoomIn(ctls', links', orders', h)) =>
                    HeldOk(pads'[s], ctls'[links[h]].chan, Kinds(packets', h)),
           ~crossed' /\ FreshIn(events, h) /\ ~DoomIn(ctls', links', orders', h) =>
              FreshOk(ctls'[links[h]].chan, Kinds(packets', h)),
           ~crossed' /\ call.op = "poll" /\ pads[call.pad].handle = h => StopsAt(call.pad)
    PROVE  BtInv'
<1>0. /\ BtTypes /\ BtOut /\ BtCtlInv /\ BtEventInv(events, links) /\ BtSlotInv /\ BtLinkInv
      /\ BtResetInv /\ events \in Seq(BtEventTypes) /\ links \in [BtHandles -> BtCtls \cup {NoCtl}]
  BY DEF BtInv, BtTypes, BtTypeOK
<1>c. NoHandle \notin BtHandles /\ NoCtl \notin BtCtls BY BtAssumption
<1>1. BtOut' BY DEF BtOut
<1>2. BtCtlInv' BY <1>0, BtCtlFrame
<1>3. BtEventInv(events, links)' BY <1>0 DEF BtEventInv
<1>4. \A s \in Slots : KeepsLink(s) BY DEF KeepsLink
<1>5. BtSlotInv' BY <1>0, <1>4, BtSlotFrame
<1>6. ~crossed' => \A g : DoomIn(ctls, links, orders, g) => DoomIn(ctls', links', orders', g) BY DEF DoomIn
<1>7. \A g \in BtHandles : g # h /\ links[g] \in BtCtls => ctls'[links[g]] = ctls[links[g]]
  BY <1>0, <1>c DEF BtCtlInv
<1>8. ASSUME ~crossed', NEW s \in Slots, "running" \in pads'[s].status PROVE "connected" \in pads'[s].status
  BY <1>0, <1>8 DEF BtLinkInv
<1>9. ASSUME ~crossed', NEW s \in Slots, "connected" \in pads'[s].status, ~AnnIn(events', pads'[s].handle),
             ~DoomIn(ctls', links', orders', pads'[s].handle)
      PROVE  HeldOk(pads'[s], ctls'[links'[pads'[s].handle]].chan, Kinds(packets', pads'[s].handle))
  <2>1. CASE pads[s].handle = h BY <2>1, <1>9
  <2>2. CASE pads[s].handle # h
    <3> DEFINE g == pads[s].handle
    <3>1. pads'[s] = pads[s] /\ "connected" \in pads[s].status BY <2>2, <1>9
    <3>2. g \in BtHandles BY <3>1, <1>0, <1>9 DEF BtSlotInv, BtLinkInv
    <3>3. links[g] # NoCtl BY <3>1, <3>2, <1>0, <1>9 DEF BtSlotInv
    <3>4. links[g] \in BtCtls BY <3>2, <3>3, <1>0
    <3>5. HeldOk(pads[s], ctls[links[g]].chan, Kinds(packets, g)) BY <3>1, <1>0, <1>6, <1>9 DEF BtLinkInv
    <3>6. ctls'[links[g]] = ctls[links[g]] /\ Kinds(packets', g) = Kinds(packets, g) BY <3>2, <3>4, <2>2, <1>7
    <3> QED BY <3>1, <3>5, <3>6
  <2> QED BY <2>1, <2>2
<1>10. ASSUME ~crossed', NEW g \in BtHandles, FreshIn(events', g), ~DoomIn(ctls', links', orders', g)
       PROVE  FreshOk(ctls'[links'[g]].chan, Kinds(packets', g))
  <2>1. CASE g = h BY <2>1, <1>10
  <2>2. CASE g # h
    <3>1. links[g] \in BtCtls
      <4>1. PICK i \in DOMAIN events : /\ events[i].k = "complete" /\ events[i].handle = g
                                       /\ \A n \in DOMAIN events : i < n => events[n] # Disc(g)
        BY <1>10 DEF FreshIn
      <4>2. links[g] = events[i].ctl BY <4>1, <1>0 DEF BtEventInv
      <4>3. events[i] \in BtEventTypes BY <1>0
      <4> QED BY <4>1, <4>2, <4>3 DEF BtEventTypes
    <3>2. FreshOk(ctls[links[g]].chan, Kinds(packets, g)) BY <1>0, <1>6, <1>10 DEF BtLinkInv
    <3>3. ctls'[links[g]] = ctls[links[g]] /\ Kinds(packets', g) = Kinds(packets, g) BY <3>1, <2>2, <1>7
    <3> QED BY <3>2, <3>3
  <2> QED BY <2>1, <2>2
<1>d. ~crossed' => torn' = {} BY <1>0 DEF BtLinkInv
<1>11. BtLinkInv'
  BY <1>8, <1>9, <1>10, <1>d DEF BtLinkInv, HeldOk, FreshOk, OpenC, OpenI, Kinds
<1>12. BtResetInv'
  <2> SUFFICES ASSUME ~crossed', call.op = "poll" PROVE StopsAt(call.pad)
    BY DEF BtResetInv, Kinds, StopsAt
  <2> DEFINE a == call.pad
             q == pads[a]
  <2>1. a \in Slots BY <1>0 DEF BtTypes, BtTypeOK
  <2>2. CASE q.handle = h BY <2>2
  <2>3. CASE q.handle # h
    <3>1. pads'[a] = q /\ Kinds(packets', q.handle) = Kinds(packets, q.handle) BY <2>1, <2>3
    <3>2. \/ "request" \in q.status
          \/ /\ "running" \in q.status
             /\ \/ AnnIn(events, q.handle) \/ DoomIn(ctls, links, orders, q.handle)
                \/ <<"discrsp", "control">> \in Kinds(packets, q.handle)
                \/ <<"discrsp", "interrupt">> \in Kinds(packets, q.handle)
          \/ /\ "connected" \notin q.status /\ "running" \notin q.status
             /\ \A i \in DOMAIN events : events[i].k = "complete" => events[i].ctl # q.addr
      BY <1>0 DEF BtResetInv
    <3> HIDE DEF a, q
    <3> QED BY <3>1, <3>2, <1>6 DEF StopsAt, a
  <2> QED BY <2>2, <2>3
<1> QED BY <1>1, <1>2, <1>3, <1>5, <1>11, <1>12 DEF BtInv

BtSent(p) == [handle : {pads[p].handle}, k : {"connreq", "connrsp", "cfgreq", "discreq"},
              chan : Channels, dcid : {40, 70}]

(* What the driver answers to a packet, with the launcher's request.       *)
LEMMA BtAnswer ==
    ASSUME BtTypes, NEW p \in Slots, NEW m, NEW t, TaskIs(p, m, t), m.chan \in Channels
    PROVE  LET r == Requested(t, p)
               due == {"running", "request"} \subseteq t.pad.status
               b == Reply(p, "discreq", "interrupt")
           IN /\ ~due => r = t
              /\ due /\ t.pad.fake => r.out = t.out /\ r.cut
              /\ due /\ ~t.pad.fake => r.out = Append(t.out, b) /\ (r.cut <=> t.cut)
              /\ due => "request" \notin r.pad.status
              /\ r.pad.scid = t.pad.scid
              /\ r.pad \in PadTypes /\ r.pad.addr = pads[p].addr /\ r.pad.handle = pads[p].handle
              /\ "running" \in r.pad.status <=> "running" \in t.pad.status
              /\ "connected" \in r.pad.status <=> "connected" \in pads[p].status
              /\ t.out \in Seq(BtSent(p)) /\ Len(t.out) \in 0 .. 2 /\ b \in BtSent(p)
              /\ Len(r.out) \in 0 .. 3 /\ \A i \in 1 .. Len(r.out) : Sent(r.out[i], pads[p].handle)
              /\ r.out \in Seq(BtSent(p))
<1> DEFINE r == Requested(t, p)
           due == {"running", "request"} \subseteq t.pad.status
           b == Reply(p, "discreq", "interrupt")
           S == BtSent(p)
<1>0. pads[p] \in PadTypes BY DEF BtTypes, BtTypeOK, PadTypes
<1>1. /\ t.pad \in PadTypes /\ t.pad.addr = pads[p].addr /\ t.pad.handle = pads[p].handle
  BY DEF TaskIs
<1>2. \A k \in {"connreq", "connrsp", "cfgreq", "discreq"}, ch \in Channels : Reply(p, k, ch) \in S
  BY DEF Reply, Packet, BtSent, Dcid
<1>3. b \in S BY <1>2 DEF Channels
<1>4. t.out \in Seq(S) /\ Len(t.out) \in 0 .. 2
  <2>0. "control" \in Channels /\ "interrupt" \in Channels BY DEF Channels
  <2>1. \/ t.out = <<>> \/ \E x \in S : t.out = <<x>> \/ \E y \in S : t.out = <<x, y>>
    BY <2>0, <1>2 DEF TaskIs
  <2> HIDE DEF S
  <2>2. CASE t.out = <<>> BY <2>2
  <2>3. ASSUME NEW x \in S, t.out = <<x>> PROVE t.out \in Seq(S) /\ Len(t.out) \in 0 .. 2 BY <2>3
  <2>4. ASSUME NEW x \in S, NEW y \in S, t.out = <<x, y>> PROVE t.out \in Seq(S) /\ Len(t.out) \in 0 .. 2
    BY <2>4
  <2> QED BY <2>1, <2>2, <2>3, <2>4
<1>5. "connected" \in t.pad.status <=> "connected" \in pads[p].status BY DEF TaskIs
<1>6. CASE ~due
  <2>1. r = t BY <1>6 DEF Requested
  <2>2. \A i \in 1 .. Len(t.out) : Sent(t.out[i], pads[p].handle)
    <3>1. \A i \in 1 .. Len(t.out) : t.out[i] \in S BY <1>4
    <3> QED BY <3>1 DEF BtSent, Sent
  <2> QED BY <2>1, <2>2, <1>1, <1>3, <1>4, <1>5, <1>6
<1>7. CASE due
  <2> DEFINE w == [t.pad EXCEPT !.status = @ \ {"request"}]
  <2>1. /\ r.pad = w /\ r.out = (IF t.pad.fake THEN t.out ELSE Append(t.out, b))
        /\ r.cut <=> t.cut \/ t.pad.fake
    BY <1>1, <1>7 DEF Requested, Reply
  <2>2. /\ w \in PadTypes /\ w.addr = t.pad.addr /\ w.handle = t.pad.handle /\ w.scid = t.pad.scid
        /\ w.status = t.pad.status \ {"request"}
    BY <1>1 DEF PadTypes
  <2> HIDE DEF w
  <2>3. Append(t.out, b) \in Seq(S) /\ Len(Append(t.out, b)) = Len(t.out) + 1 BY <1>3, <1>4, AppendProperties
  <2>4. r.out \in Seq(S) /\ Len(r.out) \in 0 .. 3
    <3> HIDE DEF S, r, b
    <3>0. \A n \in 0 .. 2 : n + 1 \in 0 .. 3 /\ n \in 0 .. 3 OBVIOUS
    <3>1. Len(t.out) + 1 \in 0 .. 3 /\ Len(t.out) \in 0 .. 3 BY <3>0, <1>4
    <3> QED BY <3>1, <2>1, <2>3, <1>4
  <2>5. \A i \in 1 .. Len(r.out) : Sent(r.out[i], pads[p].handle)
    <3>1. \A i \in 1 .. Len(r.out) : r.out[i] \in S BY <2>4
    <3> QED BY <3>1 DEF BtSent, Sent
  <2>6. /\ "running" \in r.pad.status <=> "running" \in t.pad.status
        /\ "connected" \in r.pad.status <=> "connected" \in t.pad.status
        /\ "request" \notin r.pad.status
    BY <2>1, <2>2
  <2> QED BY <2>1, <2>2, <2>4, <2>5, <2>6, <1>1, <1>3, <1>4, <1>5, <1>7
<1> QED BY <1>6, <1>7

(* One of the answers is lost.                                             *)
LEMMA BtWithout ==
    ASSUME NEW S, NEW out \in Seq(S), Len(out) \in 0 .. 3, NEW i \in DOMAIN out
    PROVE  Without(out, i) \in Seq(S) /\ Len(Without(out, i)) \in 0 .. 3
<1> DEFINE n == Len(out) - 1
           w == Without(out, i)
<1>1. DOMAIN out = 1 .. Len(out) /\ \A j \in 1 .. Len(out) : out[j] \in S OBVIOUS
<1>2. n \in Nat /\ n \in 0 .. 3 BY <1>1
<1>3. \A j \in 1 .. n : j \in 1 .. Len(out) /\ j + 1 \in 1 .. Len(out) BY <1>1
<1>4. w = [j \in 1 .. n |-> IF j < i THEN out[j] ELSE out[j + 1]] BY DEF Without
<1> HIDE DEF n, w
<1>5. w \in [1 .. n -> S] BY <1>1, <1>3, <1>4
<1>6. w \in Seq(S) BY <1>2, <1>5, SeqDef
<1>7. DOMAIN w = 1 .. n BY <1>5
<1>8. Len(w) \in Nat /\ DOMAIN w = 1 .. Len(w) BY <1>6
<1>9. Len(w) = n BY <1>2, <1>7, <1>8
<1> QED BY <1>2, <1>6, <1>9 DEF w

(* L2CAP_event_task and l2cap_event_cb handle a packet for slot p.         *)
LEMMA BtPacketStep ==
    ASSUME BtInv, L2capEvent, ~(PacketPad > BtPads) PROVE BtInv'
<1> DEFINE p == PacketPad
           m == Head(packets)
           h == m.handle
           q == pads[p]
           t == L2capTask(p, m)
           r == Requested(t, p)
           c == links[h]
           due == {"running", "request"} \subseteq t.pad.status
           b == Reply(p, "discreq", "interrupt")
<1>0. /\ BtTypes /\ BtOut /\ BtCtlInv /\ BtEventInv(events, links) /\ BtSlotInv /\ BtLinkInv
      /\ BtResetInv /\ events \in Seq(BtEventTypes) /\ links \in [BtHandles -> BtCtls \cup {NoCtl}]
      /\ packets \in Seq(BtPackets) /\ pads \in [Slots -> PadTypes]
      /\ ctls \in [BtCtls -> CtlTypes]
  BY DEF BtInv, BtTypes, BtTypeOK, PadTypes, CtlTypes
<1>c. NoHandle \notin BtHandles /\ NoCtl \notin BtCtls BY BtAssumption
<1>1. /\ usb \in {"set", "configured"} /\ packets # <<>>
      /\ pads' = [pads EXCEPT ![p] = r.pad]
      /\ UNCHANGED <<usb, call, events, links, torn>>
  BY DEF L2capEvent
<1>d. PICK lost \in SUBSET {o \in orders : r.cut /\ o.k = "disconnect"} :
        /\ orders' = (orders \ lost) \cup (IF r.cut THEN {Disconnect(r.pad.handle)} ELSE {})
        /\ \/ /\ Arrives(Tail(packets), r.out) /\ UNCHANGED left
              /\ crossed' = (crossed \/ ~IsOwn(p) \/ lost # {})
           \/ /\ \E i \in DOMAIN r.out : Arrives(Tail(packets), Without(r.out, i))
              /\ Spend("faults") /\ crossed' = TRUE
  BY DEF L2capEvent, Hears
<1>e. PICK out : /\ Arrives(Tail(packets), out)
                 /\ out = r.out \/ \E i \in DOMAIN r.out : out = Without(r.out, i)
                 /\ ~crossed' => out = r.out
  BY <1>d
<1>f. /\ crossed' \in BOOLEAN
      /\ ~crossed' => ~crossed /\ lost = {} /\ IsOwn(p)
      /\ left' \in [calls : 0 .. MaxBtCalls, connects : 0 .. MaxBtConnects, faults : 0 .. MaxBtFaults]
  <2>1. crossed \in BOOLEAN BY <1>0 DEF BtTypes, BtTypeOK
  <2>2. left \in [calls : 0 .. MaxBtCalls, connects : 0 .. MaxBtConnects, faults : 0 .. MaxBtFaults]
    BY <1>0 DEF BtTypes, BtTypeOK
  <2>3. Spend("faults") =>
          left' \in [calls : 0 .. MaxBtCalls, connects : 0 .. MaxBtConnects, faults : 0 .. MaxBtFaults]
    BY <1>0, BtSpend
  <2>4. crossed' \in BOOLEAN /\ (~crossed' => ~crossed /\ lost = {} /\ IsOwn(p)) BY <1>d, <2>1
  <2> QED BY <1>d, <2>2, <2>3, <2>4
<1>2. p \in Slots /\ pads[p].handle = h
  <2>1. {s \in Slots : pads[s].handle = Head(packets).handle} \in SUBSET Slots OBVIOUS
  <2> QED BY <2>1, BtFirst DEF PacketPad
<1> HIDE DEF p
<1>3. /\ Tail(packets) \in Seq(BtPackets) /\ m \in BtPackets
      /\ \A i \in DOMAIN Tail(packets) : \E j \in DOMAIN packets : Tail(packets)[i] = packets[j]
      /\ \A g : g # h => Kinds(Tail(packets), g) = Kinds(packets, g)
      /\ \A x : x \in Kinds(packets, h) <=> x \in Kinds(Tail(packets), h) \/ x = <<m.k, m.chan>>
  BY <1>0, <1>1, BtKindsTail
<1>4. /\ h \in BtHandles /\ m.chan \in Channels BY <1>3 DEF BtPackets
<1>5. m.k = "connreq" => m.chan = "control"
  <2>1. 1 \in DOMAIN packets /\ m = packets[1] BY <1>0, <1>1
  <2> QED BY <2>1, <1>0 DEF BtTypes
<1>6. \A i \in DOMAIN Tail(packets) : Tail(packets)[i].k = "connreq" => Tail(packets)[i].chan = "control"
  BY <1>0, <1>3 DEF BtTypes
<1> HIDE DEF m
<1>7. TaskIs(p, m, t) BY <1>0, <1>2, <1>3, <1>5, BtTask
<1> HIDE DEF t
<1>8. /\ ~due => r = t
      /\ due /\ t.pad.fake => r.out = t.out /\ r.cut
      /\ due /\ ~t.pad.fake => r.out = Append(t.out, b) /\ (r.cut <=> t.cut)
      /\ due => "request" \notin r.pad.status
      /\ r.pad.scid = t.pad.scid
      /\ r.pad \in PadTypes /\ r.pad.addr = q.addr /\ r.pad.handle = q.handle
      /\ "running" \in r.pad.status <=> "running" \in t.pad.status
      /\ "connected" \in r.pad.status <=> "connected" \in q.status
      /\ t.out \in Seq(BtSent(p)) /\ Len(t.out) \in 0 .. 2 /\ b \in BtSent(p)
      /\ Len(r.out) \in 0 .. 3 /\ \A i \in 1 .. Len(r.out) : Sent(r.out[i], q.handle)
      /\ r.out \in Seq(BtSent(p))
  BY <1>0, <1>2, <1>4, <1>7, BtAnswer
<1> HIDE DEF r, b, h
<1>9. q.handle = h /\ q \in PadTypes BY <1>0, <1>2
<1>10. /\ AirOk([ctls |-> ctls', packets |-> packets'])
       /\ SameElsewhere(h, [ctls |-> ctls, packets |-> Tail(packets)], [ctls |-> ctls', packets |-> packets'])
  <2>1. h \in BtHandles \cup {NoHandle} BY <1>4
  <2>2. out \in Seq(BtSent(p)) /\ Len(out) \in 0 .. 3 BY <1>8, <1>e, BtWithout
  <2>3. \A i \in 1 .. Len(out) : Sent(out[i], h)
    <3>1. \A i \in 1 .. Len(out) : out[i] \in BtSent(p) BY <2>2
    <3> QED BY <3>1, <1>9 DEF BtSent, Sent
  <2> QED BY <2>1, <2>2, <2>3, <1>0, <1>3, <1>6, <1>e, BtArrivesFrame
<1>11. /\ ctls' \in [BtCtls -> CtlTypes] /\ packets' \in Seq(BtPackets)
       /\ \A i \in DOMAIN packets' : packets'[i].k = "connreq" => packets'[i].chan = "control"
       /\ \A d \in BtCtls : ctls'[d].at = ctls[d].at
  BY <1>10 DEF AirOk
<1>12. /\ \A d \in BtCtls : d # c => ctls'[d] = ctls[d]
       /\ \A g : g # h => Kinds(packets', g) = Kinds(packets, g)
  BY <1>3, <1>4, <1>10 DEF SameElsewhere
<1>13. /\ pads' \in [Slots -> PadTypes] /\ pads'[p] = r.pad
       /\ \A s \in Slots : s # p => pads'[s] = pads[s]
  BY <1>0, <1>1, <1>2, <1>8
<1>14. /\ \A o : o \in orders' => o \in orders \/ (r.cut /\ o = Disconnect(h))
       /\ r.cut => Disconnect(h) \in orders'
       /\ ~crossed' => \A o \in orders : o \in orders'
       /\ \A d \in BtCtls : Accept(d) \in orders' => Accept(d) \in orders
  <2>1. \A d : Accept(d) # Disconnect(h) BY DEF Accept, Disconnect, Event
  <2>2. r.pad.handle = h BY <1>8, <1>9
  <2> QED BY <2>1, <2>2, <1>d, <1>f
<1>15. BtTypes'
  <2>1. BtTypeOK' BY <1>0, <1>1, <1>11, <1>13, <1>f DEF BtTypes, BtTypeOK, CtlTypes, PadTypes
  <2>2. BtOrders(orders') BY <1>0, <1>4, <1>14 DEF BtTypes, BtOrders
  <2> QED BY <2>1, <2>2, <1>0, <1>1, <1>11 DEF BtTypes, BtOrders, Accept, Disconnect, Event
<1>16. ~crossed' => \A g : DoomIn(ctls, links, orders, g) => DoomIn(ctls', links', orders', g)
  BY <1>1, <1>11, <1>14 DEF DoomIn
<1>17. \A s \in Slots : pads[s].handle = h => s = p
  <2>1. h # NoHandle BY <1>4, <1>c
  <2> QED BY <2>1, <1>0, <1>2 DEF BtSlotInv, OneSlotPerHandle
<1>18. \A s \in Slots : /\ pads'[s].handle = pads[s].handle /\ pads'[s].addr = pads[s].addr
                        /\ "connected" \in pads'[s].status => "connected" \in pads[s].status
  BY <1>8, <1>13
<1>19. \A g : AnnIn(events, g) <=> Announced(g) BY DEF AnnIn, Announced, Disc
<1>20. ASSUME ~crossed'
       PROVE  /\ ~crossed /\ "connected" \in q.status
              /\ links[h] = NoCtl \/ (links[h] = q.addr /\ ~AnnIn(events, h))
  <2>1. IsOwn(p) /\ ~crossed BY <1>20, <1>f
  <2> QED BY <2>1, <1>2, <1>19 DEF IsOwn
<1>21. ASSUME ~crossed' PROVE ~FreshIn(events, h)
  <2> SUFFICES ASSUME FreshIn(events, h) PROVE FALSE OBVIOUS
  <2>1. PICK i \in DOMAIN events : /\ events[i].k = "complete" /\ events[i].handle = h
                                   /\ \A n \in DOMAIN events : i < n => events[n] # Disc(h)
    BY DEF FreshIn
  <2>2. links[h] = events[i].ctl BY <2>1, <1>0 DEF BtEventInv
  <2>3. events[i] \in BtEventTypes BY <1>0
  <2>4. links[h] # NoCtl BY <2>1, <2>2, <2>3, <1>c DEF BtEventTypes
  <2>5. AnnIn(events, h) BY <2>1, <1>0, <1>2, <1>4 DEF BtSlotInv, AnnIn
  <2> QED BY <2>4, <2>5, <1>20, <1>21
<1>22. ASSUME ~crossed', ~AnnIn(events, h), ~DoomIn(ctls', links', orders', h)
       PROVE  /\ HeldOk(r.pad, ctls'[c].chan, Kinds(packets', h))
              /\ ((\E x \in Tokens : x \in Kinds(packets, h)) \/ due) =>
                    \E x \in Tokens : x \in Kinds(packets', h)
  <2> DEFINE C == ctls[c].chan
             D == ctls'[c].chan
             K == Kinds(packets, h)
             L == Kinds(Tail(packets), h)
             M == Kinds(packets', h)
  <2>1. "connected" \in q.status /\ ~DoomIn(ctls, links, orders, h) BY <1>16, <1>20, <1>22
  <2>2. links[h] # NoCtl BY <1>0, <1>2, <1>4, <1>22 DEF BtSlotInv
  <2>3. c \in BtCtls /\ ctls[c].at # "leaving" BY <2>1, <2>2, <1>0, <1>4 DEF DoomIn
  <2>4. HeldOk(q, C, K) BY <2>1, <1>0, <1>2, <1>20, <1>22 DEF BtLinkInv
  <2>5. Chain(r.out, C, L, D, M)
    <3>1. Len(r.out) \in 0 .. 3 /\ \A i \in 1 .. Len(r.out) : Sent(r.out[i], h) BY <1>8, <1>9
    <3>2. Arrives(Tail(packets), r.out) BY <1>22, <1>e
    <3> QED BY <3>1, <3>2, <2>2, <2>3, <1>0, <1>1, <1>3, <1>4, <1>6, BtChainOf
  <2>6. C \in Chans BY <2>3, <1>0 DEF CtlTypes, Chans
  <2>7. ~r.cut BY <1>14, <1>22 DEF DoomIn
  <2> HIDE DEF C, D, K, L, M, c
  <2>8. \A y : y \in K <=> y \in L \/ y = <<m.k, m.chan>> BY <1>3 DEF K, L
  <2>9. CASE ~due
    <3>1. r = t BY <1>8, <2>9
    <3>2. ~t.cut /\ Chain(t.out, C, L, D, M) BY <3>1, <2>5, <2>7
    <3>3. /\ HeldOk(t.pad, D, M)
          /\ (\E x \in Tokens : x \in K) => \E x \in Tokens : x \in M
      <4>1. BtTypes /\ m \in BtPackets /\ p \in Slots /\ HeldOk(pads[p], C, K) BY <2>4, <1>0, <1>2, <1>3
      <4> QED BY <4>1, <3>2, <2>6, <2>8, <1>7, BtTaskHeld
    <3> QED BY <3>1, <3>3, <2>9 DEF D, K, M
  <2>10. CASE due
    <3>1. ~t.pad.fake /\ r.out = Append(t.out, b) /\ ~t.cut BY <1>8, <2>7, <2>10
    <3>2. \E E \in Chans : \E N : Chain(t.out, C, L, E, N) /\ HearsOne(b, E, N, D, M)
      <4>1. Chain(Append(t.out, b), C, L, D, M) BY <3>1, <2>5
      <4> QED BY <4>1, <2>6, <1>8, BtChainLast
    <3>3. PICK E \in Chans : \E N : Chain(t.out, C, L, E, N) /\ HearsOne(b, E, N, D, M) BY <3>2
    <3>4. PICK N : Chain(t.out, C, L, E, N) /\ HearsOne(b, E, N, D, M) BY <3>3
    <3>5. HeldOk(t.pad, E, N)
      BY <3>1, <3>4, <2>4, <2>6, <2>8, <1>0, <1>2, <1>3, <1>7, BtTaskHeld
    <3>6. HeldOk(r.pad, E, N) BY <3>5, <1>8, BtMoreHeld
    <3>7. Sent(b, b.handle) /\ b.k = "discreq" /\ b.chan = "interrupt"
      BY DEF b, Reply, Packet, Sent, Dcid, Channels
    <3>8. "running" \in r.pad.status BY <2>10, <1>8
    <3>9. HeldOk(r.pad, D, M) /\ \E x \in Tokens : x \in M BY <3>4, <3>6, <3>7, <3>8, BtHeard
    <3> QED BY <3>9 DEF D, M
  <2> QED BY <2>9, <2>10
<1>23. ASSUME ~crossed', call.op = "poll", call.pad = p PROVE StopsAt(p)
  <2>1. /\ "connected" \in q.status /\ ~crossed BY <1>20, <1>23
  <2>2. \/ "request" \in q.status
        \/ /\ "running" \in q.status
           /\ \/ AnnIn(events, h) \/ DoomIn(ctls, links, orders, h)
              \/ <<"discrsp", "control">> \in Kinds(packets, h)
              \/ <<"discrsp", "interrupt">> \in Kinds(packets, h)
    BY <2>1, <1>0, <1>9, <1>23 DEF BtResetInv
  <2>3. ("running" \in q.status => "running" \in t.pad.status) /\ ("request" \in q.status => "request" \in t.pad.status)
    BY <1>7 DEF TaskIs
  <2>4. SUFFICES ASSUME "request" \notin r.pad.status PROVE StopsAt(p)
    BY <1>13 DEF StopsAt
  <2>5. "running" \in r.pad.status /\ ("request" \in q.status => due) BY <2>2, <2>3, <2>4, <1>8
  <2>6. \/ AnnIn(events, h) \/ DoomIn(ctls', links', orders', h) \/ \E x \in Tokens : x \in Kinds(packets', h)
    <3> SUFFICES ASSUME ~AnnIn(events, h), ~DoomIn(ctls', links', orders', h)
                 PROVE  \E x \in Tokens : x \in Kinds(packets', h)
      OBVIOUS
    <3>1. ~DoomIn(ctls, links, orders, h) BY <1>16, <1>23
    <3>2. (\E x \in Tokens : x \in Kinds(packets, h)) \/ due BY <3>1, <2>2, <2>5 DEF Tokens
    <3> HIDE DEF due
    <3> QED BY <3>2, <1>22, <1>23
  <2> HIDE DEF due, q
  <2>7. pads'[p].handle = h /\ events' = events BY <1>1, <1>8, <1>9, <1>13
  <2>8. "running" \in pads'[p].status BY <2>5, <1>13
  <2>9. \/ AnnIn(events', h) \/ DoomIn(ctls', links', orders', h)
        \/ <<"discrsp", "control">> \in Kinds(packets', h) \/ <<"discrsp", "interrupt">> \in Kinds(packets', h)
    BY <2>6, <2>7 DEF Tokens
  <2> QED BY <2>7, <2>8, <2>9 DEF StopsAt
<1>24. \A s \in Slots : ~crossed' /\ pads[s].handle = h =>
         /\ "connected" \in pads'[s].status
         /\ (~AnnIn(events, h) /\ ~DoomIn(ctls', links', orders', h)) =>
               HeldOk(pads'[s], ctls'[links[h]].chan, Kinds(packets', h))
  BY <1>8, <1>13, <1>17, <1>20, <1>22
<1>25. ~crossed' /\ call.op = "poll" /\ pads[call.pad].handle = h => StopsAt(call.pad)
  <2>1. call.pad \in Slots BY <1>0 DEF BtTypes, BtTypeOK
  <2> QED BY <2>1, <1>17, <1>23
<1>26. \A s \in Slots : pads[s].handle # h => pads'[s] = pads[s] BY <1>2, <1>13
<1>27. ~crossed' => ~crossed /\ \A o \in orders : o \in orders' BY <1>14, <1>f
<1>28. \A d \in BtCtls : ctls'[d].at = ctls[d].at /\ (d # links[h] => ctls'[d] = ctls[d]) BY <1>11, <1>12
<1>29. \A d \in BtCtls : Accept(d) \in orders' => Accept(d) \in orders BY <1>14
<1> HIDE DEF due, q, c
<1>30. UNCHANGED <<usb, events, links, call, torn>> /\ usb \in {"set", "configured"} BY <1>1
<1>31. ~crossed' /\ FreshIn(events, h) /\ ~DoomIn(ctls', links', orders', h) =>
         FreshOk(ctls'[links[h]].chan, Kinds(packets', h))
  BY <1>21
<1>32. \A g : g # h => Kinds(packets', g) = Kinds(packets, g) BY <1>12
<1> QED BY <1>4, <1>15, <1>18, <1>24, <1>25, <1>26, <1>27, <1>28, <1>29, <1>30, <1>31, <1>32, BtOneLink

(* A packet no slot holds the handle of is dropped.                        *)
LEMMA BtDropStep ==
    ASSUME BtInv, L2capEvent, PacketPad > BtPads PROVE BtInv'
<1> DEFINE m == Head(packets)
           h == m.handle
<1>0. /\ BtTypes /\ BtLinkInv /\ packets \in Seq(BtPackets)
  BY DEF BtInv, BtTypes
<1>1. /\ usb \in {"set", "configured"} /\ packets # <<>> /\ Arrives(Tail(packets), <<>>)
      /\ UNCHANGED <<usb, call, events, links, left, pads, orders, crossed, torn>>
  BY DEF L2capEvent, Hears, NoCommand
<1>2. \A s \in Slots : pads[s].handle # h /\ s # PacketPad
  <2>1. {s \in Slots : pads[s].handle = Head(packets).handle} \in SUBSET Slots OBVIOUS
  <2>2. {s \in Slots : pads[s].handle = Head(packets).handle} = {} BY <2>1, BtFirst DEF PacketPad
  <2>3. BtPads \in Nat BY BtAssumption
  <2>4. \A s \in Slots : s # PacketPad BY <2>3 DEF Slots
  <2> QED BY <2>2, <2>4
<1>3. ctls' = ctls /\ packets' = Tail(packets) /\ (crossed' <=> crossed)
  <2>1. Len(<<>>) = 0 /\ Len(<<>>) \in 0 .. 3 OBVIOUS
  <2>2. ctls' = ctls /\ packets' = Tail(packets) BY <2>1, <1>1, BtArrives
  <2> QED BY <2>2, <1>1, <1>2
<1>4. /\ Tail(packets) \in Seq(BtPackets) /\ m \in BtPackets
      /\ \A i \in DOMAIN Tail(packets) : \E j \in DOMAIN packets : Tail(packets)[i] = packets[j]
      /\ \A g : g # h => Kinds(Tail(packets), g) = Kinds(packets, g)
      /\ \A x : x \in Kinds(packets, h) <=> x \in Kinds(Tail(packets), h) \/ x = <<m.k, m.chan>>
  BY <1>0, <1>1, BtKindsTail
<1>5. h \in BtHandles BY <1>4 DEF BtPackets
<1> HIDE DEF m, h
<1>6. BtTypes'
  <2>1. \A i \in DOMAIN packets' : packets'[i].k = "connreq" => packets'[i].chan = "control"
    BY <1>0, <1>3, <1>4 DEF BtTypes
  <2>3. BtTypeOK' BY <1>0, <1>1, <1>3 DEF BtTypes, BtTypeOK
  <2> QED BY <2>1, <2>3, <1>0, <1>1, <1>3, <1>4 DEF BtTypes, BtOrders, Accept, Disconnect, Event
<1>7. \A g : DoomIn(ctls, links, orders, g) <=> DoomIn(ctls', links', orders', g) BY <1>1, <1>3 DEF DoomIn
<1>8. ~crossed' /\ FreshIn(events, h) /\ ~DoomIn(ctls', links', orders', h) =>
         FreshOk(ctls'[links[h]].chan, Kinds(packets', h))
  <2> SUFFICES ASSUME ~crossed', FreshIn(events, h), ~DoomIn(ctls', links', orders', h)
               PROVE  FreshOk(ctls'[links[h]].chan, Kinds(packets', h))
    OBVIOUS
  <2>1. FreshOk(ctls[links[h]].chan, Kinds(packets, h)) BY <1>0, <1>3, <1>5, <1>7 DEF BtLinkInv
  <2>2. \A x : x \in Kinds(packets', h) => x \in Kinds(packets, h) BY <1>3, <1>4
  <2> QED BY <2>1, <2>2, <1>3 DEF FreshOk
<1>9. call.pad \in Slots BY <1>0 DEF BtTypes, BtTypeOK
<1>10. \A g : g # h => Kinds(packets', g) = Kinds(packets, g) BY <1>3, <1>4
<1> QED BY <1>1, <1>2, <1>3, <1>5, <1>6, <1>8, <1>9, <1>10, BtOneLink

----------------------------------------------------------------------------
(* The invariant holds at the start.                                       *)
LEMMA BtStart == BtInit => BtInv
<1> SUFFICES ASSUME BtInit PROVE BtInv OBVIOUS
<1>0. /\ pads = [p \in Slots |-> ClearPad] /\ usb = "out" /\ call = Idle
      /\ events = <<>> /\ packets = <<>> /\ orders = {}
      /\ links = [h \in BtHandles |-> NoCtl] /\ ctls = [c \in BtCtls |-> OffCtl]
      /\ left = [calls |-> MaxBtCalls, connects |-> MaxBtConnects, faults |-> MaxBtFaults]
      /\ crossed = FALSE /\ torn = {}
  BY DEF BtInit
<1>1. BtTypes
  <2>1. Idle \in CallTypes BY BtAssumption DEF Idle, Call, CallTypes, Slots
  <2>2. left \in [calls : 0 .. MaxBtCalls, connects : 0 .. MaxBtConnects, faults : 0 .. MaxBtFaults]
    BY <1>0, BtAssumption
  <2>3. pads \in [Slots -> PadTypes] /\ ctls \in [BtCtls -> CtlTypes] BY <1>0, BtClear
  <2>4. BtTypeOK BY <2>1, <2>2, <2>3, <1>0 DEF BtTypeOK, PadTypes, CtlTypes, CallTypes
  <2> QED BY <2>4, <1>0 DEF BtTypes, BtOrders
<1>2. BtOut BY <1>0 DEF BtOut
<1>3. \A p \in Slots : /\ pads[p].handle = NoHandle /\ "connected" \notin pads[p].status
                       /\ "running" \notin pads[p].status
  BY <1>0, BtClear
<1>4. DOMAIN events = {} BY <1>0
<1>5. BtCtlInv BY <1>0, <1>4, BtClear DEF BtCtlInv
<1>6. BtEventInv(events, links) BY <1>4 DEF BtEventInv
<1>a. NoHandle \notin BtHandles BY BtAssumption
<1>7. BtSlotInv BY <1>3, <1>4, <1>a DEF BtSlotInv, OneSlotPerHandle
<1>8. \A h : ~FreshIn(events, h) BY <1>4 DEF FreshIn
<1>9. BtLinkInv BY <1>0, <1>3, <1>8 DEF BtLinkInv
<1>10. BtResetInv BY <1>0 DEF BtResetInv, Idle, Call
<1> QED BY <1>1, <1>2, <1>5, <1>6, <1>7, <1>9, <1>10 DEF BtInv

(* Every step keeps it.                                                    *)
LEMMA BtStep == BtInv /\ [BtNext]_btVars => BtInv'
<1> SUFFICES ASSUME BtInv, [BtNext]_btVars PROVE BtInv' OBVIOUS
<1>1. CASE BtConnect BY <1>1, BtConnectStep
<1>2. CASE BtConfigSet BY <1>2, BtConfigSetStep
<1>3. CASE BtDisconnect BY <1>3, BtDisconnectStep
<1>4. CASE CommandComplete BY <1>4, BtCommandStep
<1>5. CASE ConnectComplete BY <1>5, BtConnectCompleteStep
<1>6. CASE DisconnComplete BY <1>6, BtDisconnStep
<1>7. CASE RemoteNameComplete BY <1>7, BtNameStep
<1>8. CASE ConnectRequest BY <1>8, BtConnectRequestStep
<1>9. CASE L2capEvent BY <1>9, BtPacketStep, BtDropStep
<1>10. CASE BtCall BY <1>10, BtCallStep
<1>11. CASE ResetRequest BY <1>11, BtResetRequestStep
<1>12. CASE ResetPoll BY <1>12, BtResetPollStep
<1>21. CASE ResetStore BY <1>21, BtResetStoreStep
<1>13. ASSUME NEW c \in BtCtls, AdapterAccepts(c) PROVE BtInv' BY <1>13, BtAcceptsStep
<1>14. ASSUME NEW h \in BtHandles \cup {NoHandle}, AdapterDisconnects(h) PROVE BtInv'
  BY <1>14, BtAdapterDisconnectsStep
<1>15. CASE CtlAsks BY <1>15, BtAsksStep
<1>16. ASSUME NEW h \in BtHandles, CtlReports(h) PROVE BtInv' BY <1>16, BtReportsStep
<1>17. CASE CtlLeaves BY <1>17, BtLeavesStep
<1>18. CASE CtlIsGone BY <1>18, BtGoneStep
<1>19. CASE LinkLost BY <1>19, BtLostStep
<1>20. CASE UNCHANGED btVars
  <2> USE <1>20 DEF btVars
  <2>1. BtTypes' BY DEF BtInv, BtTypes, BtTypeOK
  <2>2. \A p \in Slots : pads'[p].addr = pads[p].addr /\ SameLink(p) BY DEF SameLink
  <2>3. BtOut' /\ BtCtlInv' /\ BtEventInv(events, links)' /\ BtSlotInv' /\ BtLinkInv'
    BY <2>1, <2>2, BtCallFrame
  <2>4. BtResetInv' BY DEF BtInv, BtResetInv, Kinds
  <2> QED BY <2>1, <2>3, <2>4 DEF BtInv
<1> QED
  BY <1>1, <1>2, <1>3, <1>4, <1>5, <1>6, <1>7, <1>8, <1>9, <1>10, <1>11, <1>12,
     <1>13, <1>14,
     <1>15, <1>16, <1>17, <1>18, <1>19, <1>20, <1>21
  DEF BtNext, HciEvents, BtServes, Adapter

(* What the slots promise.                                                 *)
LEMMA BtPromise == BtInv => BtTypeOK /\ SlotsFollowLinks
<1> SUFFICES ASSUME BtInv PROVE BtTypeOK /\ SlotsFollowLinks OBVIOUS
<1>0. BtTypes /\ BtSlotInv /\ BtLinkInv /\ BtResetInv BY DEF BtInv
<1>1. \A g : AnnIn(events, g) <=> Announced(g) BY DEF AnnIn, Announced, Disc
<1>2. ConnectedIsLinked BY <1>0, <1>1 DEF ConnectedIsLinked, BtSlotInv
<1>3. OneSlotPerHandle BY <1>0 DEF BtSlotInv
<1>4. ResetIsHeard
  <2> DEFINE p == call.pad
             h == pads[p].handle
  <2> SUFFICES ASSUME call.op = "poll", "running" \in pads[p].status, ~crossed
               PROVE  \/ Announced(h) \/ Disconnect(h) \in orders
                      \/ ctls[links[h]].at = "leaving"
                      \/ \E i \in DOMAIN packets : packets[i].handle = h /\ packets[i].k = "discrsp"
                      \/ "request" \in pads[p].status /\ ctls[links[h]].chan["interrupt"] # 0
    BY DEF ResetIsHeard
  <2>1. p \in Slots BY <1>0 DEF BtTypes, BtTypeOK
  <2>2. "connected" \in pads[p].status BY <2>1, <1>0 DEF BtLinkInv
  <2>3. \/ "request" \in pads[p].status
        \/ AnnIn(events, h) \/ DoomIn(ctls, links, orders, h)
        \/ <<"discrsp", "control">> \in Kinds(packets, h) \/ <<"discrsp", "interrupt">> \in Kinds(packets, h)
    BY <1>0 DEF BtResetInv
  <2>4. \A ch : <<"discrsp", ch>> \in Kinds(packets, h) =>
          \E i \in DOMAIN packets : packets[i].handle = h /\ packets[i].k = "discrsp"
    <3> SUFFICES ASSUME NEW ch, <<"discrsp", ch>> \in Kinds(packets, h)
                 PROVE  \E i \in DOMAIN packets : packets[i].handle = h /\ packets[i].k = "discrsp"
      OBVIOUS
    <3>1. PICK i \in {j \in DOMAIN packets : packets[j].handle = h} :
            <<"discrsp", ch>> = <<packets[i].k, packets[i].chan>>
      BY DEF Kinds
    <3> QED BY <3>1
  <2>5. DoomIn(ctls, links, orders, h) => ctls[links[h]].at = "leaving" \/ Disconnect(h) \in orders
    BY DEF DoomIn
  <2>6. CASE ~AnnIn(events, h) /\ ~DoomIn(ctls, links, orders, h) /\ "request" \in pads[p].status
    <3>1. HeldOk(pads[p], ctls[links[h]].chan, Kinds(packets, h)) BY <2>1, <2>2, <2>6, <1>0 DEF BtLinkInv
    <3>2. OpenI(ctls[links[h]].chan, Kinds(packets, h)) BY <3>1 DEF HeldOk
    <3> QED BY <3>2, <2>4, <2>6 DEF OpenI
  <2> HIDE DEF h
  <2> QED BY <2>3, <2>4, <2>5, <2>6, <1>1
<1> QED BY <1>0, <1>2, <1>3, <1>4 DEF SlotsFollowLinks, BtTypes

(* Every slot that is connected holds the handle of its own controller's   *)
(* link or is about to hear of its end, no two slots hold one handle, and  *)
(* the reset before a game is not left waiting, for any number of slots,   *)
(* controllers, handles, calls, connections and faults.                    *)
THEOREM SlotsFollow == BtSpec => [](BtTypeOK /\ SlotsFollowLinks)
<1>1. BtInit => BtInv BY BtStart
<1>2. BtInv /\ [BtNext]_btVars => BtInv' BY BtStep
<1>3. BtInv => BtTypeOK /\ SlotsFollowLinks BY BtPromise
<1> QED BY <1>1, <1>2, <1>3, PTL DEF BtSpec


----------------------------------------------------------------------------
(* All parts together.                                                     *)

(* A part that does not run stays as it is, so that each part of a         *)
(* behaviour of the instance is a behaviour of the part's own              *)
(* specification.                                                          *)
LEMMA PartsAreParts == PartsSpec => BtSpec /\ CaSpec /\ StSpec /\ GlSpec /\ VmcSpec
<1>1. PartsInit => BtInit /\ CaInit /\ StInit /\ GlInit /\ VmcInit
  BY Zenon DEF PartsInit
<1>2. [PartsNext]_partsVars =>
        [BtNext]_btVars /\ [CaNext]_caVars /\ [StNext]_stVars /\ [GlNext]_glVars /\ [VmcNext]_vmcVars
  BY Zenon DEF PartsNext, partsVars
<1>. QED BY <1>1, <1>2, PTL DEF PartsSpec, BtSpec, CaSpec, StSpec, GlSpec, VmcSpec

(* Everything the run of the five parts checks is so for every value of    *)
(* their constants: all variables have their types, the slots of the       *)
(* wireless controllers follow the links of the adapter, settings are      *)
(* kept, the list of games follows its device, virtual memory cards are    *)
(* whole, and the carousel is right.                                       *)
THEOREM PartsTheorem ==
    PartsSpec => /\ []PartsTypeOK /\ []SlotsFollowLinks /\ []SettingsAreKept
                 /\ []ListFollowsDevice /\ []CardsAreWhole /\ CarouselIsRight
<1>1. PartsSpec => BtSpec /\ CaSpec /\ StSpec /\ GlSpec /\ VmcSpec
  BY PartsAreParts
<1>2. BtTypeOK /\ CaTypeOK /\ StTypeOK /\ GlTypeOK /\ VmcTypeOK => PartsTypeOK
  BY DEF PartsTypeOK
<1>. QED
  BY <1>1, <1>2, SlotsFollow, CarouselTheorem, SettingsTyped, SettingsStayKept,
     GamesFollowDevice, VmcTyped, CardsStayWhole, PTL

=============================================================================
