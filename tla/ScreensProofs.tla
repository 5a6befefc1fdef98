--------------------------- MODULE ScreensProofs ---------------------------
(***************************************************************************)
(* The screens that wait for the worker of the I/O manager (AppsScan,      *)
(* SmbLoad and GameConfig), for any applications, servers, games and       *)
(* bounds, and their sum MCScreens.                                        *)
(***************************************************************************)
EXTENDS MCScreens, SequenceTheorems, FiniteSetTheorems, TLAPS

-----------------------------------------------------------------------------
(* The Apps tab.                                                           *)

(* The names of the places that are scanned.                               *)
LEMMA RootsAre ==
    /\ Len(Roots) = 2 /\ Roots[1] = "mc0" /\ Roots[2] = "mass0" /\ Head(Roots) = "mc0"
    /\ Last(Roots) = "mass0" /\ ToSet(Roots) = {"mc0", "mass0"}
<1>1. Len(Roots) = 2 /\ Roots[1] = "mc0" /\ Roots[2] = "mass0" /\ Head(Roots) = "mc0"
  BY DEF Roots
<1>2. DOMAIN Roots = 1..2 /\ 1..2 = {1, 2}
  BY DEF Roots
<1>3. ToSet(Roots) = {"mc0", "mass0"}
  BY <1>1, <1>2 DEF ToSet
<1> QED
  BY <1>1, <1>3 DEF Last

(* What fits of a list is a list of the same entries.                      *)
LEMMA TakeIsPrefix ==
    ASSUME NEW S, NEW s \in Seq(S), NEW n \in Nat
    PROVE  /\ Take(s, n) \in Seq(S)
           /\ Len(Take(s, n)) = IF Len(s) < n THEN Len(s) ELSE n
<1> DEFINE m == IF Len(s) < n THEN Len(s) ELSE n
<1>1. m \in Nat /\ m <= Len(s) /\ Len(s) \in Nat
  BY LenProperties
<1>2. \A i \in 1..m : s[i] \in S
  BY <1>1, ElementOfSeq
<1>3. /\ SubSeq(s, 1, m) \in Seq(S)
      /\ Len(SubSeq(s, 1, m)) = IF 1 <= m THEN m - 1 + 1 ELSE 0
  <2> HIDE DEF m
  <2> QED BY <1>1, <1>2, SubSeqProperties
<1> QED
  BY <1>1, <1>3 DEF Take

(* The applications found on a device, as a list.                          *)
LEMMA SetToSeqIsSeq ==
    ASSUME NEW S, IsFiniteSet(S)
    PROVE  SetToSeq(S) \in Seq(S)
<1>1. Cardinality(S) \in Nat /\ ExistsBijection(1..Cardinality(S), S)
  BY FS_CardinalityType
<1>2. PICK f \in [1..Cardinality(S) -> S] : IsInjective(f)
  BY <1>1 DEF ExistsBijection, Bijection, Injection, IsInjective
<1>3. SetToSeq(S) \in [1..Cardinality(S) -> S]
  BY <1>2, Zenon DEF SetToSeq
<1> QED
  BY <1>1, <1>3, SeqDef

(* While a scan runs, the groups are those of the places scanned so far.   *)
GroupsInv ==
    /\ step = "load" => items = <<>>
    /\ step \in {"load", "mc0"} => groups = <<>>
    /\ step = "mass0" => Len(groups) = 1

(* What is written is the list of a scan that came to its end, and what is *)
(* renamed is what was written, whatever moved or failed in between.       *)
WriteInv ==
    /\ step \in {"write", "remove", "rename"} => items \in completed
    /\ step \in {"remove", "rename"} => full \/ tmpFile = items

(* A key that no reset of the list came under has found entries, and what  *)
(* it stores is one of them.                                               *)
KeyInv ==
    ~crossed => /\ key \in {"up", "down"} => items # <<>>
                /\ key = "store" => target = 0 \/ target \in 0 .. Len(items) - 1

AppsInv == AppsTypeOK /\ GroupsInv /\ WriteInv /\ KeyInv /\ AppsAreSound

(* The list does not shrink while places are scanned, and stays in bounds. *)
LEMMA ScanRootGrows ==
    ASSUME AppsInv, ScanRoot
    PROVE  /\ items' \in Seq(Item) /\ Len(items') <= MaxItems /\ Len(items) <= Len(items')
           /\ groups' \in Seq(ToSet(Roots)) /\ Len(groups') = Len(groups) + 1
           /\ step = "mc0" => groups = <<>> /\ step' = "mass0" /\ completed' = completed
           /\ step = "mass0" => step' = "write" /\ completed' = completed \cup {items'}
           /\ step \in {"mc0", "mass0"}
<1> DEFINE found == SetToSeq(onDevice[step])
           new == [i \in 1..Len(found) |-> <<found[i], Len(groups)>>]
<1>1. step \in {"mc0", "mass0"} /\ groups \in Seq(ToSet(Roots)) /\ items \in Seq(Item)
      /\ Len(items) <= MaxItems /\ MaxItems \in Nat
  BY RootsAre, AppsScanAssumption DEF AppsInv, AppsTypeOK, ScanRoot
<1>2. Len(groups) \in 0..1 /\ (step = "mc0" => groups = <<>>) /\ Len(<<>>) = 0
  BY <1>1 DEF AppsInv, GroupsInv
<1>3. onDevice[step] \subseteq Apps /\ IsFiniteSet(onDevice[step])
  <2>1. onDevice[step] \in SUBSET Apps
    BY <1>1, RootsAre DEF AppsInv, AppsTypeOK
  <2> QED
    BY <2>1, FS_Subset, AppsScanAssumption
<1>4. found \in Seq(Apps)
  BY <1>3, SetToSeqIsSeq, SeqMonotonic
<1>5. new \in Seq(Item)
  <2>1. Len(found) \in Nat /\ \A i \in 1..Len(found) : found[i] \in Apps
    BY <1>4, LenProperties, ElementOfSeq
  <2>2. Item = Apps \X (0..1)
    BY RootsAre DEF Item
  <2>3. \A i \in 1..Len(found) : <<found[i], Len(groups)>> \in Item
    <3> HIDE DEF found
    <3> TAKE i \in 1..Len(found)
    <3>1. found[i] \in Apps /\ Len(groups) \in 0..1
      BY <1>2, <2>1
    <3> QED
      BY <2>2, <3>1, Zenon
  <2>4. new \in [1..Len(found) -> Item]
    BY <2>3
  <2> QED
    BY <2>1, <2>4, SeqDef
<1>6. items \o new \in Seq(Item) /\ Len(items \o new) = Len(items) + Len(new) /\ Len(new) \in Nat
      /\ Len(items) \in Nat
  <2> HIDE DEF new
  <2> QED
    BY <1>1, <1>5, ConcatProperties, LenProperties
<1>7. items' = Take(items \o new, MaxItems)
  BY DEF ScanRoot
<1>8. items' \in Seq(Item) /\ Len(items') <= MaxItems /\ Len(items) <= Len(items')
  <2> DEFINE all == items \o new
  <2> HIDE DEF new, all
  <2>1. items' \in Seq(Item) /\ Len(items') = IF Len(all) < MaxItems THEN Len(all) ELSE MaxItems
    <3>1. all \in Seq(Item)
      BY <1>6 DEF all
    <3> QED
      BY <1>1, <1>7, <3>1, TakeIsPrefix DEF all
  <2>2. Len(all) \in Nat /\ Len(items) <= Len(all)
    BY <1>6 DEF all
  <2> QED
    BY <1>1, <2>1, <2>2
<1>9. groups' \in Seq(ToSet(Roots)) /\ Len(groups') = Len(groups) + 1
  BY <1>1, RootsAre, AppendProperties DEF ScanRoot
<1>10. step = "mc0" => step' = "mass0" /\ completed' = completed
  BY <1>2, RootsAre DEF ScanRoot
<1>11. step = "mass0" => step' = "write" /\ completed' = completed \cup {items'}
  BY RootsAre DEF ScanRoot
<1> QED
  BY <1>1, <1>2, <1>8, <1>9, <1>10, <1>11

(* The end of a scan puts a selection that is an index inside the list.    *)
LEMMA ScanEndsInList ==
    ASSUME items' \in Seq(Item), Len(items') <= MaxItems, AppsTypeOK, ScanEnds
    PROVE  /\ selected' \in -1 .. MaxItems - 1
           /\ selected >= 0 => selected' = 0 \/ selected' \in 0 .. Len(items') - 1
           /\ flags' \in [loading: BOOLEAN, scanned: BOOLEAN, queued: BOOLEAN] /\ step' = "idle"
<1>1. /\ Len(items') \in Nat /\ (items' # <<>> => Len(items') > 0)
      /\ MaxItems \in Nat /\ MaxItems > 0 /\ selected \in Int /\ selected >= -1
      /\ selected <= MaxItems - 1
  BY EmptySeq, LenProperties, AppsScanAssumption DEF AppsTypeOK
<1>2. /\ selected' \in -1 .. MaxItems - 1
      /\ selected >= 0 => selected' = 0 \/ selected' \in 0 .. Len(items') - 1
  BY <1>1 DEF ScanEnds
<1> QED
  BY <1>2 DEF ScanEnds, AppsTypeOK

(* No step of the scan, of the keys or of the power breaks the invariant.  *)
LEMMA AppsStep == AppsInv /\ [AppsNext]_appsVars => AppsInv'
<1> SUFFICES ASSUME AppsInv, [AppsNext]_appsVars PROVE AppsInv'
  OBVIOUS
<1> USE DEF AppsInv, AppsAreSound, appsFiles, appsKey
<1>0. /\ MaxItems \in Nat \ {0} /\ MaxUses \in Nat /\ <<>> \in Seq(Item) /\ Len(<<>>) = 0
      /\ 0 \in -1 .. MaxItems - 1 /\ <<>> \in Seq(ToSet(Roots)) /\ Head(Roots) = "mc0" /\ ToSet(Roots) = {"mc0", "mass0"}
  BY AppsScanAssumption, EmptySeq, RootsAre
<1>a. selected \in Int /\ target \in Int /\ Len(items) \in Nat /\ (Len(items) > 0 <=> items # <<>>)
  BY LenProperties, EmptySeq, AppsScanAssumption DEF AppsTypeOK
<1>1. ASSUME NEW force \in BOOLEAN, QueueAppsScan(force) PROVE AppsInv'
  BY <1>1 DEF QueueAppsScan, AppsTypeOK, GroupsInv, WriteInv, SelectedInList,
     CatalogueIsOfScan, KeyInv
<1>2. CASE ScanBegin
  <2>1. flags' \in [loading: BOOLEAN, scanned: BOOLEAN, queued: BOOLEAN]
    BY <1>2 DEF ScanBegin, AppsTypeOK
  <2>2. AppsTypeOK'
    BY <1>0, <1>2, <2>1 DEF ScanBegin, AppsTypeOK
  <2> QED
    BY <1>0, <1>2, <2>2 DEF ScanBegin, GroupsInv, WriteInv, SelectedInList,
       CatalogueIsOfScan, KeyInv
<1>3. CASE LoadCatalogue
  <2>1. catalogue \in Seq(Item) /\ items' = Take(catalogue, MaxItems)
    BY <1>3 DEF LoadCatalogue, AppsTypeOK
  <2>2. items' \in Seq(Item) /\ Len(items') <= MaxItems
    BY <1>0, <2>1, TakeIsPrefix, LenProperties
  <2>3. /\ selected' \in -1 .. MaxItems - 1
        /\ selected >= 0 => selected' = 0 \/ selected' \in 0 .. Len(items') - 1
        /\ flags' \in [loading: BOOLEAN, scanned: BOOLEAN, queued: BOOLEAN] /\ step' = "idle"
    BY <1>3, <2>2, ScanEndsInList DEF LoadCatalogue, AppsTypeOK
  <2> QED
    BY <1>3, <2>2, <2>3
    DEF LoadCatalogue, AppsTypeOK, GroupsInv, WriteInv, SelectedInList, CatalogueIsOfScan, KeyInv
<1>4. CASE LoadNoCatalogue
  BY <1>0, <1>4 DEF LoadNoCatalogue, AppsTypeOK, GroupsInv, WriteInv,
     SelectedInList, CatalogueIsOfScan, KeyInv
<1>5. CASE ScanRoot
  <2>1. /\ items' \in Seq(Item) /\ Len(items') <= MaxItems /\ Len(items) <= Len(items')
        /\ groups' \in Seq(ToSet(Roots)) /\ Len(groups') = Len(groups) + 1
        /\ step = "mc0" => groups = <<>> /\ step' = "mass0" /\ completed' = completed
        /\ step = "mass0" => step' = "write" /\ completed' = completed \cup {items'}
        /\ step \in {"mc0", "mass0"}
    BY <1>5, ScanRootGrows
  <2>2. Len(items) \in Nat /\ Len(items') \in Nat
    BY <2>1, LenProperties DEF AppsTypeOK
  <2>3. AppsTypeOK'
    BY <1>0, <1>5, <2>1 DEF ScanRoot, AppsTypeOK
  <2>4. GroupsInv' /\ WriteInv'
    BY <1>0, <2>1 DEF GroupsInv, WriteInv
  <2>5. SelectedInList' /\ CatalogueIsOfScan' /\ KeyInv'
    <3>1. UNCHANGED <<selected, key, target, crossed, catalogue, full>>
      BY <1>5 DEF ScanRoot
    <3>2. items # <<>> => items' # <<>>
      BY <1>a, <2>1, <2>2, EmptySeq
    <3> QED
      BY <1>a, <2>1, <2>2, <3>1, <3>2 DEF SelectedInList, CatalogueIsOfScan, KeyInv
  <2> QED
    BY <2>3, <2>4, <2>5
<1>6. CASE WriteTmp
  <2>1. PICK n \in 0..Len(items) : tmpFile' = Take(items, n)
    BY <1>6 DEF WriteTmp
  <2>2. tmpFile' \in Seq(Item)
    BY <2>1, TakeIsPrefix, LenProperties DEF AppsTypeOK
  <2> QED
    BY <1>6, <2>2
    DEF WriteTmp, AppsTypeOK, GroupsInv, WriteInv, SelectedInList, CatalogueIsOfScan, KeyInv
<1>7. CASE WriteNothing
  <2>1. /\ selected' \in -1 .. MaxItems - 1
        /\ selected >= 0 => selected' = 0 \/ selected' \in 0 .. Len(items') - 1
        /\ flags' \in [loading: BOOLEAN, scanned: BOOLEAN, queued: BOOLEAN] /\ step' = "idle"
    BY <1>7, ScanEndsInList DEF WriteNothing, AppsTypeOK
  <2> QED
    BY <1>7, <2>1
    DEF WriteNothing, AppsTypeOK, GroupsInv, WriteInv, SelectedInList, CatalogueIsOfScan, KeyInv
<1>8. CASE RemoveOld
  BY <1>8 DEF RemoveOld, AppsTypeOK, GroupsInv, WriteInv, SelectedInList,
     CatalogueIsOfScan, KeyInv
<1>9. CASE RenameTmp
  <2>1. /\ selected' \in -1 .. MaxItems - 1
        /\ selected >= 0 => selected' = 0 \/ selected' \in 0 .. Len(items') - 1
        /\ flags' \in [loading: BOOLEAN, scanned: BOOLEAN, queued: BOOLEAN] /\ step' = "idle"
    BY <1>9, ScanEndsInList DEF RenameTmp, AppsTypeOK
  <2> QED
    BY <1>9, <2>1
    DEF RenameTmp, AppsTypeOK, GroupsInv, WriteInv, SelectedInList, CatalogueIsOfScan, KeyInv
<1>10. CASE AppsKey
  <2>1. ASSUME NEW k \in {"up", "down"}, KeyPress(k) PROVE AppsInv'
    BY <2>1 DEF KeyPress, AppsTypeOK, GroupsInv, WriteInv, SelectedInList,
       CatalogueIsOfScan, KeyInv
  <2>2. CASE KeyLoad
    <3>1. /\ selected >= -1 /\ selected <= MaxItems - 1 /\ Len(items) <= MaxItems
          /\ MaxItems \in Nat /\ MaxItems > 0
      BY <1>0 DEF AppsTypeOK
    <3>2. target' \in -1 .. MaxItems - 1
      BY <1>a, <2>2, <3>1 DEF KeyLoad
    <3>3. ~crossed => Len(items) > 0 /\ (selected = 0 \/ selected \in 0 .. Len(items) - 1)
      BY <1>a, <2>2 DEF KeyLoad, KeyInv, SelectedInList
    <3>4. ~crossed => target' = 0 \/ target' \in 0 .. Len(items) - 1
      BY <1>a, <2>2, <3>3 DEF KeyLoad
    <3> QED
      BY <2>2, <3>2, <3>4
      DEF KeyLoad, AppsTypeOK, GroupsInv, WriteInv, SelectedInList, CatalogueIsOfScan, KeyInv
  <2>3. CASE KeyStore
    BY <1>0, <2>3
    DEF KeyStore, AppsTypeOK, GroupsInv, WriteInv, SelectedInList, CatalogueIsOfScan, KeyInv
  <2> QED
    BY <1>10, <2>1, <2>2, <2>3 DEF AppsKey
<1>11. CASE Launch
  <2>1. items[selected + 1] \in Item
    <3>1. selected + 1 \in 1..Len(items)
      BY <1>a, <1>11 DEF Launch
    <3> QED BY <3>1, ElementOfSeq DEF AppsTypeOK
  <2>2. items[selected + 1][1] \in Apps
    BY <2>1 DEF Item
  <2> QED
    BY <1>11, <2>2 DEF Launch, AppsTypeOK, GroupsInv, WriteInv, SelectedInList,
       CatalogueIsOfScan, KeyInv
<1>12. CASE PowerOff
  BY <1>0, <1>12 DEF PowerOff, AppsTypeOK, GroupsInv, WriteInv, SelectedInList,
     CatalogueIsOfScan, KeyInv
<1>13. CASE PowerOn
  <2>1. /\ onDevice' \in [ToSet(Roots) -> SUBSET Apps]
        /\ flags' \in [loading: BOOLEAN, scanned: BOOLEAN, queued: BOOLEAN]
    BY <1>13 DEF PowerOn, Quiet
  <2>2. items' \in Seq(Item) /\ Len(items') <= MaxItems /\ groups' \in Seq(ToSet(Roots))
        /\ savedHash' \in Seq(Item) /\ uses' \in 0..MaxUses
    BY <1>0, <1>13 DEF PowerOn, AppsTypeOK
  <2>3. {selected', target'} \subseteq -1 .. MaxItems - 1
    BY <1>0, <1>13 DEF PowerOn
  <2>4. AppsTypeOK'
    BY <1>0, <1>13, <2>1, <2>2, <2>3 DEF PowerOn, AppsTypeOK
  <2> QED
    BY <1>13, <2>4
    DEF PowerOn, GroupsInv, WriteInv, SelectedInList, CatalogueIsOfScan, KeyInv
<1>14. CASE UNCHANGED appsVars
  BY <1>14 DEF appsVars, AppsTypeOK, GroupsInv, WriteInv, SelectedInList,
     CatalogueIsOfScan, KeyInv
<1> QED
  BY <1>1, <1>2, <1>3, <1>4, <1>5, <1>6, <1>7, <1>8, <1>9, <1>10, <1>11, <1>12,
     <1>13, <1>14
  DEF AppsNext, AppsWorker

(* An Apps tab that was not opened yet satisfies its invariant.            *)
LEMMA AppsStart == AppsInit => AppsInv
<1>1. <<>> \in Seq(Item) /\ <<>> \in Seq(ToSet(Roots)) /\ Len(<<>>) = 0 /\ MaxItems \in Nat \ {0}
      /\ MaxUses \in Nat /\ ToSet(Roots) = {"mc0", "mass0"}
  BY EmptySeq, RootsAre, AppsScanAssumption
<1> SUFFICES ASSUME AppsInit PROVE AppsInv
  OBVIOUS
<1>2. /\ onDevice \in [ToSet(Roots) -> SUBSET Apps]
      /\ flags \in [loading: BOOLEAN, scanned: BOOLEAN, queued: BOOLEAN]
  BY DEF AppsInit, Quiet
<1>3. /\ items \in Seq(Item) /\ Len(items) <= MaxItems /\ groups \in Seq(ToSet(Roots))
      /\ savedHash \in Seq(Item) /\ uses \in 0..MaxUses
  BY <1>1 DEF AppsInit
<1>6. /\ {selected, target} \subseteq -1 .. MaxItems - 1
      /\ key \in {"none", "up", "down", "store"} /\ crossed \in BOOLEAN
  <2>1. 0 \in -1 .. MaxItems - 1 /\ selected = 0 /\ target = 0
    BY <1>1 DEF AppsInit
  <2> QED BY <2>1 DEF AppsInit
<1>4. /\ {catalogue, tmpFile} \subseteq Seq(Item) \cup {NoFile} /\ launched \in Apps \cup {NoFile}
      /\ completed \subseteq Seq(Item) /\ full \in BOOLEAN
      /\ step \in {"idle", "off", "load", "write", "remove", "rename"} \cup ToSet(Roots)
  BY DEF AppsInit
<1>5. AppsTypeOK
  BY <1>2, <1>3, <1>4, <1>6, Zenon DEF AppsTypeOK
<1> QED
  BY <1>5 DEF AppsInit, AppsInv, AppsAreSound, GroupsInv, WriteInv,
     SelectedInList, CatalogueIsOfScan, KeyInv

(* The selection of the Apps tab is in its list whatever the worker does   *)
(* between the steps of a key, unless the list was emptied under one, and  *)
(* a catalogue is that of a whole scan, wherever the power was cut         *)
(* (menusys.c:2004-2006, 2221-2244, 4134-4144).                            *)
THEOREM AppsStaySound == AppsSpec => []AppsAreSound
<1>1. AppsInv => AppsAreSound
  BY DEF AppsInv
<1> QED
  BY <1>1, AppsStart, AppsStep, PTL DEF AppsSpec

-----------------------------------------------------------------------------
(* The share of the network.                                               *)

(* What a queue holds when a request is put at its end.                    *)
LEMMA QueueAppend ==
    ASSUME NEW S, NEW q \in Seq(S), NEW r \in S
    PROVE  /\ Append(q, r) \in Seq(S) /\ Append(q, r) # <<>> /\ Len(Append(q, r)) = Len(q) + 1
           /\ \A x : Contains(Append(q, r), x) <=> Contains(q, x) \/ x = r
           /\ IsInjective(q) /\ ~Contains(q, r) => IsInjective(Append(q, r))
           /\ q # <<>> => Head(Append(q, r)) = Head(q)
           /\ q = <<>> => Head(Append(q, r)) = r
<1>1. /\ Append(q, r) \in Seq(S) /\ Append(q, r) # <<>> /\ Len(Append(q, r)) = Len(q) + 1
      /\ Len(q) \in Nat /\ Append(q, r)[Len(q) + 1] = r
      /\ \A i \in 1..Len(q) : Append(q, r)[i] = q[i]
  BY AppendProperties, LenProperties
<1>2. DOMAIN q = 1..Len(q) /\ DOMAIN Append(q, r) = 1..(Len(q) + 1)
  BY <1>1, LenProperties
<1>3. \A x : Contains(Append(q, r), x) <=> Contains(q, x) \/ x = r
  BY <1>1 DEF Contains
<1>4. IsInjective(q) /\ ~Contains(q, r) => IsInjective(Append(q, r))
  BY <1>1, <1>2 DEF IsInjective, Contains
<1>5. q # <<>> => Head(Append(q, r)) = Head(q)
  BY <1>1, LenProperties, HeadTailProperties, EmptySeq
<1> QED
  BY <1>1, <1>3, <1>4, <1>5, HeadTailProperties

(* ... and when its first one is taken off.                                *)
LEMMA QueueTail ==
    ASSUME NEW S, NEW q \in Seq(S), q # <<>>
    PROVE  /\ Tail(q) \in Seq(S) /\ Head(q) \in S /\ Len(Tail(q)) = Len(q) - 1 /\ Len(q) >= 1
           /\ \A x : Contains(q, x) <=> Contains(Tail(q), x) \/ x = Head(q)
           /\ IsInjective(q) => IsInjective(Tail(q)) /\ ~Contains(Tail(q), Head(q))
<1>1. /\ Tail(q) \in Seq(S) /\ Head(q) \in S /\ Len(Tail(q)) = Len(q) - 1 /\ Len(q) \in Nat
      /\ Len(q) >= 1 /\ Head(q) = q[1]
      /\ \A i \in 1..(Len(q) - 1) : Tail(q)[i] = q[i + 1]
  BY HeadTailProperties, LenProperties, EmptySeq
<1>2. DOMAIN q = 1..Len(q) /\ DOMAIN Tail(q) = 1..(Len(q) - 1)
  BY <1>1, LenProperties
<1>3. ASSUME NEW x
      PROVE  Contains(q, x) <=> Contains(Tail(q), x) \/ x = Head(q)
  <2>1. ASSUME NEW i \in 1..Len(q), q[i] = x
        PROVE  Contains(Tail(q), x) \/ x = Head(q)
    <3>1. CASE i = 1
      BY <2>1, <3>1, <1>1
    <3>2. CASE i # 1
      <4>1. i - 1 \in 1..Len(Tail(q)) /\ Tail(q)[i - 1] = x
        BY <2>1, <3>2, <1>1
      <4> QED BY <4>1 DEF Contains
    <3> QED BY <3>1, <3>2
  <2>2. ASSUME NEW i \in 1..Len(Tail(q)), Tail(q)[i] = x
        PROVE  Contains(q, x)
    <3>1. i + 1 \in 1..Len(q) /\ q[i + 1] = x
      BY <2>2, <1>1
    <3> QED BY <3>1 DEF Contains
  <2>3. x = Head(q) => Contains(q, x)
    BY <1>1 DEF Contains
  <2> QED BY <2>1, <2>2, <2>3 DEF Contains
<1>4. ASSUME IsInjective(q)
      PROVE  IsInjective(Tail(q)) /\ ~Contains(Tail(q), Head(q))
  <2>1. \A a, b \in 1..Len(q) : q[a] = q[b] => a = b
    BY <1>2, <1>4 DEF IsInjective
  <2>2. IsInjective(Tail(q))
    BY <2>1, <1>1, <1>2 DEF IsInjective
  <2>3. ~Contains(Tail(q), Head(q))
    BY <2>1, <1>1 DEF Contains
  <2> QED BY <2>2, <2>3
<1> QED
  BY <1>1, <1>3, <1>4

Requests == {"load", "modules", "connect", "check", "merged"}

(* What the worker waits in is the request at the head of the queue.       *)
WaitsInHead ==
    /\ at # "idle" => rqs # <<>>
    /\ at \in {"load", "check", "merged", "modules"} => Head(rqs) = at
    /\ at \in {"connect", "read"} => Head(rqs) \in {"modules", "connect"}

(* A load or a check is alone with the start of the network it puts: the   *)
(* keys that would put another one are ignored until the queue is empty.   *)
OneOperation ==
    /\ smb.loading => check = 0
    /\ ~smb.loading /\ check # 1 => \A r \in Requests : Contains(rqs, r) => r = "merged"
    /\ Contains(rqs, "load") => smb.loading /\ ~Contains(rqs, "check")
    /\ Contains(rqs, "load") /\ at # "load" => ~Contains(rqs, "modules") /\ ~Contains(rqs, "connect")
    /\ Contains(rqs, "check") => ~Contains(rqs, "modules") /\ ~Contains(rqs, "connect")
    /\ Contains(rqs, "check") => check = 1

(* Once the check has been served, a start that succeeds is its own.       *)
SessionIsOfCheck ==
    check = 1 /\ ~Contains(rqs, "check") /\ gNetworkStartup = "ok" => session = live

SmbInv == SmbTypeOK /\ WaitsInHead /\ OneOperation /\ SessionIsOfCheck /\ CheckTellsItsResult

SmbRecord == [prompt: 0..2, status: 0..2, queued: BOOLEAN, loading: BOOLEAN, had: BOOLEAN]
NetRecord == [link: BOOLEAN, server: BOOLEAN, faults: 0..MaxFaults]

(* The records of a load and of the network keep their types.              *)
LEMMA SmbRecords ==
    /\ NoLoad \in SmbRecord /\ QueuedLoad \in SmbRecord
    /\ \A s \in SmbRecord : [s EXCEPT !.status = 2] \in SmbRecord /\ [s EXCEPT !.queued = TRUE] \in SmbRecord
<1>1. NoLoad \in SmbRecord
  BY DEF NoLoad, SmbRecord
<1>2. QueuedLoad \in SmbRecord
  <2> DEFINE had == ethGames # {}
  <2>1. had \in BOOLEAN
    OBVIOUS
  <2> HIDE DEF had
  <2>2. [prompt |-> 2, status |-> 1, queued |-> FALSE, loading |-> TRUE, had |-> had] \in SmbRecord
    BY <2>1 DEF SmbRecord
  <2> QED BY <2>2 DEF QueuedLoad, had
<1>3. ASSUME NEW s \in SmbRecord
      PROVE  [s EXCEPT !.status = 2] \in SmbRecord /\ [s EXCEPT !.queued = TRUE] \in SmbRecord
  <2>1. 2 \in 0..2
    OBVIOUS
  <2> QED BY <2>1, Zenon DEF SmbRecord
<1> QED
  BY <1>1, <1>2, <1>3

(* A fault of the network (a link or a server that comes or goes, a call   *)
(* that fails) keeps the record of the network a record.                   *)
LEMMA NetRecords ==
    ASSUME NEW n \in NetRecord, n.faults < MaxFaults
    PROVE  /\ [n EXCEPT !.faults = @ + 1] \in NetRecord
           /\ [n EXCEPT !.faults = @ + 1, !.link = ~@] \in NetRecord
           /\ [n EXCEPT !.faults = @ + 1, !.server = ~@] \in NetRecord
<1> DEFINE f == n.faults + 1
           l == ~n.link
           s == ~n.server
<1>1. f \in 0..MaxFaults
  BY SmbLoadAssumption DEF NetRecord
<1>2. l \in BOOLEAN /\ s \in BOOLEAN
  OBVIOUS
<1> HIDE DEF f, l, s
<1>3. /\ [n EXCEPT !.faults = f] \in NetRecord /\ [n EXCEPT !.faults = f, !.link = l] \in NetRecord
      /\ [n EXCEPT !.faults = f, !.server = s] \in NetRecord
  BY <1>1, <1>2 DEF NetRecord
<1> QED
  BY <1>3 DEF f, l, s

(* Every step of the SMB load, of its check and of the network keeps the   *)
(* invariant.                                                              *)
LEMMA SmbStep == SmbInv /\ [SmbNext]_smbVars => SmbInv'
<1> USE SmbLoadAssumption
<1> SUFFICES ASSUME SmbInv, [SmbNext]_smbVars PROVE SmbInv'
  OBVIOUS
<1>0. /\ SmbTypeOK /\ WaitsInHead /\ OneOperation /\ SessionIsOfCheck /\ CheckTellsItsResult
      /\ rqs \in Seq(Requests) /\ IsInjective(rqs) /\ smb \in SmbRecord /\ net \in NetRecord
  BY DEF SmbInv, SmbTypeOK, Requests, SmbRecord, NetRecord
(* What an action does to the queue. *)
<1> DEFINE IsQueue == rqs' \in Seq(Requests) /\ IsInjective(rqs')
           Same == IsQueue /\ rqs' = rqs
           Taken == /\ IsQueue /\ rqs # <<>>
                    /\ \A x \in Requests : Contains(rqs', x) <=> Contains(rqs, x) /\ x # Head(rqs)
           Added(r) == /\ IsQueue /\ rqs' # <<>>
                       /\ \A x \in Requests : Contains(rqs', x) <=> Contains(rqs, x) \/ x = r
                       /\ rqs # <<>> => Head(rqs') = Head(rqs)
                       /\ rqs = <<>> => Head(rqs') = r
<1>1. rqs' = rqs => Same
  BY <1>0
<1>2. rqs # <<>> /\ rqs' = Tail(rqs) => Taken
  BY <1>0, QueueTail
<1>3. \A r \in Requests : ~Contains(rqs, r) /\ rqs' = Append(rqs, r) => Added(r)
  BY <1>0, QueueAppend
<1>4. /\ rqs = <<>> => \A x : ~Contains(rqs, x)
      /\ rqs # <<>> => Head(rqs) \in Requests /\ Contains(rqs, Head(rqs))
  BY <1>0, QueueTail DEF Contains
<1> HIDE DEF Same, Taken, Added
<1>5. CASE LoadBegin
  <2>1. Taken \/ Same \/ Added("connect") \/ Added("modules")
    BY <1>0, <1>1, <1>2, <1>3, <1>4, <1>5
    DEF LoadBegin, EthInit, Restarts, LinkUp, Begin, WaitsInHead, OneOperation, Requests
  <2>2. WaitsInHead'
    BY <1>0, <1>4, <2>1, <1>5 DEF LoadBegin, EthInit, Restarts, LinkUp, Begin,
       Same, Taken, Added, WaitsInHead
  <2>3. OneOperation'
    <3>1. /\ Contains(rqs, "load") /\ at = "idle" /\ Head(rqs) = "load" /\ smb'.loading = smb.loading
          /\ at' \in {"idle", "load"} /\ check' = check /\ smb.loading
          /\ ~Contains(rqs, "check") /\ ~Contains(rqs, "modules") /\ ~Contains(rqs, "connect")
      BY <1>0, <1>4, <1>5 DEF LoadBegin, Begin, OneOperation, SmbTypeOK
    <3>2. CASE Taken
      BY <1>0, <3>1, <3>2 DEF Taken, OneOperation, Requests
    <3>3. CASE ~Taken
      <4>1. at' = "load"
        BY <1>2, <3>3, <1>5 DEF LoadBegin, Begin
      <4> QED BY <1>0, <2>1, <3>1, <3>3, <4>1 DEF Same, Added, OneOperation, Requests
    <3> QED BY <3>2, <3>3
  <2>4. SmbTypeOK'
    <3>0. eth' \in [enabled: BOOLEAN, loaded: BOOLEAN]
      BY <1>0, <1>5 DEF LoadBegin, EthInit, SmbTypeOK
    <3>1. smb' \in SmbRecord /\ eth' \in [enabled: BOOLEAN, loaded: BOOLEAN]
      BY <1>0, <1>5, <3>0, SmbRecords DEF LoadBegin
    <3>2. IsQueue
      BY <2>1 DEF Same, Taken, Added
    <3> QED
      BY <1>0, <3>1, <3>2, <1>5 DEF LoadBegin, EthInit, Restarts, LinkUp, Begin,
         SmbTypeOK, Requests, SmbRecord, NetRecord
  <2>5. SessionIsOfCheck' /\ CheckTellsItsResult'
    BY <1>0, <1>4, <2>1, <1>5
    DEF LoadBegin, EthInit, Restarts, LinkUp, Begin, Same, Taken, Added, WaitsInHead, OneOperation, SessionIsOfCheck, CheckTellsItsResult, Requests
  <2> QED BY <2>2, <2>3, <2>4, <2>5 DEF SmbInv
<1>6. CASE LoadEnd
  <2>1. Taken
    BY <1>0, <1>1, <1>2, <1>3, <1>4, <1>6
    DEF LoadEnd, Serving, UpdateList, LinkUp, WaitsInHead, OneOperation, Requests
  <2>2. WaitsInHead'
    BY <1>0, <1>4, <2>1, <1>6 DEF LoadEnd, Serving, UpdateList, LinkUp, Same,
       Taken, Added, WaitsInHead
  <2>3. OneOperation'
    BY <1>0, <1>4, <2>1, <1>6
    DEF LoadEnd, Serving, UpdateList, LinkUp, Same, Taken, Added, SmbTypeOK, WaitsInHead, OneOperation, Requests
  <2>4. SmbTypeOK'
    BY <1>0, <2>1, <1>6 DEF LoadEnd, Serving, UpdateList, LinkUp, Same, Taken,
       Added, SmbTypeOK, Requests, SmbRecord, NetRecord
  <2>5. SessionIsOfCheck' /\ CheckTellsItsResult'
    BY <1>0, <1>4, <2>1, <1>6
    DEF LoadEnd, Serving, UpdateList, LinkUp, Same, Taken, Added, WaitsInHead, OneOperation, SessionIsOfCheck, CheckTellsItsResult, Requests
  <2> QED BY <2>2, <2>3, <2>4, <2>5 DEF SmbInv
<1>7. CASE ModulesBegin
  <2>1. Same
    BY <1>0, <1>1, <1>2, <1>3, <1>4, <1>7
    DEF ModulesBegin, Begin, smbNet, smbUi, WaitsInHead, OneOperation, Requests
  <2>2. WaitsInHead'
    BY <1>0, <1>4, <2>1, <1>7 DEF ModulesBegin, Begin, smbNet, smbUi, Same,
       Taken, Added, WaitsInHead
  <2>3. OneOperation'
    BY <1>0, <1>4, <2>1, <1>7
    DEF ModulesBegin, Begin, smbNet, smbUi, Same, Taken, Added, SmbTypeOK, WaitsInHead, OneOperation, Requests
  <2>4. SmbTypeOK'
    BY <1>0, <2>1, <1>7 DEF ModulesBegin, Begin, smbNet, smbUi, Same, Taken,
       Added, SmbTypeOK, Requests, SmbRecord, NetRecord
  <2>5. SessionIsOfCheck' /\ CheckTellsItsResult'
    BY <1>0, <1>4, <2>1, <1>7
    DEF ModulesBegin, Begin, smbNet, smbUi, Same, Taken, Added, WaitsInHead, OneOperation, SessionIsOfCheck, CheckTellsItsResult, Requests
  <2> QED BY <2>2, <2>3, <2>4, <2>5 DEF SmbInv
<1>8. CASE ModulesFail
  <2>1. Taken
    BY <1>0, <1>1, <1>2, <1>3, <1>4, <1>8
    DEF ModulesFail, Serving, smbUi, WaitsInHead, OneOperation, Requests
  <2>2. WaitsInHead'
    BY <1>0, <1>4, <2>1, <1>8 DEF ModulesFail, Serving, smbUi, Same, Taken,
       Added, WaitsInHead
  <2>3. OneOperation'
    BY <1>0, <1>4, <2>1, <1>8
    DEF ModulesFail, Serving, smbUi, Same, Taken, Added, SmbTypeOK, WaitsInHead, OneOperation, Requests
  <2>4. SmbTypeOK'
    <3>0. net' \in NetRecord
      BY <1>0, <1>8, NetRecords, Zenon DEF ModulesFail
    <3>1. net' \in NetRecord /\ eth' \in [enabled: BOOLEAN, loaded: BOOLEAN]
      <4>1. PICK b \in {TRUE, eth.loaded} : eth' = [eth EXCEPT !.loaded = b]
        BY <1>8 DEF ModulesFail
      <4>2. b \in BOOLEAN /\ eth \in [enabled: BOOLEAN, loaded: BOOLEAN]
        BY <1>0, <4>1 DEF SmbTypeOK
      <4> QED BY <3>0, <4>1, <4>2
    <3>2. IsQueue
      BY <2>1 DEF Same, Taken, Added
    <3> QED
      BY <1>0, <3>1, <3>2, <1>8 DEF ModulesFail, Serving, smbUi, SmbTypeOK,
         Requests, SmbRecord, NetRecord
  <2>5. SessionIsOfCheck' /\ CheckTellsItsResult'
    BY <1>0, <1>4, <2>1, <1>8
    DEF ModulesFail, Serving, smbUi, Same, Taken, Added, WaitsInHead, OneOperation, SessionIsOfCheck, CheckTellsItsResult, Requests
  <2> QED BY <2>2, <2>3, <2>4, <2>5 DEF SmbInv
<1>9. CASE ModulesLoaded
  <2>1. Same
    BY <1>0, <1>1, <1>2, <1>3, <1>4, <1>9
    DEF ModulesLoaded, Serving, smbUi, WaitsInHead, OneOperation, Requests
  <2>2. WaitsInHead'
    BY <1>0, <1>4, <2>1, <1>9 DEF ModulesLoaded, Serving, smbUi, Same, Taken,
       Added, WaitsInHead
  <2>3. OneOperation'
    BY <1>0, <1>4, <2>1, <1>9
    DEF ModulesLoaded, Serving, smbUi, Same, Taken, Added, SmbTypeOK, WaitsInHead, OneOperation, Requests
  <2>4. SmbTypeOK'
    BY <1>0, <2>1, <1>9 DEF ModulesLoaded, Serving, smbUi, Same, Taken, Added,
       SmbTypeOK, Requests, SmbRecord, NetRecord
  <2>5. SessionIsOfCheck' /\ CheckTellsItsResult'
    BY <1>0, <1>4, <2>1, <1>9
    DEF ModulesLoaded, Serving, smbUi, Same, Taken, Added, WaitsInHead, OneOperation, SessionIsOfCheck, CheckTellsItsResult, Requests
  <2> QED BY <2>2, <2>3, <2>4, <2>5 DEF SmbInv
<1>10. CASE ConnectBegin
  <2>1. Same
    BY <1>0, <1>1, <1>2, <1>3, <1>4, <1>10
    DEF ConnectBegin, Begin, smbNet, smbUi, WaitsInHead, OneOperation, Requests
  <2>2. WaitsInHead'
    BY <1>0, <1>4, <2>1, <1>10 DEF ConnectBegin, Begin, smbNet, smbUi, Same,
       Taken, Added, WaitsInHead
  <2>3. OneOperation'
    BY <1>0, <1>4, <2>1, <1>10
    DEF ConnectBegin, Begin, smbNet, smbUi, Same, Taken, Added, SmbTypeOK, WaitsInHead, OneOperation, Requests
  <2>4. SmbTypeOK'
    BY <1>0, <2>1, <1>10 DEF ConnectBegin, Begin, smbNet, smbUi, Same, Taken,
       Added, SmbTypeOK, Requests, SmbRecord, NetRecord
  <2>5. SessionIsOfCheck' /\ CheckTellsItsResult'
    BY <1>0, <1>4, <2>1, <1>10
    DEF ConnectBegin, Begin, smbNet, smbUi, Same, Taken, Added, WaitsInHead, OneOperation, SessionIsOfCheck, CheckTellsItsResult, Requests
  <2> QED BY <2>2, <2>3, <2>4, <2>5 DEF SmbInv
<1>11. CASE Connect
  <2>1. Same \/ Taken
    BY <1>0, <1>1, <1>2, <1>3, <1>4, <1>11
    DEF Connect, Serving, smbUi, WaitsInHead, OneOperation, Requests
  <2>2. WaitsInHead'
    BY <1>0, <1>4, <2>1, <1>11 DEF Connect, Serving, smbUi, Same, Taken, Added,
       WaitsInHead
  <2>3. OneOperation'
    BY <1>0, <1>4, <2>1, <1>11
    DEF Connect, Serving, smbUi, Same, Taken, Added, SmbTypeOK, WaitsInHead, OneOperation, Requests
  <2>4. SmbTypeOK'
    BY <1>0, <2>1, <1>11 DEF Connect, Serving, smbUi, Same, Taken, Added,
       SmbTypeOK, Requests, SmbRecord, NetRecord
  <2>5. SessionIsOfCheck' /\ CheckTellsItsResult'
    BY <1>0, <1>4, <2>1, <1>11
    DEF Connect, Serving, smbUi, Same, Taken, Added, WaitsInHead, OneOperation, SessionIsOfCheck, CheckTellsItsResult, Requests
  <2> QED BY <2>2, <2>3, <2>4, <2>5 DEF SmbInv
<1>12. CASE ReadList
  <2>1. Taken
    BY <1>0, <1>1, <1>2, <1>3, <1>4, <1>12
    DEF ReadList, Serving, UpdateList, smbUi, WaitsInHead, OneOperation, Requests
  <2>2. WaitsInHead'
    BY <1>0, <1>4, <2>1, <1>12 DEF ReadList, Serving, UpdateList, smbUi, Same,
       Taken, Added, WaitsInHead
  <2>3. OneOperation'
    BY <1>0, <1>4, <2>1, <1>12
    DEF ReadList, Serving, UpdateList, smbUi, Same, Taken, Added, SmbTypeOK, WaitsInHead, OneOperation, Requests
  <2>4. SmbTypeOK'
    BY <1>0, <2>1, <1>12 DEF ReadList, Serving, UpdateList, smbUi, Same, Taken,
       Added, SmbTypeOK, Requests, SmbRecord, NetRecord
  <2>5. SessionIsOfCheck' /\ CheckTellsItsResult'
    BY <1>0, <1>4, <2>1, <1>12
    DEF ReadList, Serving, UpdateList, smbUi, Same, Taken, Added, WaitsInHead, OneOperation, SessionIsOfCheck, CheckTellsItsResult, Requests
  <2> QED BY <2>2, <2>3, <2>4, <2>5 DEF SmbInv
<1>13. CASE CheckBegin
  <2>1. Same
    BY <1>0, <1>1, <1>2, <1>3, <1>4, <1>13
    DEF CheckBegin, Begin, smbUi, WaitsInHead, OneOperation, Requests
  <2>2. WaitsInHead'
    BY <1>0, <1>4, <2>1, <1>13 DEF CheckBegin, Begin, smbUi, Same, Taken, Added,
       WaitsInHead
  <2>3. OneOperation'
    BY <1>0, <1>4, <2>1, <1>13
    DEF CheckBegin, Begin, smbUi, Same, Taken, Added, SmbTypeOK, WaitsInHead, OneOperation, Requests
  <2>4. SmbTypeOK'
    BY <1>0, <2>1, <1>13 DEF CheckBegin, Begin, smbUi, Same, Taken, Added,
       SmbTypeOK, Requests, SmbRecord, NetRecord
  <2>5. SessionIsOfCheck' /\ CheckTellsItsResult'
    BY <1>0, <1>4, <2>1, <1>13
    DEF CheckBegin, Begin, smbUi, Same, Taken, Added, WaitsInHead, OneOperation, SessionIsOfCheck, CheckTellsItsResult, Requests
  <2> QED BY <2>2, <2>3, <2>4, <2>5 DEF SmbInv
<1>14. CASE CheckEnd
  <2>1. /\ IsQueue /\ rqs # <<>> /\ rqs' # <<>>
        /\ \A x \in Requests : Contains(rqs', x) <=> (Contains(rqs, x) /\ x # Head(rqs)) \/ x = "modules"
    <3>1. /\ rqs # <<>> /\ rqs' = Append(Tail(rqs), "modules") /\ Head(rqs) = "check"
          /\ "modules" \in Requests /\ ~Contains(rqs, "modules")
      BY <1>0, <1>4, <1>14 DEF CheckEnd, Serving, WaitsInHead, OneOperation,
         Requests
    <3>2. /\ Tail(rqs) \in Seq(Requests) /\ IsInjective(Tail(rqs))
          /\ \A x : Contains(Tail(rqs), x) <=> Contains(rqs, x) /\ x # Head(rqs)
      BY <1>0, <3>1, QueueTail
    <3>3. /\ Append(Tail(rqs), "modules") \in Seq(Requests) /\ Append(Tail(rqs), "modules") # <<>>
          /\ IsInjective(Append(Tail(rqs), "modules"))
          /\ \A x : Contains(Append(Tail(rqs), "modules"), x) <=> Contains(Tail(rqs), x) \/ x = "modules"
      BY <3>1, <3>2, QueueAppend
    <3> QED BY <3>1, <3>2, <3>3
  <2>2. WaitsInHead'
    BY <1>0, <1>4, <2>1, <1>14 DEF CheckEnd, Serving, smbUi, Same, Taken, Added,
       WaitsInHead
  <2>3. OneOperation'
    BY <1>0, <1>4, <2>1, <1>14
    DEF CheckEnd, Serving, smbUi, Same, Taken, Added, SmbTypeOK, WaitsInHead, OneOperation, Requests
  <2>4. SmbTypeOK'
    BY <1>0, <2>1, <1>14 DEF CheckEnd, Serving, smbUi, Same, Taken, Added,
       SmbTypeOK, Requests, SmbRecord, NetRecord
  <2>5. SessionIsOfCheck' /\ CheckTellsItsResult'
    BY <1>0, <1>4, <2>1, <1>14
    DEF CheckEnd, Serving, smbUi, Same, Taken, Added, WaitsInHead, OneOperation, SessionIsOfCheck, CheckTellsItsResult, Requests
  <2> QED BY <2>2, <2>3, <2>4, <2>5 DEF SmbInv
<1>15. CASE MergedBegin
  <2>1. Same \/ Taken
    BY <1>0, <1>1, <1>2, <1>3, <1>4, <1>15
    DEF MergedBegin, Begin, smbNet, smbUi, WaitsInHead, OneOperation, Requests
  <2>2. WaitsInHead'
    BY <1>0, <1>4, <2>1, <1>15 DEF MergedBegin, Begin, smbNet, smbUi, Same,
       Taken, Added, WaitsInHead
  <2>3. OneOperation'
    BY <1>0, <1>4, <2>1, <1>15
    DEF MergedBegin, Begin, smbNet, smbUi, Same, Taken, Added, SmbTypeOK, WaitsInHead, OneOperation, Requests
  <2>4. SmbTypeOK'
    BY <1>0, <2>1, <1>15 DEF MergedBegin, Begin, smbNet, smbUi, Same, Taken,
       Added, SmbTypeOK, Requests, SmbRecord, NetRecord
  <2>5. SessionIsOfCheck' /\ CheckTellsItsResult'
    BY <1>0, <1>4, <2>1, <1>15
    DEF MergedBegin, Begin, smbNet, smbUi, Same, Taken, Added, WaitsInHead, OneOperation, SessionIsOfCheck, CheckTellsItsResult, Requests
  <2> QED BY <2>2, <2>3, <2>4, <2>5 DEF SmbInv
<1>16. CASE MergedRebuild
  <2>1. Same \/ Taken
    BY <1>0, <1>1, <1>2, <1>3, <1>4, <1>16
    DEF MergedRebuild, Serving, smbNet, smbUi, WaitsInHead, OneOperation, Requests
  <2>2. WaitsInHead'
    BY <1>0, <1>4, <2>1, <1>16 DEF MergedRebuild, Serving, smbNet, smbUi, Same,
       Taken, Added, WaitsInHead
  <2>3. OneOperation'
    BY <1>0, <1>4, <2>1, <1>16
    DEF MergedRebuild, Serving, smbNet, smbUi, Same, Taken, Added, SmbTypeOK, WaitsInHead, OneOperation, Requests
  <2>4. SmbTypeOK'
    <3>1. /\ listing' \in BOOLEAN
          /\ menuGames' \in SUBSET ShareGames
          /\ forced' \in BOOLEAN
      BY <1>0, <1>16 DEF MergedRebuild, Serving, smbNet, smbUi, SmbTypeOK
    <3>2. IsQueue
      BY <2>1 DEF Same, Taken, Added
    <3> QED
      BY <1>0, <3>1, <3>2, <1>16 DEF MergedRebuild, Serving, smbNet, smbUi,
         SmbTypeOK, Requests, SmbRecord, NetRecord
  <2>5. SessionIsOfCheck' /\ CheckTellsItsResult'
    BY <1>0, <1>4, <2>1, <1>16
    DEF MergedRebuild, Serving, smbNet, smbUi, Same, Taken, Added, WaitsInHead, OneOperation, SessionIsOfCheck, CheckTellsItsResult, Requests
  <2> QED BY <2>2, <2>3, <2>4, <2>5 DEF SmbInv
<1>17. CASE MergedEnd
  <2>1. Taken
    BY <1>0, <1>1, <1>2, <1>3, <1>4, <1>17
    DEF MergedEnd, Serving, smbNet, smbUi, WaitsInHead, OneOperation, Requests
  <2>2. WaitsInHead'
    BY <1>0, <1>4, <2>1, <1>17 DEF MergedEnd, Serving, smbNet, smbUi, Same,
       Taken, Added, WaitsInHead
  <2>3. OneOperation'
    BY <1>0, <1>4, <2>1, <1>17
    DEF MergedEnd, Serving, smbNet, smbUi, Same, Taken, Added, SmbTypeOK, WaitsInHead, OneOperation, Requests
  <2>4. SmbTypeOK'
    BY <1>0, <2>1, <1>17 DEF MergedEnd, Serving, smbNet, smbUi, Same, Taken,
       Added, SmbTypeOK, Requests, SmbRecord, NetRecord
  <2>5. SessionIsOfCheck' /\ CheckTellsItsResult'
    BY <1>0, <1>4, <2>1, <1>17
    DEF MergedEnd, Serving, smbNet, smbUi, Same, Taken, Added, WaitsInHead, OneOperation, SessionIsOfCheck, CheckTellsItsResult, Requests
  <2> QED BY <2>2, <2>3, <2>4, <2>5 DEF SmbInv
<1>18. CASE UpdateSmbDialog
  <2>1. Same \/ Added("merged")
    BY <1>0, <1>1, <1>2, <1>3, <1>4, <1>18
    DEF UpdateSmbDialog, WorkerWaits, Pending, PutRq, NoLoad, smbNet, WaitsInHead, OneOperation, Requests
  <2>2. WaitsInHead'
    BY <1>0, <1>4, <2>1, <1>18 DEF UpdateSmbDialog, WorkerWaits, Pending, PutRq,
       NoLoad, smbNet, Same, Taken, Added, WaitsInHead
  <2>3. OneOperation'
    BY <1>0, <1>4, <2>1, <1>18
    DEF UpdateSmbDialog, WorkerWaits, Pending, PutRq, NoLoad, smbNet, Same, Taken, Added, SmbTypeOK, WaitsInHead, OneOperation, Requests
  <2>4. SmbTypeOK'
    <3>1. smb' \in SmbRecord
      BY <1>0, <1>18, SmbRecords DEF UpdateSmbDialog
    <3>2. IsQueue
      BY <2>1 DEF Same, Taken, Added
    <3> QED
      <4>1. /\ forced' \in {forced, TRUE}
            /\ UNCHANGED <<net, eth, gNetworkStartup, ethGames, session, at, listing, menuGames, check, tab,
                           live, temp>>
        BY <1>18 DEF UpdateSmbDialog, smbNet
      <4>2. {forced', listing'} \subseteq BOOLEAN
        BY <1>0, <4>1 DEF SmbTypeOK
      <4> QED
        BY <1>0, <3>1, <3>2, <4>1, <4>2, Zenon DEF SmbTypeOK, Requests, SmbRecord
  <2>5. SessionIsOfCheck' /\ CheckTellsItsResult'
    BY <1>0, <1>4, <2>1, <1>18
    DEF UpdateSmbDialog, WorkerWaits, Pending, PutRq, NoLoad, smbNet, Same, Taken, Added, WaitsInHead, OneOperation, SessionIsOfCheck, CheckTellsItsResult, Requests
  <2> QED BY <2>2, <2>3, <2>4, <2>5 DEF SmbInv
<1>19. CASE UpdateCheckDialog
  <2>1. Same
    BY <1>0, <1>1, <1>2, <1>3, <1>4, <1>19
    DEF UpdateCheckDialog, WorkerWaits, Pending, smbNet, smbIo, WaitsInHead, OneOperation, Requests
  <2>2. WaitsInHead'
    BY <1>0, <1>4, <2>1, <1>19 DEF UpdateCheckDialog, WorkerWaits, Pending,
       smbNet, smbIo, Same, Taken, Added, WaitsInHead
  <2>3. OneOperation'
    BY <1>0, <1>4, <2>1, <1>19
    DEF UpdateCheckDialog, WorkerWaits, Pending, smbNet, smbIo, Same, Taken, Added, SmbTypeOK, WaitsInHead, OneOperation, Requests
  <2>4. SmbTypeOK'
    BY <1>0, <2>1, <1>19 DEF UpdateCheckDialog, WorkerWaits, Pending, smbNet,
       smbIo, Same, Taken, Added, SmbTypeOK, Requests, SmbRecord, NetRecord
  <2>5. SessionIsOfCheck' /\ CheckTellsItsResult'
    BY <1>0, <1>4, <2>1, <1>19
    DEF UpdateCheckDialog, WorkerWaits, Pending, smbNet, smbIo, Same, Taken, Added, WaitsInHead, OneOperation, SessionIsOfCheck, CheckTellsItsResult, Requests
  <2> QED BY <2>2, <2>3, <2>4, <2>5 DEF SmbInv
<1>20. CASE Hook
  <2>1. Added("merged")
    BY <1>0, <1>1, <1>2, <1>3, <1>4, <1>20
    DEF Hook, WorkerWaits, smbNet, smbUi, WaitsInHead, OneOperation, Requests
  <2>2. WaitsInHead'
    BY <1>0, <1>4, <2>1, <1>20 DEF Hook, WorkerWaits, smbNet, smbUi, Same,
       Taken, Added, WaitsInHead
  <2>3. OneOperation'
    BY <1>0, <1>4, <2>1, <1>20
    DEF Hook, WorkerWaits, smbNet, smbUi, Same, Taken, Added, SmbTypeOK, WaitsInHead, OneOperation, Requests
  <2>4. SmbTypeOK'
    BY <1>0, <2>1, <1>20 DEF Hook, WorkerWaits, smbNet, smbUi, Same, Taken,
       Added, SmbTypeOK, Requests, SmbRecord, NetRecord
  <2>5. SessionIsOfCheck' /\ CheckTellsItsResult'
    BY <1>0, <1>4, <2>1, <1>20
    DEF Hook, WorkerWaits, smbNet, smbUi, Same, Taken, Added, WaitsInHead, OneOperation, SessionIsOfCheck, CheckTellsItsResult, Requests
  <2> QED BY <2>2, <2>3, <2>4, <2>5 DEF SmbInv
<1>21. CASE AutoLoad
  <2>1. Added("load")
    BY <1>0, <1>1, <1>2, <1>3, <1>4, <1>21
    DEF AutoLoad, Keys, OperationActive, WorkerWaits, Pending, QueueSmbLoad, QueuedLoad, WaitsInHead, OneOperation, Requests
  <2>2. WaitsInHead'
    BY <1>0, <1>4, <2>1, <1>21 DEF AutoLoad, Keys, OperationActive, WorkerWaits,
       Pending, QueueSmbLoad, QueuedLoad, Same, Taken, Added, WaitsInHead
  <2>3. OneOperation'
    BY <1>0, <1>4, <2>1, <1>21
    DEF AutoLoad, Keys, OperationActive, WorkerWaits, Pending, QueueSmbLoad, QueuedLoad, Same, Taken, Added, SmbTypeOK, WaitsInHead, OneOperation, Requests
  <2>4. SmbTypeOK'
    BY <1>0, <2>1, <1>21 DEF AutoLoad, Keys, OperationActive, WorkerWaits,
       Pending, QueueSmbLoad, QueuedLoad, Same, Taken, Added, SmbTypeOK,
       Requests, SmbRecord, NetRecord
  <2>5. SessionIsOfCheck' /\ CheckTellsItsResult'
    BY <1>0, <1>4, <2>1, <1>21
    DEF AutoLoad, Keys, OperationActive, WorkerWaits, Pending, QueueSmbLoad, QueuedLoad, Same, Taken, Added, WaitsInHead, OneOperation, SessionIsOfCheck, CheckTellsItsResult, Requests
  <2> QED BY <2>2, <2>3, <2>4, <2>5 DEF SmbInv
<1>22. CASE Refresh
  <2>1. \/ Same
        \/ /\ IsQueue /\ rqs = <<>> /\ rqs' # <<>> /\ Head(rqs') = "merged"
           /\ \A x \in Requests : Contains(rqs', x) <=> x \in {"merged", "load"}
    <3>1. CASE rqs' = rqs
      BY <1>1, <3>1
    <3>2. CASE rqs = <<>> /\ rqs' = Append(<<"merged">>, "load")
      <4>1. /\ <<"merged">> \in Seq(Requests) /\ "load" \in Requests /\ IsInjective(<<"merged">>)
            /\ \A x : Contains(<<"merged">>, x) <=> x = "merged"
            /\ <<"merged">> # <<>> /\ Head(<<"merged">>) = "merged"
        BY DEF Requests, Contains, IsInjective
      <4>2. /\ Append(<<"merged">>, "load") \in Seq(Requests) /\ Append(<<"merged">>, "load") # <<>>
            /\ IsInjective(Append(<<"merged">>, "load")) /\ Head(Append(<<"merged">>, "load")) = "merged"
            /\ \A x : Contains(Append(<<"merged">>, "load"), x) <=> x \in {"merged", "load"}
        <5> DEFINE m == <<"merged">>
        <5>1. /\ m \in Seq(Requests) /\ "load" \in Requests /\ IsInjective(m) /\ ~Contains(m, "load")
              /\ m # <<>> /\ Head(m) = "merged" /\ \A x : Contains(m, x) <=> x = "merged"
          BY <4>1
        <5> HIDE DEF m
        <5>2. /\ Append(m, "load") \in Seq(Requests) /\ Append(m, "load") # <<>>
              /\ IsInjective(Append(m, "load")) /\ Head(Append(m, "load")) = "merged"
              /\ \A x : Contains(Append(m, "load"), x) <=> x \in {"merged", "load"}
          BY <5>1, QueueAppend
        <5> QED BY <5>2 DEF m
      <4> QED BY <3>2, <4>2
    <3> QED BY <3>1, <3>2, <1>22 DEF Refresh, Pending, QueueSmbLoad
  <2>2. WaitsInHead'
    BY <1>0, <1>4, <2>1, <1>22 DEF Refresh, Keys, OperationActive, WorkerWaits,
       Pending, QueueSmbLoad, QueuedLoad, NoLoad, Same, Taken, Added,
       WaitsInHead
  <2>3. OneOperation'
    BY <1>0, <1>4, <2>1, <1>22
    DEF Refresh, Keys, OperationActive, WorkerWaits, Pending, QueueSmbLoad, QueuedLoad, NoLoad, Same, Taken, Added, SmbTypeOK, WaitsInHead, OneOperation, Requests
  <2>4. SmbTypeOK'
    <3>1. smb' \in SmbRecord
      BY <1>0, <1>22, SmbRecords DEF Refresh, QueueSmbLoad
    <3>2. IsQueue
      BY <2>1 DEF Same, Taken, Added
    <3> QED
      BY <1>0, <3>1, <3>2, <1>22 DEF Refresh, Keys, OperationActive,
         WorkerWaits, Pending, QueueSmbLoad, QueuedLoad, NoLoad, SmbTypeOK,
         Requests, SmbRecord, NetRecord
  <2>5. SessionIsOfCheck' /\ CheckTellsItsResult'
    BY <1>0, <1>4, <2>1, <1>22
    DEF Refresh, Keys, OperationActive, WorkerWaits, Pending, QueueSmbLoad, QueuedLoad, NoLoad, Same, Taken, Added, WaitsInHead, OneOperation, SessionIsOfCheck, CheckTellsItsResult, Requests
  <2> QED BY <2>2, <2>3, <2>4, <2>5 DEF SmbInv
<1>23. CASE SwitchTab
  <2>1. Same
    BY <1>0, <1>1, <1>2, <1>3, <1>4, <1>23
    DEF SwitchTab, Keys, smbNet, smbIo, WaitsInHead, OneOperation, Requests
  <2>2. WaitsInHead'
    BY <1>0, <1>4, <2>1, <1>23 DEF SwitchTab, Keys, smbNet, smbIo, Same, Taken,
       Added, WaitsInHead
  <2>3. OneOperation'
    BY <1>0, <1>4, <2>1, <1>23
    DEF SwitchTab, Keys, smbNet, smbIo, Same, Taken, Added, SmbTypeOK, WaitsInHead, OneOperation, Requests
  <2>4. SmbTypeOK'
    BY <1>0, <2>1, <1>23 DEF SwitchTab, Keys, smbNet, smbIo, Same, Taken, Added,
       SmbTypeOK, Requests, SmbRecord, NetRecord
  <2>5. SessionIsOfCheck' /\ CheckTellsItsResult'
    BY <1>0, <1>4, <2>1, <1>23
    DEF SwitchTab, Keys, smbNet, smbIo, Same, Taken, Added, WaitsInHead, OneOperation, SessionIsOfCheck, CheckTellsItsResult, Requests
  <2> QED BY <2>2, <2>3, <2>4, <2>5 DEF SmbInv
<1>24. CASE EditServer
  <2>1. Same
    BY <1>0, <1>1, <1>2, <1>3, <1>4, <1>24
    DEF EditServer, Keys, smbNet, smbIo, WaitsInHead, OneOperation, Requests
  <2>2. WaitsInHead'
    BY <1>0, <1>4, <2>1, <1>24 DEF EditServer, Keys, smbNet, smbIo, Same, Taken,
       Added, WaitsInHead
  <2>3. OneOperation'
    BY <1>0, <1>4, <2>1, <1>24
    DEF EditServer, Keys, smbNet, smbIo, Same, Taken, Added, SmbTypeOK, WaitsInHead, OneOperation, Requests
  <2>4. SmbTypeOK'
    BY <1>0, <2>1, <1>24 DEF EditServer, Keys, smbNet, smbIo, Same, Taken,
       Added, SmbTypeOK, Requests, SmbRecord, NetRecord
  <2>5. SessionIsOfCheck' /\ CheckTellsItsResult'
    BY <1>0, <1>4, <2>1, <1>24
    DEF EditServer, Keys, smbNet, smbIo, Same, Taken, Added, WaitsInHead, OneOperation, SessionIsOfCheck, CheckTellsItsResult, Requests
  <2> QED BY <2>2, <2>3, <2>4, <2>5 DEF SmbInv
<1>25. CASE StartCheck
  <2>1. Added("check")
    BY <1>0, <1>1, <1>2, <1>3, <1>4, <1>25
    DEF StartCheck, Keys, OperationActive, WorkerWaits, smbNet, WaitsInHead, OneOperation, Requests
  <2>2. WaitsInHead'
    BY <1>0, <1>4, <2>1, <1>25 DEF StartCheck, Keys, OperationActive,
       WorkerWaits, smbNet, Same, Taken, Added, WaitsInHead
  <2>3. OneOperation'
    BY <1>0, <1>4, <2>1, <1>25
    DEF StartCheck, Keys, OperationActive, WorkerWaits, smbNet, Same, Taken, Added, SmbTypeOK, WaitsInHead, OneOperation, Requests
  <2>4. SmbTypeOK'
    BY <1>0, <2>1, <1>25 DEF StartCheck, Keys, OperationActive, WorkerWaits,
       smbNet, Same, Taken, Added, SmbTypeOK, Requests, SmbRecord, NetRecord
  <2>5. SessionIsOfCheck' /\ CheckTellsItsResult'
    BY <1>0, <1>4, <2>1, <1>25
    DEF StartCheck, Keys, OperationActive, WorkerWaits, smbNet, Same, Taken, Added, WaitsInHead, OneOperation, SessionIsOfCheck, CheckTellsItsResult, Requests
  <2> QED BY <2>2, <2>3, <2>4, <2>5 DEF SmbInv
<1>26. CASE CloseCheck
  <2>1. Same \/ Added("merged")
    BY <1>0, <1>1, <1>2, <1>3, <1>4, <1>26
    DEF CloseCheck, WorkerWaits, PutRq, smbNet, WaitsInHead, OneOperation, Requests
  <2>2. WaitsInHead'
    BY <1>0, <1>4, <2>1, <1>26 DEF CloseCheck, WorkerWaits, PutRq, smbNet, Same,
       Taken, Added, WaitsInHead
  <2>3. OneOperation'
    BY <1>0, <1>4, <2>1, <1>26
    DEF CloseCheck, WorkerWaits, PutRq, smbNet, Same, Taken, Added, SmbTypeOK, WaitsInHead, OneOperation, Requests
  <2>4. SmbTypeOK'
    BY <1>0, <2>1, <1>26 DEF CloseCheck, WorkerWaits, PutRq, smbNet, Same,
       Taken, Added, SmbTypeOK, Requests, SmbRecord, NetRecord
  <2>5. SessionIsOfCheck' /\ CheckTellsItsResult'
    BY <1>0, <1>4, <2>1, <1>26
    DEF CloseCheck, WorkerWaits, PutRq, smbNet, Same, Taken, Added, WaitsInHead, OneOperation, SessionIsOfCheck, CheckTellsItsResult, Requests
  <2> QED BY <2>2, <2>3, <2>4, <2>5 DEF SmbInv
<1>27. CASE SaveServer
  <2>1. Same
    BY <1>0, <1>1, <1>2, <1>3, <1>4, <1>27
    DEF SaveServer, Keys, OperationActive, NoLoad, smbNet, smbIo, WaitsInHead, OneOperation, Requests
  <2>2. WaitsInHead'
    BY <1>0, <1>4, <2>1, <1>27 DEF SaveServer, Keys, OperationActive, NoLoad,
       smbNet, smbIo, Same, Taken, Added, WaitsInHead
  <2>3. OneOperation'
    BY <1>0, <1>4, <2>1, <1>27
    DEF SaveServer, Keys, OperationActive, NoLoad, smbNet, smbIo, Same, Taken, Added, SmbTypeOK, WaitsInHead, OneOperation, Requests
  <2>4. SmbTypeOK'
    BY <1>0, <2>1, <1>27 DEF SaveServer, Keys, OperationActive, NoLoad, smbNet,
       smbIo, Same, Taken, Added, SmbTypeOK, Requests, SmbRecord, NetRecord
  <2>5. SessionIsOfCheck' /\ CheckTellsItsResult'
    BY <1>0, <1>4, <2>1, <1>27
    DEF SaveServer, Keys, OperationActive, NoLoad, smbNet, smbIo, Same, Taken, Added, WaitsInHead, OneOperation, SessionIsOfCheck, CheckTellsItsResult, Requests
  <2> QED BY <2>2, <2>3, <2>4, <2>5 DEF SmbInv
<1>28. CASE NetChanges
  <2>1. Same
    BY <1>0, <1>1, <1>2, <1>3, <1>4, <1>28
    DEF NetChanges, smbIo, smbUi, WaitsInHead, OneOperation, Requests
  <2>2. WaitsInHead'
    BY <1>0, <1>4, <2>1, <1>28 DEF NetChanges, smbIo, smbUi, Same, Taken, Added,
       WaitsInHead
  <2>3. OneOperation'
    BY <1>0, <1>4, <2>1, <1>28
    DEF NetChanges, smbIo, smbUi, Same, Taken, Added, SmbTypeOK, WaitsInHead, OneOperation, Requests
  <2>4. SmbTypeOK'
    <3>1. net' \in NetRecord
      BY <1>0, <1>28, NetRecords, Zenon DEF NetChanges
    <3>2. IsQueue
      BY <2>1 DEF Same, Taken, Added
    <3> QED
      BY <1>0, <3>1, <3>2, <1>28 DEF NetChanges, smbIo, smbUi, SmbTypeOK,
         Requests, SmbRecord, NetRecord
  <2>5. SessionIsOfCheck' /\ CheckTellsItsResult'
    BY <1>0, <1>4, <2>1, <1>28
    DEF NetChanges, smbIo, smbUi, Same, Taken, Added, WaitsInHead, OneOperation, SessionIsOfCheck, CheckTellsItsResult, Requests
  <2> QED BY <2>2, <2>3, <2>4, <2>5 DEF SmbInv
<1>29. CASE UNCHANGED smbVars
  <2>1. Same
    BY <1>0, <1>1, <1>2, <1>3, <1>4, <1>29
    DEF smbVars, smbNet, smbIo, smbUi, WaitsInHead, OneOperation, Requests
  <2>2. WaitsInHead'
    BY <1>0, <1>4, <2>1, <1>29 DEF smbVars, smbNet, smbIo, smbUi, Same, Taken,
       Added, WaitsInHead
  <2>3. OneOperation'
    BY <1>0, <1>4, <2>1, <1>29
    DEF smbVars, smbNet, smbIo, smbUi, Same, Taken, Added, SmbTypeOK, WaitsInHead, OneOperation, Requests
  <2>4. SmbTypeOK'
    BY <1>0, <2>1, <1>29 DEF smbVars, smbNet, smbIo, smbUi, Same, Taken, Added,
       SmbTypeOK, Requests, SmbRecord, NetRecord
  <2>5. SessionIsOfCheck' /\ CheckTellsItsResult'
    BY <1>0, <1>4, <2>1, <1>29
    DEF smbVars, smbNet, smbIo, smbUi, Same, Taken, Added, WaitsInHead, OneOperation, SessionIsOfCheck, CheckTellsItsResult, Requests
  <2> QED BY <2>2, <2>3, <2>4, <2>5 DEF SmbInv
<1> QED
  BY <1>5, <1>6, <1>7, <1>8, <1>9, <1>10, <1>11, <1>12, <1>13, <1>14, <1>15,
     <1>16, <1>17, <1>18, <1>19, <1>20, <1>21, <1>22, <1>23, <1>24, <1>25,
     <1>26, <1>27, <1>28, <1>29
  DEF SmbNext, SmbWorker, SmbFrame, SmbUser

(* A launcher that has not started the network yet satisfies the           *)
(* invariant.                                                              *)
LEMMA SmbStart == SmbInit => SmbInv
<1> SUFFICES ASSUME SmbInit PROVE SmbInv
  OBVIOUS
<1>1. <<>> \in Seq(Requests) /\ IsInjective(<<>>) /\ \A x : ~Contains(<<>>, x)
  BY DEF IsInjective, Contains
<1>2. /\ net \in [link: BOOLEAN, server: BOOLEAN, faults: 0..MaxFaults]
      /\ smb \in [prompt: 0..2, status: 0..2, queued: BOOLEAN, loading: BOOLEAN, had: BOOLEAN]
  BY SmbLoadAssumption DEF SmbInit
<1>3. rqs \in Seq({"load", "modules", "connect", "check", "merged"}) /\ IsInjective(rqs)
  BY <1>1 DEF SmbInit, Requests
<1>4. SmbTypeOK
  <2>1. {live, temp} \subseteq Servers /\ {forced, listing} \subseteq BOOLEAN
    BY DEF SmbInit
  <2> QED
    BY <1>2, <1>3, <2>1 DEF SmbInit, SmbTypeOK
<1> QED
  BY <1>1, <1>4
  DEF SmbInit, SmbInv, WaitsInHead, OneOperation, SessionIsOfCheck, CheckTellsItsResult

(* "Connection successful!" is about the settings in use: the session was  *)
(* opened with them, by the check that tells it (menusys.c:3219-3230).     *)
THEOREM CheckStaysTrue == SmbSpec => []CheckTellsItsResult
<1>1. SmbInv => CheckTellsItsResult
  BY DEF SmbInv
<1> QED
  BY <1>1, SmbStart, SmbStep, PTL DEF SmbSpec

-----------------------------------------------------------------------------
(* The settings of a game.                                                 *)

(* The requests that are not being written.                                *)
Rest == IF ioState = "save" THEN Tail(requests) ELSE requests
OneSave(q) == \A i, j \in 1..Len(q) : q[i] = "save" /\ q[j] = "save" => i = j
SavesLast(q) == \A i, j \in 1..Len(q) : i < j /\ q[i] = "save" => q[j] # "request"

(* The worker serves the head of the queue; the GUI thread waits for the   *)
(* semaphore in a frame that asks for settings; the ids agree.             *)
GcBase ==
    /\ ioState # "idle" => requests # <<>>
    /\ ioState \in {"load", "save", "scan"} => Head(requests) = ioState
    /\ ioState = "clear" => Head(requests) = "scan"
    /\ menuSema = "gui" => gui = "sema"
    /\ gui = "sema" => menuSema # "free" /\ waiting # "save" /\ (screen = "list" \/ waiting = "load")
    /\ waiting # "no" => screen = "options"
    /\ screen = "options" => shown \in GcGames
    /\ itemConfigSource = itemConfigId
    /\ ioState = "load" => itemConfig = NoGame /\ itemConfigId \in {NoGame, loading}

(* While the screen of options is open, it is on the game that is current. *)
ShownIsCurrent ==
    /\ screen = "options" => current = shown /\ shown \in listed /\ ~relist
    /\ screen = "options" \/ Contains(requests, "save") => ioState # "scan"

(* The screen waits for the settings: they are still to be asked for, or   *)
(* they were, and then they are there or a load is queued.                 *)
LoadIsComing ==
    waiting = "load" =>
        /\ Contains(requests, "request") \/ itemConfigId = shown
        /\ itemConfigId \in {NoGame, shown}
        /\ itemConfigId = shown /\ itemConfig = NoGame => Contains(requests, "load")
        /\ actionStatus = 0 => itemConfig # NoGame \/ itemConfigId = shown
        /\ actionStatus = 0 /\ ioState = "load" => loading = shown /\ itemConfigId = shown
        /\ ioState = "save" => actionStatus = 1 /\ itemConfigId = NoGame

(* The screen has its settings, or they are being read.                    *)
SettingsAreThere ==
    screen = "options" /\ waiting # "load" =>
        /\ \/ itemConfig # NoGame /\ itemConfig.of = shown
           \/ ioState = "load" /\ loading = shown
        /\ Contains(requests, "request") => itemConfigId = shown
        /\ SavesLast(requests)

(* A save waits only while the GUI thread waits for it.                    *)
SaveIsAwaited ==
    /\ waiting # "save" => ~Contains(Rest, "save")
    /\ waiting = "save" =>
        /\ OneSave(Rest)
        /\ ioState = "load" => actionStatus = 1
        /\ ioState = "save" /\ actionStatus = 0 => ~Contains(Rest, "save")

(* What is written was stored or chosen.                                   *)
ValueIsChosen ==
    Contains(requests, "save") /\ itemConfig # NoGame /\ itemConfig.of \in GcGames =>
        \/ itemConfig.value = stored[itemConfig.of]
        \/ itemConfig.value \in chosen[itemConfig.of]

Undisturbed ==
    ~disturbed =>
        /\ ShownIsCurrent /\ LoadIsComing /\ SettingsAreThere /\ SaveIsAwaited /\ ValueIsChosen
        /\ SaveHasConfig

GcInv == GcTypeOK /\ GcBase /\ ConfigIsOfId /\ Undisturbed

Kinds == {"request", "load", "save", "scan"}

(* The order of the saves in a queue.                                      *)
LEMMA SaveOrder ==
    ASSUME NEW S, NEW q \in Seq(S)
    PROVE  /\ ~Contains(q, "save") => OneSave(q) /\ SavesLast(q)
           /\ \A r \in S :
                /\ r # "save" /\ OneSave(q) => OneSave(Append(q, r))
                /\ ~Contains(q, "save") => OneSave(Append(q, r))
                /\ r # "request" /\ SavesLast(q) => SavesLast(Append(q, r))
           /\ q # <<>> /\ OneSave(q) =>
                OneSave(Tail(q)) /\ (Head(q) = "save" => ~Contains(Tail(q), "save"))
           /\ q # <<>> /\ SavesLast(q) =>
                SavesLast(Tail(q)) /\ (Head(q) = "save" => ~Contains(Tail(q), "request"))
<1>1. Len(q) \in Nat
  BY LenProperties
<1>2. ~Contains(q, "save") => OneSave(q) /\ SavesLast(q)
  BY DEF Contains, OneSave, SavesLast
<1>3. ASSUME NEW r \in S
      PROVE  /\ r # "save" /\ OneSave(q) => OneSave(Append(q, r))
             /\ ~Contains(q, "save") => OneSave(Append(q, r))
             /\ r # "request" /\ SavesLast(q) => SavesLast(Append(q, r))
  <2>1. /\ Len(Append(q, r)) = Len(q) + 1 /\ Append(q, r)[Len(q) + 1] = r
        /\ \A i \in 1..Len(q) : Append(q, r)[i] = q[i]
    BY AppendProperties
  <2> QED
    BY <1>1, <2>1 DEF Contains, OneSave, SavesLast
<1>4. CASE q # <<>>
  <2>1. /\ Len(Tail(q)) = Len(q) - 1 /\ Len(q) >= 1 /\ Head(q) = q[1]
        /\ \A i \in 1..(Len(q) - 1) : Tail(q)[i] = q[i + 1]
    BY <1>1, <1>4, HeadTailProperties, EmptySeq
  <2>2. OneSave(q) => OneSave(Tail(q))
    BY <1>1, <2>1 DEF OneSave
  <2>3. SavesLast(q) => SavesLast(Tail(q))
    BY <1>1, <2>1 DEF SavesLast
  <2>4. OneSave(q) /\ Head(q) = "save" => ~Contains(Tail(q), "save")
    BY <1>1, <2>1 DEF OneSave, Contains
  <2>5. SavesLast(q) /\ Head(q) = "save" => ~Contains(Tail(q), "request")
    BY <1>1, <2>1 DEF SavesLast, Contains
  <2> QED
    BY <2>2, <2>3, <2>4, <2>5, <1>2, <1>3
<1> QED
  BY <1>2, <1>3, <1>4

(* What the queue of the settings holds after a step.                      *)
Untouched == UNCHANGED requests
Served ==
    /\ requests # <<>> /\ requests' = Tail(requests)
Asked(r) == requests' = Append(requests, r)
Replaced == requests # <<>> /\ requests' = Append(Tail(requests), "load")

(* What a served, a new and a replaced request make of the queue of the    *)
(* I/O manager.                                                            *)
LEMMA GcQueue ==
    ASSUME requests \in Seq(Kinds), MaxRequests \in Nat, Len(requests) <= MaxRequests
    PROVE  /\ Served =>
                /\ requests' \in Seq(Kinds) /\ Len(requests') <= MaxRequests
                /\ \A x : Contains(requests', x) => Contains(requests, x)
                /\ \A x : Contains(requests, x) => Contains(requests', x) \/ x = Head(requests)
           /\ \A r \in Kinds : Asked(r) /\ Len(requests) < MaxRequests =>
                /\ requests' \in Seq(Kinds) /\ Len(requests') <= MaxRequests /\ requests' # <<>>
                /\ \A x : Contains(requests', x) <=> Contains(requests, x) \/ x = r
                /\ requests # <<>> => Head(requests') = Head(requests)
           /\ Replaced =>
                /\ requests' \in Seq(Kinds) /\ Len(requests') <= MaxRequests /\ requests' # <<>>
                /\ \A x : Contains(requests', x) => Contains(requests, x) \/ x = "load"
                /\ \A x : Contains(requests, x) => Contains(requests', x) \/ x = Head(requests)
                /\ Contains(requests', "load")
<1>1. Len(requests) \in Nat /\ "load" \in Kinds
  BY LenProperties DEF Kinds
<1>2. ASSUME requests # <<>>
      PROVE  /\ Tail(requests) \in Seq(Kinds) /\ Len(Tail(requests)) = Len(requests) - 1
             /\ \A x : Contains(requests, x) <=> Contains(Tail(requests), x) \/ x = Head(requests)
  BY <1>2, QueueTail
<1>3. \A r \in Kinds : /\ Append(requests, r) \in Seq(Kinds) /\ Append(requests, r) # <<>>
                       /\ Len(Append(requests, r)) = Len(requests) + 1
                       /\ \A x : Contains(Append(requests, r), x) <=> Contains(requests, x) \/ x = r
                       /\ requests # <<>> => Head(Append(requests, r)) = Head(requests)
  BY QueueAppend
<1>4. Served => /\ requests' \in Seq(Kinds) /\ Len(requests') <= MaxRequests
                /\ \A x : Contains(requests', x) => Contains(requests, x)
                /\ \A x : Contains(requests, x) => Contains(requests', x) \/ x = Head(requests)
  BY <1>1, <1>2 DEF Served
<1>5. \A r \in Kinds : Asked(r) /\ Len(requests) < MaxRequests =>
                /\ requests' \in Seq(Kinds) /\ Len(requests') <= MaxRequests /\ requests' # <<>>
                /\ \A x : Contains(requests', x) <=> Contains(requests, x) \/ x = r
                /\ requests # <<>> => Head(requests') = Head(requests)
  BY <1>1, <1>3 DEF Asked
<1>6. ASSUME Replaced
      PROVE  /\ requests' \in Seq(Kinds) /\ Len(requests') <= MaxRequests /\ requests' # <<>>
             /\ \A x : Contains(requests', x) => Contains(requests, x) \/ x = "load"
             /\ \A x : Contains(requests, x) => Contains(requests', x) \/ x = Head(requests)
             /\ Contains(requests', "load")
  <2> DEFINE t == Tail(requests)
  <2>1. /\ t \in Seq(Kinds) /\ Len(t) = Len(requests) - 1 /\ requests' = Append(t, "load")
        /\ \A x : Contains(requests, x) <=> Contains(t, x) \/ x = Head(requests)
    BY <1>2, <1>6 DEF Replaced
  <2> HIDE DEF t
  <2>2. /\ Append(t, "load") \in Seq(Kinds) /\ Len(Append(t, "load")) = Len(t) + 1
        /\ Append(t, "load") # <<>>
        /\ \A x : Contains(Append(t, "load"), x) <=> Contains(t, x) \/ x = "load"
    BY <1>1, <2>1, QueueAppend
  <2> QED
    BY <1>1, <2>1, <2>2
<1> QED
  BY <1>4, <1>5, <1>6

(* The worker and the GUI thread keep the types and the ids in order.     *)
LEMMA GcBaseStep ==
    ASSUME GcTypeOK, GcBase, ConfigIsOfId, [GcNext]_gcVars
    PROVE  GcTypeOK' /\ GcBase' /\ ConfigIsOfId'
<1> USE GameConfigAssumption
<1>0. requests \in Seq(Kinds) /\ MaxRequests \in Nat /\ Len(requests) <= MaxRequests
  BY DEF GcTypeOK, Kinds
<1> DEFINE IsQueue == requests' \in Seq(Kinds) /\ Len(requests') <= MaxRequests
<1>1. CASE ServeRequestConfig
  <2>1. (Served \/ Replaced)
    BY <1>1 DEF ServeRequestConfig, RequestConfig, gcList, gcScreen, GcBase,
       Untouched, Served, Asked, Replaced
  <2>2. IsQueue /\ (requests # <<>> => (requests' # <<>> /\ Head(requests') = Head(requests)) \/ Served \/ Replaced)
    BY <1>0, <2>1, GcQueue DEF Untouched, Kinds
  <2>3. GcTypeOK'
    BY <2>2, <1>1 DEF ServeRequestConfig, RequestConfig, gcList, gcScreen,
       GcTypeOK, Kinds
  <2>4. GcBase'
    BY <2>1, <2>2, <1>1 DEF ServeRequestConfig, RequestConfig, gcList, gcScreen,
       GcTypeOK, GcBase, Untouched
  <2>5. ConfigIsOfId'
    BY <1>1 DEF ServeRequestConfig, RequestConfig, gcList, gcScreen, GcTypeOK,
       GcBase, ConfigIsOfId, Config
  <2> QED BY <2>3, <2>4, <2>5
<1>2. CASE LoadStart
  <2>1. Untouched
    BY <1>2 DEF LoadStart, gcList, gcScreen, GcBase, Untouched, Served, Asked,
       Replaced
  <2>2. IsQueue /\ (requests # <<>> => (requests' # <<>> /\ Head(requests') = Head(requests)) \/ Served \/ Replaced)
    BY <1>0, <2>1, GcQueue DEF Untouched, Kinds
  <2>3. GcTypeOK'
    BY <2>2, <1>2 DEF LoadStart, gcList, gcScreen, GcTypeOK, Kinds
  <2>4. GcBase'
    BY <2>1, <2>2, <1>2 DEF LoadStart, gcList, gcScreen, GcTypeOK, GcBase, Untouched
  <2>5. ConfigIsOfId'
    BY <1>2 DEF LoadStart, gcList, gcScreen, GcTypeOK, GcBase, ConfigIsOfId, Config
  <2> QED BY <2>3, <2>4, <2>5
<1>3. CASE LoadDone
  <2>1. Served
    BY <1>3 DEF LoadDone, Released, gcList, gcScreen, GcBase, Untouched, Served,
       Asked, Replaced
  <2>2. IsQueue /\ (requests # <<>> => (requests' # <<>> /\ Head(requests') = Head(requests)) \/ Served \/ Replaced)
    BY <1>0, <2>1, GcQueue DEF Untouched, Kinds
  <2>t. itemConfig' \in Config \cup {NoGame}
    BY <1>3 DEF LoadDone, GcTypeOK, Config
  <2>3. GcTypeOK'
    BY <2>t, <2>2, <1>3 DEF LoadDone, Released, gcList, gcScreen, GcTypeOK, Kinds
  <2>4. GcBase'
    BY <2>1, <2>2, <1>3 DEF LoadDone, Released, gcList, gcScreen, GcTypeOK,
       GcBase, Untouched
  <2>5. ConfigIsOfId'
    BY <1>3 DEF LoadDone, Released, gcList, gcScreen, GcTypeOK, GcBase,
       ConfigIsOfId, Config
  <2> QED BY <2>3, <2>4, <2>5
<1>4. CASE LoadNothing
  <2>1. Served
    BY <1>4 DEF LoadNothing, gcList, gcScreen, GcBase, Untouched, Served, Asked,
       Replaced
  <2>2. IsQueue /\ (requests # <<>> => (requests' # <<>> /\ Head(requests') = Head(requests)) \/ Served \/ Replaced)
    BY <1>0, <2>1, GcQueue DEF Untouched, Kinds
  <2>3. GcTypeOK'
    BY <2>2, <1>4 DEF LoadNothing, gcList, gcScreen, GcTypeOK, Kinds
  <2>4. GcBase'
    BY <2>1, <2>2, <1>4 DEF LoadNothing, gcList, gcScreen, GcTypeOK, GcBase,
       Untouched
  <2>5. ConfigIsOfId'
    BY <1>4 DEF LoadNothing, gcList, gcScreen, GcTypeOK, GcBase, ConfigIsOfId,
       Config
  <2> QED BY <2>3, <2>4, <2>5
<1>5. CASE SaveStart
  <2>1. Untouched
    BY <1>5 DEF SaveStart, gcList, gcScreen, GcBase, Untouched, Served, Asked,
       Replaced
  <2>2. IsQueue /\ (requests # <<>> => (requests' # <<>> /\ Head(requests') = Head(requests)) \/ Served \/ Replaced)
    BY <1>0, <2>1, GcQueue DEF Untouched, Kinds
  <2>3. GcTypeOK'
    BY <2>2, <1>5 DEF SaveStart, gcList, gcScreen, GcTypeOK, Kinds
  <2>4. GcBase'
    BY <2>1, <2>2, <1>5 DEF SaveStart, gcList, gcScreen, GcTypeOK, GcBase, Untouched
  <2>5. ConfigIsOfId'
    BY <1>5 DEF SaveStart, gcList, gcScreen, GcTypeOK, GcBase, ConfigIsOfId, Config
  <2> QED BY <2>3, <2>4, <2>5
<1>6. CASE SaveDone
  <2>1. Served
    BY <1>6 DEF SaveDone, Released, gcList, gcScreen, GcBase, Untouched, Served,
       Asked, Replaced
  <2>2. IsQueue /\ (requests # <<>> => (requests' # <<>> /\ Head(requests') = Head(requests)) \/ Served \/ Replaced)
    BY <1>0, <2>1, GcQueue DEF Untouched, Kinds
  <2>t. stored' \in [GcGames -> GcValues]
    <3>1. CASE itemConfig # NoGame
      <4>1. itemConfig.value \in GcValues
        BY <3>1 DEF GcTypeOK, Config
      <4> QED BY <4>1, <1>6 DEF SaveDone, GcTypeOK
    <3> QED BY <3>1, <1>6 DEF SaveDone, GcTypeOK
  <2>3. GcTypeOK'
    BY <2>t, <2>2, <1>6 DEF SaveDone, Released, gcList, gcScreen, GcTypeOK, Kinds
  <2>4. GcBase'
    BY <2>1, <2>2, <1>6 DEF SaveDone, Released, gcList, gcScreen, GcTypeOK,
       GcBase, Untouched
  <2>5. ConfigIsOfId'
    BY <1>6 DEF SaveDone, Released, gcList, gcScreen, GcTypeOK, GcBase,
       ConfigIsOfId, Config
  <2> QED BY <2>3, <2>4, <2>5
<1>7. CASE ScanStart
  <2>1. Untouched
    BY <1>7 DEF ScanStart, gcList, gcScreen, GcBase, Untouched, Served, Asked,
       Replaced
  <2>2. IsQueue /\ (requests # <<>> => (requests' # <<>> /\ Head(requests') = Head(requests)) \/ Served \/ Replaced)
    BY <1>0, <2>1, GcQueue DEF Untouched, Kinds
  <2>3. GcTypeOK'
    BY <2>2, <1>7 DEF ScanStart, gcList, gcScreen, GcTypeOK, Kinds
  <2>4. GcBase'
    BY <2>1, <2>2, <1>7 DEF ScanStart, gcList, gcScreen, GcTypeOK, GcBase, Untouched
  <2>5. ConfigIsOfId'
    BY <1>7 DEF ScanStart, gcList, gcScreen, GcTypeOK, GcBase, ConfigIsOfId, Config
  <2> QED BY <2>3, <2>4, <2>5
<1>8. CASE ScanClear
  <2>1. Untouched
    BY <1>8 DEF ScanClear, GcBase, Untouched, Served, Asked, Replaced
  <2>2. IsQueue /\ (requests # <<>> => (requests' # <<>> /\ Head(requests') = Head(requests)) \/ Served \/ Replaced)
    BY <1>0, <2>1, GcQueue DEF Untouched, Kinds
  <2>3. GcTypeOK'
    BY <2>2, <1>8 DEF ScanClear, GcTypeOK, Kinds
  <2>4. GcBase'
    BY <2>1, <2>2, <1>8 DEF ScanClear, GcTypeOK, GcBase, Untouched
  <2>5. ConfigIsOfId'
    BY <1>8 DEF ScanClear, GcTypeOK, GcBase, ConfigIsOfId, Config
  <2> QED BY <2>3, <2>4, <2>5
<1>9. CASE ScanDone
  <2>1. Served
    BY <1>9 DEF ScanDone, gcScreen, GcBase, Untouched, Served, Asked, Replaced
  <2>2. IsQueue /\ (requests # <<>> => (requests' # <<>> /\ Head(requests') = Head(requests)) \/ Served \/ Replaced)
    BY <1>0, <2>1, GcQueue DEF Untouched, Kinds
  <2>3. GcTypeOK'
    BY <2>2, <1>9 DEF ScanDone, gcScreen, GcTypeOK, Kinds
  <2>4. GcBase'
    BY <2>1, <2>2, <1>9 DEF ScanDone, gcScreen, GcTypeOK, GcBase, Untouched
  <2>5. ConfigIsOfId'
    BY <1>9 DEF ScanDone, gcScreen, GcTypeOK, GcBase, ConfigIsOfId, Config
  <2> QED BY <2>3, <2>4, <2>5
<1>10. CASE FrameRequests
  <2>1. (Untouched \/ (Asked("load") /\ Len(requests) < MaxRequests))
    BY <1>10 DEF FrameRequests, RequestConfig, gcList, gcScreen, GcBase,
       Untouched, Served, Asked, Replaced
  <2>2. IsQueue /\ (requests # <<>> => (requests' # <<>> /\ Head(requests') = Head(requests)) \/ Served \/ Replaced)
    BY <1>0, <2>1, GcQueue DEF Untouched, Kinds
  <2>3. GcTypeOK'
    BY <2>2, <1>10 DEF FrameRequests, RequestConfig, gcList, gcScreen, GcTypeOK,
       Kinds
  <2>4. GcBase'
    BY <2>1, <2>2, <1>10 DEF FrameRequests, RequestConfig, gcList, gcScreen,
       GcTypeOK, GcBase, Untouched
  <2>5. ConfigIsOfId'
    BY <1>10 DEF FrameRequests, RequestConfig, gcList, gcScreen, GcTypeOK,
       GcBase, ConfigIsOfId, Config
  <2> QED BY <2>3, <2>4, <2>5
<1>11. CASE FrameGetsSema
  <2>1. (Untouched \/ (Asked("load") /\ Len(requests) < MaxRequests))
    BY <1>11 DEF FrameGetsSema, RequestConfig, gcList, gcScreen, GcBase,
       Untouched, Served, Asked, Replaced
  <2>2. IsQueue /\ (requests # <<>> => (requests' # <<>> /\ Head(requests') = Head(requests)) \/ Served \/ Replaced)
    BY <1>0, <2>1, GcQueue DEF Untouched, Kinds
  <2>3. GcTypeOK'
    BY <2>2, <1>11 DEF FrameGetsSema, RequestConfig, gcList, gcScreen, GcTypeOK,
       Kinds
  <2>4. GcBase'
    BY <2>1, <2>2, <1>11 DEF FrameGetsSema, RequestConfig, gcList, gcScreen,
       GcTypeOK, GcBase, Untouched
  <2>5. ConfigIsOfId'
    BY <1>11 DEF FrameGetsSema, RequestConfig, gcList, gcScreen, GcTypeOK,
       GcBase, ConfigIsOfId, Config
  <2> QED BY <2>3, <2>4, <2>5
<1>12. CASE DrainOps
  <2>1. Untouched
    BY <1>12 DEF DrainOps, gcScreen, GcBase, Untouched, Served, Asked, Replaced
  <2>2. IsQueue /\ (requests # <<>> => (requests' # <<>> /\ Head(requests') = Head(requests)) \/ Served \/ Replaced)
    BY <1>0, <2>1, GcQueue DEF Untouched, Kinds
  <2>3. GcTypeOK'
    BY <2>2, <1>12 DEF DrainOps, gcScreen, GcTypeOK, Kinds
  <2>4. GcBase'
    BY <2>1, <2>2, <1>12 DEF DrainOps, gcScreen, GcTypeOK, GcBase, Untouched
  <2>5. ConfigIsOfId'
    BY <1>12 DEF DrainOps, gcScreen, GcTypeOK, GcBase, ConfigIsOfId, Config
  <2> QED BY <2>3, <2>4, <2>5
<1>13. CASE MoveGame
  <2>1. Untouched
    BY <1>13 DEF MoveGame, gcScreen, GcBase, Untouched, Served, Asked, Replaced
  <2>2. IsQueue /\ (requests # <<>> => (requests' # <<>> /\ Head(requests') = Head(requests)) \/ Served \/ Replaced)
    BY <1>0, <2>1, GcQueue DEF Untouched, Kinds
  <2>3. GcTypeOK'
    BY <2>2, <1>13 DEF MoveGame, gcScreen, GcTypeOK, Kinds
  <2>4. GcBase'
    BY <2>1, <2>2, <1>13 DEF MoveGame, gcScreen, GcTypeOK, GcBase, Untouched
  <2>5. ConfigIsOfId'
    BY <1>13 DEF MoveGame, gcScreen, GcTypeOK, GcBase, ConfigIsOfId, Config
  <2> QED BY <2>3, <2>4, <2>5
<1>14. CASE OpenOptions
  <2>1. Asked("request") /\ Len(requests) < MaxRequests
    BY <1>14 DEF OpenOptions, gcList, GcBase, Untouched, Served, Asked, Replaced
  <2>2. IsQueue /\ (requests # <<>> => (requests' # <<>> /\ Head(requests') = Head(requests)) \/ Served \/ Replaced)
    BY <1>0, <2>1, GcQueue DEF Untouched, Kinds
  <2>t. {relist', touched', disturbed'} \subseteq BOOLEAN
    <3>1. (relist \/ Contains(requests, "scan") \/ (disturbed /\ requests # <<>>)) \in BOOLEAN
      OBVIOUS
    <3> QED BY <3>1, <1>14 DEF OpenOptions, gcList, GcTypeOK
  <2>3. GcTypeOK'
    BY <2>t, <2>2, <1>14 DEF OpenOptions, gcList, GcTypeOK, Kinds
  <2>4. GcBase'
    BY <2>1, <2>2, <1>14 DEF OpenOptions, gcList, GcTypeOK, GcBase, Untouched
  <2>5. ConfigIsOfId'
    BY <1>14 DEF OpenOptions, gcList, GcTypeOK, GcBase, ConfigIsOfId, Config
  <2> QED BY <2>3, <2>4, <2>5
<1>15. CASE OptionsLoaded
  <2>1. Untouched
    BY <1>15 DEF OptionsLoaded, gcList, GcBase, Untouched, Served, Asked, Replaced
  <2>2. IsQueue /\ (requests # <<>> => (requests' # <<>> /\ Head(requests') = Head(requests)) \/ Served \/ Replaced)
    BY <1>0, <2>1, GcQueue DEF Untouched, Kinds
  <2>t. options' \in GcValues
    <3>1. itemConfig # NoGame => itemConfig.value \in GcValues
      BY DEF GcTypeOK, Config
    <3> QED BY <3>1, <1>15 DEF OptionsLoaded, GcTypeOK
  <2>3. GcTypeOK'
    BY <2>t, <2>2, <1>15 DEF OptionsLoaded, gcList, GcTypeOK, Kinds
  <2>4. GcBase'
    BY <2>1, <2>2, <1>15 DEF OptionsLoaded, gcList, GcTypeOK, GcBase, Untouched
  <2>5. ConfigIsOfId'
    BY <1>15 DEF OptionsLoaded, gcList, GcTypeOK, GcBase, ConfigIsOfId, Config
  <2> QED BY <2>3, <2>4, <2>5
<1>16. CASE ChangeOption
  <2>1. Untouched
    BY <1>16 DEF ChangeOption, OptionsInput, gcList, GcBase, Untouched, Served,
       Asked, Replaced
  <2>2. IsQueue /\ (requests # <<>> => (requests' # <<>> /\ Head(requests') = Head(requests)) \/ Served \/ Replaced)
    BY <1>0, <2>1, GcQueue DEF Untouched, Kinds
  <2>3. GcTypeOK'
    BY <2>2, <1>16 DEF ChangeOption, OptionsInput, gcList, GcTypeOK, Kinds
  <2>4. GcBase'
    BY <2>1, <2>2, <1>16 DEF ChangeOption, OptionsInput, gcList, GcTypeOK,
       GcBase, Untouched
  <2>5. ConfigIsOfId'
    BY <1>16 DEF ChangeOption, OptionsInput, gcList, GcTypeOK, GcBase,
       ConfigIsOfId, Config
  <2> QED BY <2>3, <2>4, <2>5
<1>17. CASE SaveOptions
  <2>1. Asked("save") /\ Len(requests) < MaxRequests
    BY <1>17 DEF SaveOptions, OptionsInput, gcList, GcBase, Untouched, Served,
       Asked, Replaced
  <2>2. IsQueue /\ (requests # <<>> => (requests' # <<>> /\ Head(requests') = Head(requests)) \/ Served \/ Replaced)
    BY <1>0, <2>1, GcQueue DEF Untouched, Kinds
  <2>t. itemConfig' \in Config \cup {NoGame} /\ chosen' \in [GcGames -> SUBSET GcValues]
    <3>1. itemConfig # NoGame => [itemConfig EXCEPT !.value = options] \in Config
      BY DEF GcTypeOK, Config
    <3>2. chosen' \in [GcGames -> SUBSET GcValues]
      BY <1>17 DEF SaveOptions, GcTypeOK
    <3> QED BY <3>1, <3>2, <1>17 DEF SaveOptions
  <2>3. GcTypeOK'
    BY <2>t, <2>2, <1>17 DEF SaveOptions, OptionsInput, gcList, GcTypeOK, Kinds
  <2>4. GcBase'
    BY <2>1, <2>2, <1>17 DEF SaveOptions, OptionsInput, gcList, GcTypeOK,
       GcBase, Untouched
  <2>5. ConfigIsOfId'
    BY <1>17 DEF SaveOptions, OptionsInput, gcList, GcTypeOK, GcBase,
       ConfigIsOfId, Config
  <2> QED BY <2>3, <2>4, <2>5
<1>18. CASE OptionsSaved
  <2>1. Untouched
    BY <1>18 DEF OptionsSaved, gcList, GcBase, Untouched, Served, Asked, Replaced
  <2>2. IsQueue /\ (requests # <<>> => (requests' # <<>> /\ Head(requests') = Head(requests)) \/ Served \/ Replaced)
    BY <1>0, <2>1, GcQueue DEF Untouched, Kinds
  <2>3. GcTypeOK'
    BY <2>2, <1>18 DEF OptionsSaved, gcList, GcTypeOK, Kinds
  <2>4. GcBase'
    BY <2>1, <2>2, <1>18 DEF OptionsSaved, gcList, GcTypeOK, GcBase, Untouched
  <2>5. ConfigIsOfId'
    BY <1>18 DEF OptionsSaved, gcList, GcTypeOK, GcBase, ConfigIsOfId, Config
  <2> QED BY <2>3, <2>4, <2>5
<1>19. CASE CloseOptions
  <2>1. Untouched
    BY <1>19 DEF CloseOptions, OptionsInput, gcList, GcBase, Untouched, Served,
       Asked, Replaced
  <2>2. IsQueue /\ (requests # <<>> => (requests' # <<>> /\ Head(requests') = Head(requests)) \/ Served \/ Replaced)
    BY <1>0, <2>1, GcQueue DEF Untouched, Kinds
  <2>3. GcTypeOK'
    BY <2>2, <1>19 DEF CloseOptions, OptionsInput, gcList, GcTypeOK, Kinds
  <2>4. GcBase'
    BY <2>1, <2>2, <1>19 DEF CloseOptions, OptionsInput, gcList, GcTypeOK,
       GcBase, Untouched
  <2>5. ConfigIsOfId'
    BY <1>19 DEF CloseOptions, OptionsInput, gcList, GcTypeOK, GcBase,
       ConfigIsOfId, Config
  <2> QED BY <2>3, <2>4, <2>5
<1>20. CASE AskScan
  <2>1. Asked("scan") /\ Len(requests) < MaxRequests
    BY <1>20 DEF AskScan, gcScreen, GcBase, Untouched, Served, Asked, Replaced
  <2>2. IsQueue /\ (requests # <<>> => (requests' # <<>> /\ Head(requests') = Head(requests)) \/ Served \/ Replaced)
    BY <1>0, <2>1, GcQueue DEF Untouched, Kinds
  <2>3. GcTypeOK'
    BY <2>2, <1>20 DEF AskScan, gcScreen, GcTypeOK, Kinds
  <2>4. GcBase'
    BY <2>1, <2>2, <1>20 DEF AskScan, gcScreen, GcTypeOK, GcBase, Untouched
  <2>5. ConfigIsOfId'
    BY <1>20 DEF AskScan, gcScreen, GcTypeOK, GcBase, ConfigIsOfId, Config
  <2> QED BY <2>3, <2>4, <2>5
<1>21. CASE UNCHANGED gcVars
  <2>1. Untouched
    BY <1>21 DEF gcVars, gcList, gcScreen, GcBase, Untouched, Served, Asked,
       Replaced
  <2>2. IsQueue /\ (requests # <<>> => (requests' # <<>> /\ Head(requests') = Head(requests)) \/ Served \/ Replaced)
    BY <1>0, <2>1, GcQueue DEF Untouched, Kinds
  <2>3. GcTypeOK'
    BY <2>2, <1>21 DEF gcVars, gcList, gcScreen, GcTypeOK, Kinds
  <2>4. GcBase'
    BY <2>1, <2>2, <1>21 DEF gcVars, gcList, gcScreen, GcTypeOK, GcBase, Untouched
  <2>5. ConfigIsOfId'
    BY <1>21 DEF gcVars, gcList, gcScreen, GcTypeOK, GcBase, ConfigIsOfId, Config
  <2> QED BY <2>3, <2>4, <2>5
<1> QED
  BY <1>1, <1>2, <1>3, <1>4, <1>5, <1>6, <1>7, <1>8, <1>9, <1>10, <1>11, <1>12,
     <1>13, <1>14, <1>15, <1>16, <1>17, <1>18, <1>19, <1>20, <1>21
  DEF GcNext, Worker, Gui

(* The saves that wait, after a step that saves nothing.                 *)
SameSave == (ioState' = "save") <=> (ioState = "save")
RestEffect ==
    \/ Untouched /\ SameSave
    \/ Untouched /\ requests # <<>> /\ ioState # "save" /\ ioState' = "save"
    \/ Served /\ ioState' # "save"
    \/ SameSave /\ \E r \in Kinds \ {"save"} : Asked(r)
    \/ Replaced /\ ioState # "save" /\ ioState' # "save"

(* A step that asks for no save leaves at most one save behind the request *)
(* that is being served.                                                   *)
LEMMA RestKeeps ==
    ASSUME requests \in Seq(Kinds), ioState = "save" => requests # <<>>, RestEffect
    PROVE  /\ ~Contains(Rest, "save") => ~Contains(Rest', "save")
           /\ OneSave(Rest) => OneSave(Rest')
<1>0. Rest \in Seq(Kinds) /\ "load" \in Kinds
  BY QueueTail DEF Rest, Kinds
<1>1. Rest' = Rest \/ (Rest # <<>> /\ Rest' = Tail(Rest))
      \/ (\E r \in Kinds \ {"save"} : Rest' = Append(Rest, r))
      \/ (Rest # <<>> /\ Rest' = Append(Tail(Rest), "load"))
  <2>1. CASE SameSave /\ \E r \in Kinds \ {"save"} : Asked(r)
    <3>1. PICK r \in Kinds \ {"save"} : Asked(r)
      BY <2>1
    <3>2. requests # <<>> => Tail(Append(requests, r)) = Append(Tail(requests), r)
      <4> SUFFICES ASSUME requests # <<>> PROVE Tail(Append(requests, r)) = Append(Tail(requests), r)
        OBVIOUS
      <4> QED BY SMTT(30)
    <3> QED BY <2>1, <3>1, <3>2 DEF Rest, SameSave, Asked
  <2>2. CASE ~(SameSave /\ \E r \in Kinds \ {"save"} : Asked(r))
    BY <2>2 DEF RestEffect, Rest, SameSave, Untouched, Served, Replaced
  <2> QED BY <2>1, <2>2
<1>2. CASE Rest' = Rest
  BY <1>2
<1>3. CASE Rest # <<>> /\ Rest' = Tail(Rest)
  BY <1>0, <1>3, SaveOrder, QueueTail
<1>4. CASE \E r \in Kinds \ {"save"} : Rest' = Append(Rest, r)
  BY <1>0, <1>4, SaveOrder, QueueAppend
<1>5. CASE Rest # <<>> /\ Rest' = Append(Tail(Rest), "load")
  <2> DEFINE t == Tail(Rest)
  <2>1. /\ t \in Seq(Kinds) /\ (~Contains(Rest, "save") => ~Contains(t, "save"))
        /\ (OneSave(Rest) => OneSave(t)) /\ Rest' = Append(t, "load")
    BY <1>0, <1>5, SaveOrder, QueueTail
  <2> HIDE DEF t
  <2> QED BY <1>0, <2>1, SaveOrder, QueueAppend
<1> QED
  BY <1>1, <1>2, <1>3, <1>4, <1>5

(* Every step but one that asks for a load of a configuration ("request")  *)
(* leaves no such request behind a save in the queue.                      *)
LEMMA SavesStayLast ==
    ASSUME requests \in Seq(Kinds), SavesLast(requests),
           Untouched \/ Served \/ Replaced \/ \E r \in Kinds \ {"request"} : Asked(r)
    PROVE  SavesLast(requests')
<1>1. CASE Untouched \/ Served \/ \E r \in Kinds \ {"request"} : Asked(r)
  BY <1>1, SaveOrder DEF Untouched, Served, Asked
<1>2. CASE Replaced
  <2> DEFINE t == Tail(requests)
  <2>1. t \in Seq(Kinds) /\ SavesLast(t) /\ requests' = Append(t, "load") /\ "load" \in Kinds
    BY <1>2, SaveOrder, QueueTail DEF Replaced, Kinds
  <2> HIDE DEF t
  <2> QED BY <2>1, SaveOrder
<1> QED
  BY <1>1, <1>2

(* The settings on the screen are those of its game, whatever request ends *)
(* meanwhile.                                                              *)
LEMMA UndisturbedStep ==
    ASSUME GcInv, [GcNext]_gcVars
    PROVE  Undisturbed'
<1> USE GameConfigAssumption
<1> SUFFICES ASSUME ~disturbed'
             PROVE  /\ ShownIsCurrent' /\ LoadIsComing' /\ SettingsAreThere' /\ SaveIsAwaited'
                    /\ ValueIsChosen' /\ SaveHasConfig'
  BY DEF Undisturbed
<1>a. GcTypeOK /\ GcBase /\ ConfigIsOfId /\ GcTypeOK' /\ GcBase' /\ ConfigIsOfId'
  BY GcBaseStep DEF GcInv
<1>b. ~disturbed => /\ ShownIsCurrent /\ LoadIsComing /\ SettingsAreThere /\ SaveIsAwaited
                    /\ ValueIsChosen /\ SaveHasConfig
  BY DEF GcInv, Undisturbed
<1>c. requests \in Seq(Kinds) /\ MaxRequests \in Nat /\ Len(requests) <= MaxRequests
  BY <1>a DEF GcTypeOK, Kinds
<1>d. requests # <<>> => Contains(requests, Head(requests))
  BY <1>c, QueueTail
<1>e. requests = <<>> => \A x : ~Contains(requests, x)
  BY DEF Contains
<1>1. CASE ServeRequestConfig
  <2>1. (Served \/ Replaced)
    BY <1>a, <1>1 DEF ServeRequestConfig, RequestConfig, Resolves, gcList,
       gcScreen, GcBase, Untouched, Served, Asked, Replaced
  <2>2. /\ \A x : Contains(requests', x) => Contains(requests, x) \/ x = "load"
        /\ \A x : Contains(requests, x) => Contains(requests', x) \/ x = Head(requests)
        /\ Served \/ Contains(requests', "load")
    BY <1>c, <2>1, GcQueue DEF Untouched, Kinds
  <2>3. /\ ~Contains(Rest, "save") => ~Contains(Rest', "save")
        /\ OneSave(Rest) => OneSave(Rest')
    <3>1. RestEffect
      BY <1>a, <2>1, <1>1 DEF ServeRequestConfig, RequestConfig, Resolves,
         gcList, gcScreen, GcBase, RestEffect, SameSave, Kinds
    <3> QED BY <1>a, <1>c, <3>1, RestKeeps DEF GcBase
  <2>4. SavesLast(requests) => SavesLast(requests')
    BY <1>c, <2>1, SavesStayLast DEF Kinds
  <2>5. /\ ShownIsCurrent /\ LoadIsComing /\ SettingsAreThere /\ SaveIsAwaited
        /\ ValueIsChosen /\ SaveHasConfig
    BY <1>a, <1>b, <1>1 DEF ServeRequestConfig, RequestConfig, Resolves, gcList,
       gcScreen, GcTypeOK
  <2>6. ShownIsCurrent'
    BY <1>a, <1>d, <1>e, <2>2, <2>5, <1>1 DEF ServeRequestConfig, RequestConfig,
       Resolves, gcList, gcScreen, GcTypeOK, GcBase, ShownIsCurrent
  <2>7. LoadIsComing'
    BY <1>a, <1>d, <1>e, <2>1, <2>2, <2>5, <1>1 DEF ServeRequestConfig,
       RequestConfig, Resolves, gcList, gcScreen, GcTypeOK, GcBase,
       ShownIsCurrent, LoadIsComing, SaveIsAwaited, SaveHasConfig, Rest, Served,
       Untouched
  <2>8. SettingsAreThere'
    BY <1>a, <1>d, <1>e, <2>1, <2>2, <2>4, <2>5, <1>1 DEF ServeRequestConfig,
       RequestConfig, Resolves, gcList, gcScreen, GcTypeOK, GcBase,
       ConfigIsOfId, ShownIsCurrent, LoadIsComing, SettingsAreThere
  <2>9. SaveIsAwaited'
    BY <1>a, <1>d, <1>e, <2>2, <2>3, <2>5, <1>1 DEF ServeRequestConfig,
       RequestConfig, Resolves, gcList, gcScreen, GcTypeOK, GcBase,
       ShownIsCurrent, SettingsAreThere, SaveIsAwaited
  <2>10. ValueIsChosen'
    BY <1>a, <1>d, <1>e, <2>2, <2>5, <1>1 DEF ServeRequestConfig, RequestConfig,
       Resolves, gcList, gcScreen, GcTypeOK, GcBase, Config, ShownIsCurrent,
       SettingsAreThere, SaveIsAwaited, ValueIsChosen, Rest
  <2>11. SaveHasConfig'
    BY <1>a, <1>d, <1>e, <2>5, <1>1 DEF ServeRequestConfig, RequestConfig,
       Resolves, gcList, gcScreen, GcTypeOK, GcBase, SettingsAreThere,
       SaveIsAwaited, SaveHasConfig, Rest
  <2> QED BY <2>6, <2>7, <2>8, <2>9, <2>10, <2>11
<1>2. CASE LoadStart
  <2>1. Untouched
    BY <1>a, <1>2 DEF LoadStart, gcList, gcScreen, GcBase, Untouched, Served,
       Asked, Replaced
  <2>2. \A x : Contains(requests', x) <=> Contains(requests, x)
    BY <1>c, <2>1, GcQueue DEF Untouched, Kinds
  <2>3. /\ ~Contains(Rest, "save") => ~Contains(Rest', "save")
        /\ OneSave(Rest) => OneSave(Rest')
    <3>1. RestEffect
      BY <1>a, <2>1, <1>2 DEF LoadStart, gcList, gcScreen, GcBase, RestEffect,
         SameSave, Kinds
    <3> QED BY <1>a, <1>c, <3>1, RestKeeps DEF GcBase
  <2>4. SavesLast(requests) => SavesLast(requests')
    BY <1>c, <2>1, SavesStayLast DEF Kinds
  <2>5. /\ ShownIsCurrent /\ LoadIsComing /\ SettingsAreThere /\ SaveIsAwaited
        /\ ValueIsChosen /\ SaveHasConfig
    BY <1>a, <1>b, <1>2 DEF LoadStart, gcList, gcScreen, GcTypeOK
  <2>6. ShownIsCurrent'
    BY <1>a, <1>d, <1>e, <2>2, <2>5, <1>2 DEF LoadStart, gcList, gcScreen,
       GcTypeOK, GcBase, ShownIsCurrent
  <2>7. LoadIsComing'
    BY <1>a, <1>d, <1>e, <2>1, <2>2, <2>5, <1>2 DEF LoadStart, gcList, gcScreen,
       GcTypeOK, GcBase, ShownIsCurrent, LoadIsComing, SaveIsAwaited,
       SaveHasConfig, Rest, Served, Untouched
  <2>8. SettingsAreThere'
    BY <1>a, <1>d, <1>e, <2>1, <2>2, <2>4, <2>5, <1>2 DEF LoadStart, gcList,
       gcScreen, GcTypeOK, GcBase, ConfigIsOfId, ShownIsCurrent, LoadIsComing,
       SettingsAreThere
  <2>9. SaveIsAwaited'
    BY <1>a, <1>d, <1>e, <2>2, <2>3, <2>5, <1>2 DEF LoadStart, gcList, gcScreen,
       GcTypeOK, GcBase, ShownIsCurrent, SettingsAreThere, SaveIsAwaited
  <2>10. ValueIsChosen'
    BY <1>a, <1>d, <1>e, <2>2, <2>5, <1>2 DEF LoadStart, gcList, gcScreen,
       GcTypeOK, GcBase, Config, ShownIsCurrent, SettingsAreThere,
       SaveIsAwaited, ValueIsChosen, Rest
  <2>11. SaveHasConfig'
    BY <1>a, <1>d, <1>e, <2>5, <1>2 DEF LoadStart, gcList, gcScreen, GcTypeOK,
       GcBase, SettingsAreThere, SaveIsAwaited, SaveHasConfig, Rest
  <2> QED BY <2>6, <2>7, <2>8, <2>9, <2>10, <2>11
<1>3. CASE LoadDone
  <2>1. Served
    BY <1>a, <1>3 DEF LoadDone, Released, gcList, gcScreen, GcBase, Untouched,
       Served, Asked, Replaced
  <2>2. /\ \A x : Contains(requests', x) => Contains(requests, x)
        /\ \A x : Contains(requests, x) => Contains(requests', x) \/ x = Head(requests)
    BY <1>c, <2>1, GcQueue DEF Untouched, Kinds
  <2>3. /\ ~Contains(Rest, "save") => ~Contains(Rest', "save")
        /\ OneSave(Rest) => OneSave(Rest')
    <3>1. RestEffect
      BY <1>a, <2>1, <1>3 DEF LoadDone, Released, gcList, gcScreen, GcBase,
         RestEffect, SameSave, Kinds
    <3> QED BY <1>a, <1>c, <3>1, RestKeeps DEF GcBase
  <2>4. SavesLast(requests) => SavesLast(requests')
    BY <1>c, <2>1, SavesStayLast DEF Kinds
  <2>5. /\ ShownIsCurrent /\ LoadIsComing /\ SettingsAreThere /\ SaveIsAwaited
        /\ ValueIsChosen /\ SaveHasConfig
    BY <1>a, <1>b, <1>3 DEF LoadDone, Released, gcList, gcScreen, GcTypeOK
  <2>6. ShownIsCurrent'
    BY <1>a, <1>d, <1>e, <2>2, <2>5, <1>3 DEF LoadDone, Released, gcList,
       gcScreen, GcTypeOK, GcBase, ShownIsCurrent
  <2>7. LoadIsComing'
    <3>1. itemConfig' \in Config /\ itemConfig' # NoGame
      BY <1>a, <1>3 DEF LoadDone, GcTypeOK, Config
    <3> QED
      BY <1>a, <1>d, <1>e, <2>1, <2>2, <2>5, <3>1, <1>3
      DEF LoadDone, gcList, gcScreen, GcBase, LoadIsComing
  <2>8. SettingsAreThere'
    <3>1. itemConfig' \in Config /\ itemConfig' # NoGame /\ itemConfig'.of = loading
      BY <1>a, <1>3 DEF LoadDone, GcTypeOK, Config
    <3> QED
      BY <1>a, <2>2, <2>4, <2>5, <3>1, <1>3
      DEF LoadDone, gcList, gcScreen, GcBase, SettingsAreThere
  <2>9. SaveIsAwaited'
    BY <1>a, <1>d, <1>e, <2>2, <2>3, <2>5, <1>3 DEF LoadDone, Released, gcList,
       gcScreen, GcTypeOK, GcBase, ShownIsCurrent, SettingsAreThere,
       SaveIsAwaited
  <2>10. ValueIsChosen'
    BY <1>a, <1>d, <1>e, <2>2, <2>5, <1>3 DEF LoadDone, Released, gcList,
       gcScreen, GcTypeOK, GcBase, Config, ShownIsCurrent, SettingsAreThere,
       SaveIsAwaited, ValueIsChosen, Rest
  <2>11. SaveHasConfig'
    BY <1>a, <1>d, <1>e, <2>5, <1>3 DEF LoadDone, Released, gcList, gcScreen,
       GcTypeOK, GcBase, SettingsAreThere, SaveIsAwaited, SaveHasConfig, Rest
  <2> QED BY <2>6, <2>7, <2>8, <2>9, <2>10, <2>11
<1>4. CASE LoadNothing
  <2>1. Served
    BY <1>a, <1>4 DEF LoadNothing, gcList, gcScreen, GcBase, Untouched, Served,
       Asked, Replaced
  <2>2. /\ \A x : Contains(requests', x) => Contains(requests, x)
        /\ \A x : Contains(requests, x) => Contains(requests', x) \/ x = Head(requests)
    BY <1>c, <2>1, GcQueue DEF Untouched, Kinds
  <2>3. /\ ~Contains(Rest, "save") => ~Contains(Rest', "save")
        /\ OneSave(Rest) => OneSave(Rest')
    <3>1. RestEffect
      BY <1>a, <2>1, <1>4 DEF LoadNothing, gcList, gcScreen, GcBase, RestEffect,
         SameSave, Kinds
    <3> QED BY <1>a, <1>c, <3>1, RestKeeps DEF GcBase
  <2>4. SavesLast(requests) => SavesLast(requests')
    BY <1>c, <2>1, SavesStayLast DEF Kinds
  <2>5. /\ ShownIsCurrent /\ LoadIsComing /\ SettingsAreThere /\ SaveIsAwaited
        /\ ValueIsChosen /\ SaveHasConfig
    BY <1>a, <1>b, <1>4 DEF LoadNothing, gcList, gcScreen, GcTypeOK
  <2>6. ShownIsCurrent'
    BY <1>a, <1>d, <1>e, <2>2, <2>5, <1>4 DEF LoadNothing, gcList, gcScreen,
       GcTypeOK, GcBase, ShownIsCurrent
  <2>7. LoadIsComing'
    BY <1>a, <1>d, <1>e, <2>1, <2>2, <2>5, <1>4 DEF LoadNothing, gcList,
       gcScreen, GcTypeOK, GcBase, ShownIsCurrent, LoadIsComing, SaveIsAwaited,
       SaveHasConfig, Rest, Served, Untouched
  <2>8. SettingsAreThere'
    BY <1>a, <1>d, <1>e, <2>1, <2>2, <2>4, <2>5, <1>4 DEF LoadNothing, gcList,
       gcScreen, GcTypeOK, GcBase, ConfigIsOfId, ShownIsCurrent, LoadIsComing,
       SettingsAreThere
  <2>9. SaveIsAwaited'
    BY <1>a, <1>d, <1>e, <2>2, <2>3, <2>5, <1>4 DEF LoadNothing, gcList,
       gcScreen, GcTypeOK, GcBase, ShownIsCurrent, SettingsAreThere,
       SaveIsAwaited
  <2>10. ValueIsChosen'
    BY <1>a, <1>d, <1>e, <2>2, <2>5, <1>4 DEF LoadNothing, gcList, gcScreen,
       GcTypeOK, GcBase, Config, ShownIsCurrent, SettingsAreThere,
       SaveIsAwaited, ValueIsChosen, Rest
  <2>11. SaveHasConfig'
    BY <1>a, <1>d, <1>e, <2>5, <1>4 DEF LoadNothing, gcList, gcScreen, GcTypeOK,
       GcBase, SettingsAreThere, SaveIsAwaited, SaveHasConfig, Rest
  <2> QED BY <2>6, <2>7, <2>8, <2>9, <2>10, <2>11
<1>5. CASE SaveStart
  <2>1. Untouched
    BY <1>a, <1>5 DEF SaveStart, gcList, gcScreen, GcBase, Untouched, Served,
       Asked, Replaced
  <2>2. \A x : Contains(requests', x) <=> Contains(requests, x)
    BY <1>c, <2>1, GcQueue DEF Untouched, Kinds
  <2>3. /\ ~Contains(Rest, "save") => ~Contains(Rest', "save")
        /\ OneSave(Rest) => OneSave(Rest')
    <3>1. RestEffect
      BY <1>a, <2>1, <1>5 DEF SaveStart, gcList, gcScreen, GcBase, RestEffect,
         SameSave, Kinds
    <3> QED BY <1>a, <1>c, <3>1, RestKeeps DEF GcBase
  <2>4. SavesLast(requests) => SavesLast(requests')
    BY <1>c, <2>1, SavesStayLast DEF Kinds
  <2>5. /\ ShownIsCurrent /\ LoadIsComing /\ SettingsAreThere /\ SaveIsAwaited
        /\ ValueIsChosen /\ SaveHasConfig
    BY <1>a, <1>b, <1>5 DEF SaveStart, gcList, gcScreen, GcTypeOK
  <2>6. ShownIsCurrent'
    BY <1>a, <1>d, <1>e, <2>2, <2>5, <1>5 DEF SaveStart, gcList, gcScreen,
       GcTypeOK, GcBase, ShownIsCurrent
  <2>7. LoadIsComing'
    BY <1>a, <1>d, <1>e, <2>1, <2>2, <2>5, <1>5 DEF SaveStart, gcList, gcScreen,
       GcTypeOK, GcBase, ShownIsCurrent, LoadIsComing, SaveIsAwaited,
       SaveHasConfig, Rest, Served, Untouched
  <2>8. SettingsAreThere'
    BY <1>a, <1>d, <1>e, <2>1, <2>2, <2>4, <2>5, <1>5 DEF SaveStart, gcList,
       gcScreen, GcTypeOK, GcBase, ConfigIsOfId, ShownIsCurrent, LoadIsComing,
       SettingsAreThere
  <2>9. SaveIsAwaited'
    <3>1. Rest' = Tail(requests) /\ Rest = requests /\ requests # <<>> /\ Head(requests) = "save"
      BY <1>5 DEF SaveStart, Rest
    <3>2. OneSave(Rest) => ~Contains(Rest', "save")
      BY <1>c, <3>1, SaveOrder
    <3> QED
      BY <2>3, <2>5, <3>2, <1>5 DEF SaveStart, gcScreen, SaveIsAwaited
  <2>10. ValueIsChosen'
    BY <1>a, <1>d, <1>e, <2>2, <2>5, <1>5 DEF SaveStart, gcList, gcScreen,
       GcTypeOK, GcBase, Config, ShownIsCurrent, SettingsAreThere,
       SaveIsAwaited, ValueIsChosen, Rest
  <2>11. SaveHasConfig'
    BY <1>a, <1>d, <1>e, <2>5, <1>5 DEF SaveStart, gcList, gcScreen, GcTypeOK,
       GcBase, SettingsAreThere, SaveIsAwaited, SaveHasConfig, Rest
  <2> QED BY <2>6, <2>7, <2>8, <2>9, <2>10, <2>11
<1>6. CASE SaveDone
  <2>1. Served
    BY <1>a, <1>6 DEF SaveDone, Released, gcList, gcScreen, GcBase, Untouched,
       Served, Asked, Replaced
  <2>2. /\ \A x : Contains(requests', x) => Contains(requests, x)
        /\ \A x : Contains(requests, x) => Contains(requests', x) \/ x = Head(requests)
    BY <1>c, <2>1, GcQueue DEF Untouched, Kinds
  <2>3. /\ ~Contains(Rest, "save") => ~Contains(Rest', "save")
        /\ OneSave(Rest) => OneSave(Rest')
    <3>1. RestEffect
      BY <1>a, <2>1, <1>6 DEF SaveDone, Released, gcList, gcScreen, GcBase,
         RestEffect, SameSave, Kinds
    <3> QED BY <1>a, <1>c, <3>1, RestKeeps DEF GcBase
  <2>4. SavesLast(requests) => SavesLast(requests')
    BY <1>c, <2>1, SavesStayLast DEF Kinds
  <2>5. /\ ShownIsCurrent /\ LoadIsComing /\ SettingsAreThere /\ SaveIsAwaited
        /\ ValueIsChosen /\ SaveHasConfig
    BY <1>a, <1>b, <1>6 DEF SaveDone, Released, gcList, gcScreen, GcTypeOK
  <2>6. ShownIsCurrent'
    BY <1>a, <1>d, <1>e, <2>2, <2>5, <1>6 DEF SaveDone, Released, gcList,
       gcScreen, GcTypeOK, GcBase, ShownIsCurrent
  <2>7. LoadIsComing'
    BY <1>a, <1>d, <1>e, <2>1, <2>2, <2>5, <1>6 DEF SaveDone, Released, gcList,
       gcScreen, GcTypeOK, GcBase, ShownIsCurrent, LoadIsComing, SaveIsAwaited,
       SaveHasConfig, Rest, Served, Untouched
  <2>8. SettingsAreThere'
    <3>1. SavesLast(requests) => ~Contains(requests', "request")
      BY <1>a, <1>c, <1>6, SaveOrder DEF SaveDone, GcBase
    <3> QED
      BY <1>a, <2>4, <2>5, <3>1, <1>6 DEF SaveDone, gcScreen, GcTypeOK,
         SettingsAreThere
  <2>9. SaveIsAwaited'
    BY <1>a, <1>d, <1>e, <2>2, <2>3, <2>5, <1>6 DEF SaveDone, Released, gcList,
       gcScreen, GcTypeOK, GcBase, ShownIsCurrent, SettingsAreThere,
       SaveIsAwaited
  <2>10. ValueIsChosen'
    BY <1>a, <1>d, <1>e, <2>2, <2>5, <1>6 DEF SaveDone, Released, gcList,
       gcScreen, GcTypeOK, GcBase, Config, ShownIsCurrent, SettingsAreThere,
       SaveIsAwaited, ValueIsChosen, Rest
  <2>11. SaveHasConfig'
    BY <1>a, <1>d, <1>e, <2>5, <1>6 DEF SaveDone, Released, gcList, gcScreen,
       GcTypeOK, GcBase, SettingsAreThere, SaveIsAwaited, SaveHasConfig, Rest
  <2> QED BY <2>6, <2>7, <2>8, <2>9, <2>10, <2>11
<1>7. CASE ScanStart
  <2>1. Untouched
    BY <1>a, <1>7 DEF ScanStart, gcList, gcScreen, GcBase, Untouched, Served,
       Asked, Replaced
  <2>2. \A x : Contains(requests', x) <=> Contains(requests, x)
    BY <1>c, <2>1, GcQueue DEF Untouched, Kinds
  <2>3. /\ ~Contains(Rest, "save") => ~Contains(Rest', "save")
        /\ OneSave(Rest) => OneSave(Rest')
    <3>1. RestEffect
      BY <1>a, <2>1, <1>7 DEF ScanStart, gcList, gcScreen, GcBase, RestEffect,
         SameSave, Kinds
    <3> QED BY <1>a, <1>c, <3>1, RestKeeps DEF GcBase
  <2>4. SavesLast(requests) => SavesLast(requests')
    BY <1>c, <2>1, SavesStayLast DEF Kinds
  <2>5. /\ ShownIsCurrent /\ LoadIsComing /\ SettingsAreThere /\ SaveIsAwaited
        /\ ValueIsChosen /\ SaveHasConfig
    BY <1>a, <1>b, <1>7 DEF ScanStart, gcList, gcScreen, GcTypeOK
  <2>6. ShownIsCurrent'
    BY <1>a, <1>d, <1>e, <2>2, <2>5, <1>7 DEF ScanStart, gcList, gcScreen,
       GcTypeOK, GcBase, ShownIsCurrent
  <2>7. LoadIsComing'
    BY <1>a, <1>d, <1>e, <2>1, <2>2, <2>5, <1>7 DEF ScanStart, gcList, gcScreen,
       GcTypeOK, GcBase, ShownIsCurrent, LoadIsComing, SaveIsAwaited,
       SaveHasConfig, Rest, Served, Untouched
  <2>8. SettingsAreThere'
    BY <1>a, <1>d, <1>e, <2>1, <2>2, <2>4, <2>5, <1>7 DEF ScanStart, gcList,
       gcScreen, GcTypeOK, GcBase, ConfigIsOfId, ShownIsCurrent, LoadIsComing,
       SettingsAreThere
  <2>9. SaveIsAwaited'
    BY <1>a, <1>d, <1>e, <2>2, <2>3, <2>5, <1>7 DEF ScanStart, gcList, gcScreen,
       GcTypeOK, GcBase, ShownIsCurrent, SettingsAreThere, SaveIsAwaited
  <2>10. ValueIsChosen'
    BY <1>a, <1>d, <1>e, <2>2, <2>5, <1>7 DEF ScanStart, gcList, gcScreen,
       GcTypeOK, GcBase, Config, ShownIsCurrent, SettingsAreThere,
       SaveIsAwaited, ValueIsChosen, Rest
  <2>11. SaveHasConfig'
    BY <1>a, <1>d, <1>e, <2>5, <1>7 DEF ScanStart, gcList, gcScreen, GcTypeOK,
       GcBase, SettingsAreThere, SaveIsAwaited, SaveHasConfig, Rest
  <2> QED BY <2>6, <2>7, <2>8, <2>9, <2>10, <2>11
<1>8. CASE ScanClear
  <2>1. Untouched
    BY <1>a, <1>8 DEF ScanClear, GcBase, Untouched, Served, Asked, Replaced
  <2>2. \A x : Contains(requests', x) <=> Contains(requests, x)
    BY <1>c, <2>1, GcQueue DEF Untouched, Kinds
  <2>3. /\ ~Contains(Rest, "save") => ~Contains(Rest', "save")
        /\ OneSave(Rest) => OneSave(Rest')
    <3>1. RestEffect
      BY <1>a, <2>1, <1>8 DEF ScanClear, GcBase, RestEffect, SameSave, Kinds
    <3> QED BY <1>a, <1>c, <3>1, RestKeeps DEF GcBase
  <2>4. SavesLast(requests) => SavesLast(requests')
    BY <1>c, <2>1, SavesStayLast DEF Kinds
  <2>5. /\ ShownIsCurrent /\ LoadIsComing /\ SettingsAreThere /\ SaveIsAwaited
        /\ ValueIsChosen /\ SaveHasConfig
    BY <1>a, <1>b, <1>8 DEF ScanClear, GcTypeOK
  <2>6. ShownIsCurrent'
    BY <1>a, <1>d, <1>e, <2>2, <2>5, <1>8 DEF ScanClear, GcTypeOK, GcBase,
       ShownIsCurrent
  <2>7. LoadIsComing'
    BY <1>a, <1>d, <1>e, <2>1, <2>2, <2>5, <1>8 DEF ScanClear, GcTypeOK, GcBase,
       ShownIsCurrent, LoadIsComing, SaveIsAwaited, SaveHasConfig, Rest, Served,
       Untouched
  <2>8. SettingsAreThere'
    BY <1>a, <1>d, <1>e, <2>1, <2>2, <2>4, <2>5, <1>8 DEF ScanClear, GcTypeOK,
       GcBase, ConfigIsOfId, ShownIsCurrent, LoadIsComing, SettingsAreThere
  <2>9. SaveIsAwaited'
    BY <1>a, <1>d, <1>e, <2>2, <2>3, <2>5, <1>8 DEF ScanClear, GcTypeOK, GcBase,
       ShownIsCurrent, SettingsAreThere, SaveIsAwaited
  <2>10. ValueIsChosen'
    BY <1>a, <1>d, <1>e, <2>2, <2>5, <1>8 DEF ScanClear, GcTypeOK, GcBase,
       Config, ShownIsCurrent, SettingsAreThere, SaveIsAwaited, ValueIsChosen,
       Rest
  <2>11. SaveHasConfig'
    BY <1>a, <1>d, <1>e, <2>5, <1>8 DEF ScanClear, GcTypeOK, GcBase,
       SettingsAreThere, SaveIsAwaited, SaveHasConfig, Rest
  <2> QED BY <2>6, <2>7, <2>8, <2>9, <2>10, <2>11
<1>9. CASE ScanDone
  <2>1. Served
    BY <1>a, <1>9 DEF ScanDone, gcScreen, GcBase, Untouched, Served, Asked, Replaced
  <2>2. /\ \A x : Contains(requests', x) => Contains(requests, x)
        /\ \A x : Contains(requests, x) => Contains(requests', x) \/ x = Head(requests)
    BY <1>c, <2>1, GcQueue DEF Untouched, Kinds
  <2>3. /\ ~Contains(Rest, "save") => ~Contains(Rest', "save")
        /\ OneSave(Rest) => OneSave(Rest')
    <3>1. RestEffect
      BY <1>a, <2>1, <1>9 DEF ScanDone, gcScreen, GcBase, RestEffect, SameSave,
         Kinds
    <3> QED BY <1>a, <1>c, <3>1, RestKeeps DEF GcBase
  <2>4. SavesLast(requests) => SavesLast(requests')
    BY <1>c, <2>1, SavesStayLast DEF Kinds
  <2>5. /\ ShownIsCurrent /\ LoadIsComing /\ SettingsAreThere /\ SaveIsAwaited
        /\ ValueIsChosen /\ SaveHasConfig
    BY <1>a, <1>b, <1>9 DEF ScanDone, gcScreen, GcTypeOK
  <2>6. ShownIsCurrent'
    BY <1>a, <1>d, <1>e, <2>2, <2>5, <1>9 DEF ScanDone, gcScreen, GcTypeOK,
       GcBase, ShownIsCurrent
  <2>7. LoadIsComing'
    BY <1>a, <1>d, <1>e, <2>1, <2>2, <2>5, <1>9 DEF ScanDone, gcScreen,
       GcTypeOK, GcBase, ShownIsCurrent, LoadIsComing, SaveIsAwaited,
       SaveHasConfig, Rest, Served, Untouched
  <2>8. SettingsAreThere'
    BY <1>a, <1>d, <1>e, <2>1, <2>2, <2>4, <2>5, <1>9 DEF ScanDone, gcScreen,
       GcTypeOK, GcBase, ConfigIsOfId, ShownIsCurrent, LoadIsComing,
       SettingsAreThere
  <2>9. SaveIsAwaited'
    BY <1>a, <1>d, <1>e, <2>2, <2>3, <2>5, <1>9 DEF ScanDone, gcScreen,
       GcTypeOK, GcBase, ShownIsCurrent, SettingsAreThere, SaveIsAwaited
  <2>10. ValueIsChosen'
    BY <1>a, <1>d, <1>e, <2>2, <2>5, <1>9 DEF ScanDone, gcScreen, GcTypeOK,
       GcBase, Config, ShownIsCurrent, SettingsAreThere, SaveIsAwaited,
       ValueIsChosen, Rest
  <2>11. SaveHasConfig'
    BY <1>a, <1>d, <1>e, <2>5, <1>9 DEF ScanDone, gcScreen, GcTypeOK, GcBase,
       SettingsAreThere, SaveIsAwaited, SaveHasConfig, Rest
  <2> QED BY <2>6, <2>7, <2>8, <2>9, <2>10, <2>11
<1>10. CASE FrameRequests
  <2>1. (Untouched \/ (Asked("load") /\ Len(requests) < MaxRequests))
    BY <1>a, <1>10 DEF FrameRequests, RequestConfig, Resolves, gcList, gcScreen,
       GcBase, Untouched, Served, Asked, Replaced
  <2>2. /\ \A x : Contains(requests', x) => Contains(requests, x) \/ x = "load"
        /\ \A x : Contains(requests, x) => Contains(requests', x)
        /\ Untouched \/ Contains(requests', "load")
    BY <1>c, <2>1, GcQueue DEF Untouched, Kinds
  <2>3. /\ ~Contains(Rest, "save") => ~Contains(Rest', "save")
        /\ OneSave(Rest) => OneSave(Rest')
    <3>1. RestEffect
      BY <1>a, <2>1, <1>10 DEF FrameRequests, RequestConfig, Resolves, gcList,
         gcScreen, GcBase, RestEffect, SameSave, Kinds
    <3> QED BY <1>a, <1>c, <3>1, RestKeeps DEF GcBase
  <2>4. SavesLast(requests) => SavesLast(requests')
    BY <1>c, <2>1, SavesStayLast DEF Kinds
  <2>5. /\ ShownIsCurrent /\ LoadIsComing /\ SettingsAreThere /\ SaveIsAwaited
        /\ ValueIsChosen /\ SaveHasConfig
    BY <1>a, <1>b, <1>10 DEF FrameRequests, RequestConfig, Resolves, gcList,
       gcScreen, GcTypeOK
  <2>6. ShownIsCurrent'
    BY <1>a, <1>d, <1>e, <2>2, <2>5, <1>10 DEF FrameRequests, RequestConfig,
       Resolves, gcList, gcScreen, GcTypeOK, GcBase, ShownIsCurrent
  <2>7. LoadIsComing'
    BY <1>a, <1>d, <1>e, <2>1, <2>2, <2>5, <1>10 DEF FrameRequests,
       RequestConfig, Resolves, gcList, gcScreen, GcTypeOK, GcBase,
       ShownIsCurrent, LoadIsComing, SaveIsAwaited, SaveHasConfig, Rest, Served,
       Untouched
  <2>8. SettingsAreThere'
    BY <1>a, <1>d, <1>e, <2>1, <2>2, <2>4, <2>5, <1>10 DEF FrameRequests,
       RequestConfig, Resolves, gcList, gcScreen, GcTypeOK, GcBase,
       ConfigIsOfId, ShownIsCurrent, LoadIsComing, SettingsAreThere
  <2>9. SaveIsAwaited'
    BY <1>a, <1>d, <1>e, <2>2, <2>3, <2>5, <1>10 DEF FrameRequests,
       RequestConfig, Resolves, gcList, gcScreen, GcTypeOK, GcBase,
       ShownIsCurrent, SettingsAreThere, SaveIsAwaited
  <2>10. ValueIsChosen'
    BY <1>a, <1>d, <1>e, <2>2, <2>5, <1>10 DEF FrameRequests, RequestConfig,
       Resolves, gcList, gcScreen, GcTypeOK, GcBase, Config, ShownIsCurrent,
       SettingsAreThere, SaveIsAwaited, ValueIsChosen, Rest
  <2>11. SaveHasConfig'
    BY <1>a, <1>d, <1>e, <2>5, <1>10 DEF FrameRequests, RequestConfig, Resolves,
       gcList, gcScreen, GcTypeOK, GcBase, SettingsAreThere, SaveIsAwaited,
       SaveHasConfig, Rest
  <2> QED BY <2>6, <2>7, <2>8, <2>9, <2>10, <2>11
<1>11. CASE FrameGetsSema
  <2>1. (Untouched \/ (Asked("load") /\ Len(requests) < MaxRequests))
    BY <1>a, <1>11 DEF FrameGetsSema, RequestConfig, Resolves, gcList, gcScreen,
       GcBase, Untouched, Served, Asked, Replaced
  <2>2. /\ \A x : Contains(requests', x) => Contains(requests, x) \/ x = "load"
        /\ \A x : Contains(requests, x) => Contains(requests', x)
        /\ Untouched \/ Contains(requests', "load")
    BY <1>c, <2>1, GcQueue DEF Untouched, Kinds
  <2>3. /\ ~Contains(Rest, "save") => ~Contains(Rest', "save")
        /\ OneSave(Rest) => OneSave(Rest')
    <3>1. RestEffect
      BY <1>a, <2>1, <1>11 DEF FrameGetsSema, RequestConfig, Resolves, gcList,
         gcScreen, GcBase, RestEffect, SameSave, Kinds
    <3> QED BY <1>a, <1>c, <3>1, RestKeeps DEF GcBase
  <2>4. SavesLast(requests) => SavesLast(requests')
    BY <1>c, <2>1, SavesStayLast DEF Kinds
  <2>5. /\ ShownIsCurrent /\ LoadIsComing /\ SettingsAreThere /\ SaveIsAwaited
        /\ ValueIsChosen /\ SaveHasConfig
    BY <1>a, <1>b, <1>11 DEF FrameGetsSema, RequestConfig, Resolves, gcList,
       gcScreen, GcTypeOK
  <2>6. ShownIsCurrent'
    BY <1>a, <1>d, <1>e, <2>2, <2>5, <1>11 DEF FrameGetsSema, RequestConfig,
       Resolves, gcList, gcScreen, GcTypeOK, GcBase, ShownIsCurrent
  <2>7. LoadIsComing'
    BY <1>a, <1>d, <1>e, <2>1, <2>2, <2>5, <1>11 DEF FrameGetsSema,
       RequestConfig, Resolves, gcList, gcScreen, GcTypeOK, GcBase,
       ShownIsCurrent, LoadIsComing, SaveIsAwaited, SaveHasConfig, Rest, Served,
       Untouched
  <2>8. SettingsAreThere'
    BY <1>a, <1>d, <1>e, <2>1, <2>2, <2>4, <2>5, <1>11 DEF FrameGetsSema,
       RequestConfig, Resolves, gcList, gcScreen, GcTypeOK, GcBase,
       ConfigIsOfId, ShownIsCurrent, LoadIsComing, SettingsAreThere
  <2>9. SaveIsAwaited'
    BY <1>a, <1>d, <1>e, <2>2, <2>3, <2>5, <1>11 DEF FrameGetsSema,
       RequestConfig, Resolves, gcList, gcScreen, GcTypeOK, GcBase,
       ShownIsCurrent, SettingsAreThere, SaveIsAwaited
  <2>10. ValueIsChosen'
    BY <1>a, <1>d, <1>e, <2>2, <2>5, <1>11 DEF FrameGetsSema, RequestConfig,
       Resolves, gcList, gcScreen, GcTypeOK, GcBase, Config, ShownIsCurrent,
       SettingsAreThere, SaveIsAwaited, ValueIsChosen, Rest
  <2>11. SaveHasConfig'
    BY <1>a, <1>d, <1>e, <2>5, <1>11 DEF FrameGetsSema, RequestConfig, Resolves,
       gcList, gcScreen, GcTypeOK, GcBase, SettingsAreThere, SaveIsAwaited,
       SaveHasConfig, Rest
  <2> QED BY <2>6, <2>7, <2>8, <2>9, <2>10, <2>11
<1>12. CASE DrainOps
  <2>1. Untouched
    BY <1>a, <1>12 DEF DrainOps, gcScreen, GcBase, Untouched, Served, Asked,
       Replaced
  <2>2. \A x : Contains(requests', x) <=> Contains(requests, x)
    BY <1>c, <2>1, GcQueue DEF Untouched, Kinds
  <2>3. /\ ~Contains(Rest, "save") => ~Contains(Rest', "save")
        /\ OneSave(Rest) => OneSave(Rest')
    <3>1. RestEffect
      BY <1>a, <2>1, <1>12 DEF DrainOps, gcScreen, GcBase, RestEffect, SameSave,
         Kinds
    <3> QED BY <1>a, <1>c, <3>1, RestKeeps DEF GcBase
  <2>4. SavesLast(requests) => SavesLast(requests')
    BY <1>c, <2>1, SavesStayLast DEF Kinds
  <2>5. /\ ShownIsCurrent /\ LoadIsComing /\ SettingsAreThere /\ SaveIsAwaited
        /\ ValueIsChosen /\ SaveHasConfig
    BY <1>a, <1>b, <1>12 DEF DrainOps, gcScreen, GcTypeOK
  <2>6. ShownIsCurrent'
    BY <1>a, <1>d, <1>e, <2>2, <2>5, <1>12 DEF DrainOps, gcScreen, GcTypeOK,
       GcBase, ShownIsCurrent
  <2>7. LoadIsComing'
    BY <1>a, <1>d, <1>e, <2>1, <2>2, <2>5, <1>12 DEF DrainOps, gcScreen,
       GcTypeOK, GcBase, ShownIsCurrent, LoadIsComing, SaveIsAwaited,
       SaveHasConfig, Rest, Served, Untouched
  <2>8. SettingsAreThere'
    BY <1>a, <1>d, <1>e, <2>1, <2>2, <2>4, <2>5, <1>12 DEF DrainOps, gcScreen,
       GcTypeOK, GcBase, ConfigIsOfId, ShownIsCurrent, LoadIsComing,
       SettingsAreThere
  <2>9. SaveIsAwaited'
    BY <1>a, <1>d, <1>e, <2>2, <2>3, <2>5, <1>12 DEF DrainOps, gcScreen,
       GcTypeOK, GcBase, ShownIsCurrent, SettingsAreThere, SaveIsAwaited
  <2>10. ValueIsChosen'
    BY <1>a, <1>d, <1>e, <2>2, <2>5, <1>12 DEF DrainOps, gcScreen, GcTypeOK,
       GcBase, Config, ShownIsCurrent, SettingsAreThere, SaveIsAwaited,
       ValueIsChosen, Rest
  <2>11. SaveHasConfig'
    BY <1>a, <1>d, <1>e, <2>5, <1>12 DEF DrainOps, gcScreen, GcTypeOK, GcBase,
       SettingsAreThere, SaveIsAwaited, SaveHasConfig, Rest
  <2> QED BY <2>6, <2>7, <2>8, <2>9, <2>10, <2>11
<1>13. CASE MoveGame
  <2>1. Untouched
    BY <1>a, <1>13 DEF MoveGame, gcScreen, GcBase, Untouched, Served, Asked,
       Replaced
  <2>2. \A x : Contains(requests', x) <=> Contains(requests, x)
    BY <1>c, <2>1, GcQueue DEF Untouched, Kinds
  <2>3. /\ ~Contains(Rest, "save") => ~Contains(Rest', "save")
        /\ OneSave(Rest) => OneSave(Rest')
    <3>1. RestEffect
      BY <1>a, <2>1, <1>13 DEF MoveGame, gcScreen, GcBase, RestEffect, SameSave,
         Kinds
    <3> QED BY <1>a, <1>c, <3>1, RestKeeps DEF GcBase
  <2>4. SavesLast(requests) => SavesLast(requests')
    BY <1>c, <2>1, SavesStayLast DEF Kinds
  <2>5. /\ ShownIsCurrent /\ LoadIsComing /\ SettingsAreThere /\ SaveIsAwaited
        /\ ValueIsChosen /\ SaveHasConfig
    BY <1>a, <1>b, <1>13 DEF MoveGame, gcScreen, GcTypeOK
  <2>6. ShownIsCurrent'
    BY <1>a, <1>d, <1>e, <2>2, <2>5, <1>13 DEF MoveGame, gcScreen, GcTypeOK,
       GcBase, ShownIsCurrent
  <2>7. LoadIsComing'
    BY <1>a, <1>d, <1>e, <2>1, <2>2, <2>5, <1>13 DEF MoveGame, gcScreen,
       GcTypeOK, GcBase, ShownIsCurrent, LoadIsComing, SaveIsAwaited,
       SaveHasConfig, Rest, Served, Untouched
  <2>8. SettingsAreThere'
    BY <1>a, <1>d, <1>e, <2>1, <2>2, <2>4, <2>5, <1>13 DEF MoveGame, gcScreen,
       GcTypeOK, GcBase, ConfigIsOfId, ShownIsCurrent, LoadIsComing,
       SettingsAreThere
  <2>9. SaveIsAwaited'
    BY <1>a, <1>d, <1>e, <2>2, <2>3, <2>5, <1>13 DEF MoveGame, gcScreen,
       GcTypeOK, GcBase, ShownIsCurrent, SettingsAreThere, SaveIsAwaited
  <2>10. ValueIsChosen'
    BY <1>a, <1>d, <1>e, <2>2, <2>5, <1>13 DEF MoveGame, gcScreen, GcTypeOK,
       GcBase, Config, ShownIsCurrent, SettingsAreThere, SaveIsAwaited,
       ValueIsChosen, Rest
  <2>11. SaveHasConfig'
    BY <1>a, <1>d, <1>e, <2>5, <1>13 DEF MoveGame, gcScreen, GcTypeOK, GcBase,
       SettingsAreThere, SaveIsAwaited, SaveHasConfig, Rest
  <2> QED BY <2>6, <2>7, <2>8, <2>9, <2>10, <2>11
<1>14. CASE OpenOptions
  <2>1. Asked("request") /\ Len(requests) < MaxRequests
    BY <1>a, <1>14 DEF OpenOptions, gcList, Resolves, GcBase, Untouched, Served,
       Asked, Replaced
  <2>2. \A x : Contains(requests', x) <=> Contains(requests, x) \/ x = "request"
    BY <1>c, <2>1, GcQueue DEF Untouched, Kinds
  <2>3. /\ ~Contains(Rest, "save") => ~Contains(Rest', "save")
        /\ OneSave(Rest) => OneSave(Rest')
    <3>1. RestEffect
      BY <1>a, <2>1, <1>14 DEF OpenOptions, gcList, Resolves, GcBase,
         RestEffect, SameSave, Kinds
    <3> QED BY <1>a, <1>c, <3>1, RestKeeps DEF GcBase
  <2>6. ShownIsCurrent'
    BY <1>a, <1>d, <1>e, <2>2, <1>b, <1>14 DEF OpenOptions, gcList, Resolves,
       GcTypeOK, GcBase, ShownIsCurrent
  <2>7. LoadIsComing'
    BY <1>a, <1>d, <1>e, <2>1, <2>2, <1>b, <1>14 DEF OpenOptions, gcList,
       Resolves, GcTypeOK, GcBase, ShownIsCurrent, LoadIsComing, SaveIsAwaited,
       SaveHasConfig, Rest, Served, Untouched
  <2>8. SettingsAreThere'
    BY <1>a, <1>d, <1>e, <2>1, <2>2, <1>b, <1>14 DEF OpenOptions, gcList,
       Resolves, GcTypeOK, GcBase, ConfigIsOfId, ShownIsCurrent, LoadIsComing,
       SettingsAreThere
  <2>9. SaveIsAwaited'
    <3>1. ~Contains(Rest, "save")
      <4>1. CASE requests = <<>>
        BY <1>a, <1>e, <4>1 DEF GcBase, Rest
      <4>2. CASE ~disturbed
        BY <1>b, <4>2, <1>14 DEF OpenOptions, SaveIsAwaited
      <4> QED BY <4>1, <4>2, <1>14 DEF OpenOptions
    <3> QED
      BY <2>3, <3>1, <1>14 DEF OpenOptions, SaveIsAwaited
  <2>10. ValueIsChosen'
    BY <1>a, <1>d, <1>e, <2>2, <1>b, <1>14 DEF OpenOptions, gcList, Resolves,
       GcTypeOK, GcBase, Config, ShownIsCurrent, SettingsAreThere,
       SaveIsAwaited, ValueIsChosen, Rest
  <2>11. SaveHasConfig'
    BY <1>a, <1>d, <1>e, <1>b, <1>14 DEF OpenOptions, gcList, Resolves,
       GcTypeOK, GcBase, SettingsAreThere, SaveIsAwaited, SaveHasConfig, Rest
  <2> QED BY <2>6, <2>7, <2>8, <2>9, <2>10, <2>11
<1>15. CASE OptionsLoaded
  <2>1. Untouched
    BY <1>a, <1>15 DEF OptionsLoaded, gcList, IoWaits, BlockedOnSema, GcBase,
       Untouched, Served, Asked, Replaced
  <2>2. \A x : Contains(requests', x) <=> Contains(requests, x)
    BY <1>c, <2>1, GcQueue DEF Untouched, Kinds
  <2>3. /\ ~Contains(Rest, "save") => ~Contains(Rest', "save")
        /\ OneSave(Rest) => OneSave(Rest')
    <3>1. RestEffect
      BY <1>a, <2>1, <1>15 DEF OptionsLoaded, gcList, IoWaits, BlockedOnSema,
         GcBase, RestEffect, SameSave, Kinds
    <3> QED BY <1>a, <1>c, <3>1, RestKeeps DEF GcBase
  <2>4. SavesLast(requests) => SavesLast(requests')
    BY <1>c, <2>1, SavesStayLast DEF Kinds
  <2>5. /\ ShownIsCurrent /\ LoadIsComing /\ SettingsAreThere /\ SaveIsAwaited
        /\ ValueIsChosen /\ SaveHasConfig
    BY <1>a, <1>b, <1>15 DEF OptionsLoaded, gcList, IoWaits, BlockedOnSema, GcTypeOK
  <2>6. ShownIsCurrent'
    BY <1>a, <1>d, <1>e, <2>2, <2>5, <1>15 DEF OptionsLoaded, gcList, IoWaits,
       BlockedOnSema, GcTypeOK, GcBase, ShownIsCurrent
  <2>7. LoadIsComing'
    BY <1>a, <1>d, <1>e, <2>1, <2>2, <2>5, <1>15 DEF OptionsLoaded, gcList,
       IoWaits, BlockedOnSema, GcTypeOK, GcBase, ShownIsCurrent, LoadIsComing,
       SaveIsAwaited, SaveHasConfig, Rest, Served, Untouched
  <2>8. SettingsAreThere'
    <3> SUFFICES ASSUME screen = "options"
                 PROVE  /\ \/ itemConfig # NoGame /\ itemConfig.of = shown
                           \/ ioState = "load" /\ loading = shown
                        /\ Contains(requests, "request") => itemConfigId = shown
                        /\ SavesLast(requests)
      BY <1>15 DEF OptionsLoaded, gcList, SettingsAreThere
    <3>1. (ioState = "idle" /\ requests = <<>>) \/ ioState \in {"load", "save"}
      BY <1>a, <2>5, <1>15 DEF OptionsLoaded, IoWaits, BlockedOnSema, GcBase,
         ShownIsCurrent
    <3>2. ioState # "save"
      BY <2>5, <1>15 DEF OptionsLoaded, LoadIsComing
    <3>3. SavesLast(requests)
      BY <1>c, <2>5, <3>2, <1>15, SaveOrder DEF OptionsLoaded, SaveIsAwaited, Rest
    <3>4. CASE ioState = "load"
      BY <2>5, <3>3, <3>4, <1>15 DEF OptionsLoaded, LoadIsComing
    <3>5. CASE requests = <<>>
      <4>1. itemConfigId = shown /\ itemConfig # NoGame
        BY <1>e, <2>5, <3>5, <1>15 DEF OptionsLoaded, LoadIsComing
      <4>2. itemConfigId # NoGame
        BY <1>a, <4>1 DEF GcBase
      <4> QED BY <1>a, <1>e, <3>3, <3>5, <4>1, <4>2 DEF ConfigIsOfId
    <3> QED BY <3>1, <3>2, <3>4, <3>5
  <2>9. SaveIsAwaited'
    BY <1>a, <1>d, <1>e, <2>2, <2>3, <2>5, <1>15 DEF OptionsLoaded, gcList,
       IoWaits, BlockedOnSema, GcTypeOK, GcBase, ShownIsCurrent,
       SettingsAreThere, SaveIsAwaited
  <2>10. ValueIsChosen'
    BY <1>a, <1>d, <1>e, <2>2, <2>5, <1>15 DEF OptionsLoaded, gcList, IoWaits,
       BlockedOnSema, GcTypeOK, GcBase, Config, ShownIsCurrent,
       SettingsAreThere, SaveIsAwaited, ValueIsChosen, Rest
  <2>11. SaveHasConfig'
    BY <1>a, <1>d, <1>e, <2>5, <1>15 DEF OptionsLoaded, gcList, IoWaits,
       BlockedOnSema, GcTypeOK, GcBase, SettingsAreThere, SaveIsAwaited,
       SaveHasConfig, Rest
  <2> QED BY <2>6, <2>7, <2>8, <2>9, <2>10, <2>11
<1>16. CASE ChangeOption
  <2>1. Untouched
    BY <1>a, <1>16 DEF ChangeOption, OptionsInput, gcList, GcBase, Untouched,
       Served, Asked, Replaced
  <2>2. \A x : Contains(requests', x) <=> Contains(requests, x)
    BY <1>c, <2>1, GcQueue DEF Untouched, Kinds
  <2>3. /\ ~Contains(Rest, "save") => ~Contains(Rest', "save")
        /\ OneSave(Rest) => OneSave(Rest')
    <3>1. RestEffect
      BY <1>a, <2>1, <1>16 DEF ChangeOption, OptionsInput, gcList, GcBase,
         RestEffect, SameSave, Kinds
    <3> QED BY <1>a, <1>c, <3>1, RestKeeps DEF GcBase
  <2>4. SavesLast(requests) => SavesLast(requests')
    BY <1>c, <2>1, SavesStayLast DEF Kinds
  <2>5. /\ ShownIsCurrent /\ LoadIsComing /\ SettingsAreThere /\ SaveIsAwaited
        /\ ValueIsChosen /\ SaveHasConfig
    BY <1>a, <1>b, <1>16 DEF ChangeOption, OptionsInput, gcList, GcTypeOK
  <2>6. ShownIsCurrent'
    BY <1>a, <1>d, <1>e, <2>2, <2>5, <1>16 DEF ChangeOption, OptionsInput,
       gcList, GcTypeOK, GcBase, ShownIsCurrent
  <2>7. LoadIsComing'
    BY <1>a, <1>d, <1>e, <2>1, <2>2, <2>5, <1>16 DEF ChangeOption, OptionsInput,
       gcList, GcTypeOK, GcBase, ShownIsCurrent, LoadIsComing, SaveIsAwaited,
       SaveHasConfig, Rest, Served, Untouched
  <2>8. SettingsAreThere'
    BY <1>a, <1>d, <1>e, <2>1, <2>2, <2>4, <2>5, <1>16 DEF ChangeOption,
       OptionsInput, gcList, GcTypeOK, GcBase, ConfigIsOfId, ShownIsCurrent,
       LoadIsComing, SettingsAreThere
  <2>9. SaveIsAwaited'
    BY <1>a, <1>d, <1>e, <2>2, <2>3, <2>5, <1>16 DEF ChangeOption, OptionsInput,
       gcList, GcTypeOK, GcBase, ShownIsCurrent, SettingsAreThere, SaveIsAwaited
  <2>10. ValueIsChosen'
    BY <1>a, <1>d, <1>e, <2>2, <2>5, <1>16 DEF ChangeOption, OptionsInput,
       gcList, GcTypeOK, GcBase, Config, ShownIsCurrent, SettingsAreThere,
       SaveIsAwaited, ValueIsChosen, Rest
  <2>11. SaveHasConfig'
    BY <1>a, <1>d, <1>e, <2>5, <1>16 DEF ChangeOption, OptionsInput, gcList,
       GcTypeOK, GcBase, SettingsAreThere, SaveIsAwaited, SaveHasConfig, Rest
  <2> QED BY <2>6, <2>7, <2>8, <2>9, <2>10, <2>11
<1>17. CASE SaveOptions
  <2>1. Asked("save") /\ Len(requests) < MaxRequests
    BY <1>a, <1>17 DEF SaveOptions, OptionsInput, gcList, GcBase, Untouched,
       Served, Asked, Replaced
  <2>2. \A x : Contains(requests', x) <=> Contains(requests, x) \/ x = "save"
    BY <1>c, <2>1, GcQueue DEF Untouched, Kinds
  <2>4. SavesLast(requests) => SavesLast(requests')
    BY <1>c, <2>1, SavesStayLast DEF Kinds
  <2>5. /\ ShownIsCurrent /\ LoadIsComing /\ SettingsAreThere /\ SaveIsAwaited
        /\ ValueIsChosen /\ SaveHasConfig
    BY <1>a, <1>b, <1>17 DEF SaveOptions, OptionsInput, gcList, GcTypeOK
  <2>0. itemConfig # NoGame => itemConfig' # NoGame /\ itemConfig'.of = itemConfig.of
    <3> SUFFICES ASSUME itemConfig # NoGame
                 PROVE  itemConfig' # NoGame /\ itemConfig'.of = itemConfig.of
      OBVIOUS
    <3>1. itemConfig \in Config /\ [itemConfig EXCEPT !.value = options] \in Config
      BY <1>a DEF GcTypeOK, Config
    <3> QED BY <3>1, <1>17 DEF SaveOptions, Config
  <2>6. ShownIsCurrent'
    BY <1>a, <1>d, <1>e, <2>2, <2>5, <1>17 DEF SaveOptions, OptionsInput,
       gcList, GcTypeOK, GcBase, ShownIsCurrent
  <2>7. LoadIsComing'
    BY <1>a, <1>d, <1>e, <2>1, <2>2, <2>5, <1>17 DEF SaveOptions, OptionsInput,
       gcList, GcTypeOK, GcBase, ShownIsCurrent, LoadIsComing, SaveIsAwaited,
       SaveHasConfig, Rest, Served, Untouched
  <2>8. SettingsAreThere'
    BY <1>a, <2>0, <2>2, <2>4, <2>5, <1>17
      DEF SaveOptions, OptionsInput, gcList, SettingsAreThere
  <2>9. SaveIsAwaited'
    <3>1. Rest' = Append(Rest, "save") /\ Rest \in Seq(Kinds) /\ "save" \in Kinds /\ ~Contains(Rest, "save")
      <4>1. ~Contains(Rest, "save")
        BY <2>5, <1>17 DEF SaveOptions, OptionsInput, SaveIsAwaited
      <4>2. requests # <<>> => Tail(Append(requests, "save")) = Append(Tail(requests), "save")
        BY <1>c, SMTT(30) DEF Kinds
      <4>3. Rest \in Seq(Kinds)
        BY <1>a, <1>c, QueueTail DEF Rest, GcBase
      <4> QED
        BY <1>a, <4>1, <4>2, <4>3, <1>17 DEF SaveOptions, Rest, GcBase, Kinds
    <3>2. OneSave(Rest')
      BY <3>1, SaveOrder
    <3> QED
      BY <3>2, <1>17 DEF SaveOptions, SaveIsAwaited
  <2>10. ValueIsChosen'
    BY <1>a, <1>d, <1>e, <2>2, <2>5, <1>17 DEF SaveOptions, OptionsInput,
       gcList, GcTypeOK, GcBase, Config, ShownIsCurrent, SettingsAreThere,
       SaveIsAwaited, ValueIsChosen, Rest
  <2>11. SaveHasConfig'
    BY <2>0, <2>5, <1>17 DEF SaveOptions, SaveHasConfig
  <2> QED BY <2>6, <2>7, <2>8, <2>9, <2>10, <2>11
<1>18. CASE OptionsSaved
  <2>1. Untouched
    BY <1>a, <1>18 DEF OptionsSaved, gcList, IoWaits, BlockedOnSema, GcBase,
       Untouched, Served, Asked, Replaced
  <2>2. \A x : Contains(requests', x) <=> Contains(requests, x)
    BY <1>c, <2>1, GcQueue DEF Untouched, Kinds
  <2>3. /\ ~Contains(Rest, "save") => ~Contains(Rest', "save")
        /\ OneSave(Rest) => OneSave(Rest')
    <3>1. RestEffect
      BY <1>a, <2>1, <1>18 DEF OptionsSaved, gcList, IoWaits, BlockedOnSema,
         GcBase, RestEffect, SameSave, Kinds
    <3> QED BY <1>a, <1>c, <3>1, RestKeeps DEF GcBase
  <2>4. SavesLast(requests) => SavesLast(requests')
    BY <1>c, <2>1, SavesStayLast DEF Kinds
  <2>5. /\ ShownIsCurrent /\ LoadIsComing /\ SettingsAreThere /\ SaveIsAwaited
        /\ ValueIsChosen /\ SaveHasConfig
    BY <1>a, <1>b, <1>18 DEF OptionsSaved, gcList, IoWaits, BlockedOnSema, GcTypeOK
  <2>6. ShownIsCurrent'
    BY <1>a, <1>d, <1>e, <2>2, <2>5, <1>18 DEF OptionsSaved, gcList, IoWaits,
       BlockedOnSema, GcTypeOK, GcBase, ShownIsCurrent
  <2>7. LoadIsComing'
    BY <1>a, <1>d, <1>e, <2>1, <2>2, <2>5, <1>18 DEF OptionsSaved, gcList,
       IoWaits, BlockedOnSema, GcTypeOK, GcBase, ShownIsCurrent, LoadIsComing,
       SaveIsAwaited, SaveHasConfig, Rest, Served, Untouched
  <2>8. SettingsAreThere'
    BY <1>a, <1>d, <1>e, <2>1, <2>2, <2>4, <2>5, <1>18 DEF OptionsSaved, gcList,
       IoWaits, BlockedOnSema, GcTypeOK, GcBase, ConfigIsOfId, ShownIsCurrent,
       LoadIsComing, SettingsAreThere
  <2>9. SaveIsAwaited'
    <3>1. (ioState = "idle" /\ requests = <<>>) \/ ioState \in {"load", "save"}
      BY <1>a, <2>5, <1>18 DEF OptionsSaved, IoWaits, BlockedOnSema, GcBase,
         ShownIsCurrent
    <3>2. ~Contains(Rest, "save")
      <4>1. CASE ioState = "idle" /\ requests = <<>>
        BY <1>e, <4>1 DEF Rest
      <4>2. CASE ioState \in {"load", "save"}
        BY <2>5, <4>2, <1>18 DEF OptionsSaved, SaveIsAwaited
      <4> QED BY <3>1, <4>1, <4>2
    <3> QED
      BY <2>3, <3>2, <1>18 DEF OptionsSaved, SaveIsAwaited
  <2>10. ValueIsChosen'
    BY <1>a, <1>d, <1>e, <2>2, <2>5, <1>18 DEF OptionsSaved, gcList, IoWaits,
       BlockedOnSema, GcTypeOK, GcBase, Config, ShownIsCurrent,
       SettingsAreThere, SaveIsAwaited, ValueIsChosen, Rest
  <2>11. SaveHasConfig'
    BY <1>a, <1>d, <1>e, <2>5, <1>18 DEF OptionsSaved, gcList, IoWaits,
       BlockedOnSema, GcTypeOK, GcBase, SettingsAreThere, SaveIsAwaited,
       SaveHasConfig, Rest
  <2> QED BY <2>6, <2>7, <2>8, <2>9, <2>10, <2>11
<1>19. CASE CloseOptions
  <2>1. Untouched
    BY <1>a, <1>19 DEF CloseOptions, OptionsInput, gcList, GcBase, Untouched,
       Served, Asked, Replaced
  <2>2. \A x : Contains(requests', x) <=> Contains(requests, x)
    BY <1>c, <2>1, GcQueue DEF Untouched, Kinds
  <2>3. /\ ~Contains(Rest, "save") => ~Contains(Rest', "save")
        /\ OneSave(Rest) => OneSave(Rest')
    <3>1. RestEffect
      BY <1>a, <2>1, <1>19 DEF CloseOptions, OptionsInput, gcList, GcBase,
         RestEffect, SameSave, Kinds
    <3> QED BY <1>a, <1>c, <3>1, RestKeeps DEF GcBase
  <2>4. SavesLast(requests) => SavesLast(requests')
    BY <1>c, <2>1, SavesStayLast DEF Kinds
  <2>5. /\ ShownIsCurrent /\ LoadIsComing /\ SettingsAreThere /\ SaveIsAwaited
        /\ ValueIsChosen /\ SaveHasConfig
    BY <1>a, <1>b, <1>19 DEF CloseOptions, OptionsInput, gcList, GcTypeOK
  <2>6. ShownIsCurrent'
    BY <1>a, <1>d, <1>e, <2>2, <2>5, <1>19 DEF CloseOptions, OptionsInput,
       gcList, GcTypeOK, GcBase, ShownIsCurrent
  <2>7. LoadIsComing'
    BY <1>a, <1>d, <1>e, <2>1, <2>2, <2>5, <1>19 DEF CloseOptions, OptionsInput,
       gcList, GcTypeOK, GcBase, ShownIsCurrent, LoadIsComing, SaveIsAwaited,
       SaveHasConfig, Rest, Served, Untouched
  <2>8. SettingsAreThere'
    BY <1>a, <1>d, <1>e, <2>1, <2>2, <2>4, <2>5, <1>19 DEF CloseOptions,
       OptionsInput, gcList, GcTypeOK, GcBase, ConfigIsOfId, ShownIsCurrent,
       LoadIsComing, SettingsAreThere
  <2>9. SaveIsAwaited'
    BY <1>a, <1>d, <1>e, <2>2, <2>3, <2>5, <1>19 DEF CloseOptions, OptionsInput,
       gcList, GcTypeOK, GcBase, ShownIsCurrent, SettingsAreThere, SaveIsAwaited
  <2>10. ValueIsChosen'
    BY <1>a, <1>d, <1>e, <2>2, <2>5, <1>19 DEF CloseOptions, OptionsInput,
       gcList, GcTypeOK, GcBase, Config, ShownIsCurrent, SettingsAreThere,
       SaveIsAwaited, ValueIsChosen, Rest
  <2>11. SaveHasConfig'
    BY <1>a, <1>d, <1>e, <2>5, <1>19 DEF CloseOptions, OptionsInput, gcList,
       GcTypeOK, GcBase, SettingsAreThere, SaveIsAwaited, SaveHasConfig, Rest
  <2> QED BY <2>6, <2>7, <2>8, <2>9, <2>10, <2>11
<1>20. CASE AskScan
  <2>1. Asked("scan") /\ Len(requests) < MaxRequests
    BY <1>a, <1>20 DEF AskScan, gcScreen, GcBase, Untouched, Served, Asked, Replaced
  <2>2. \A x : Contains(requests', x) <=> Contains(requests, x) \/ x = "scan"
    BY <1>c, <2>1, GcQueue DEF Untouched, Kinds
  <2>3. /\ ~Contains(Rest, "save") => ~Contains(Rest', "save")
        /\ OneSave(Rest) => OneSave(Rest')
    <3>1. RestEffect
      BY <1>a, <2>1, <1>20 DEF AskScan, gcScreen, GcBase, RestEffect, SameSave,
         Kinds
    <3> QED BY <1>a, <1>c, <3>1, RestKeeps DEF GcBase
  <2>4. SavesLast(requests) => SavesLast(requests')
    BY <1>c, <2>1, SavesStayLast DEF Kinds
  <2>5. /\ ShownIsCurrent /\ LoadIsComing /\ SettingsAreThere /\ SaveIsAwaited
        /\ ValueIsChosen /\ SaveHasConfig
    BY <1>a, <1>b, <1>20 DEF AskScan, gcScreen, GcTypeOK
  <2>6. ShownIsCurrent'
    BY <1>a, <1>d, <1>e, <2>2, <2>5, <1>20 DEF AskScan, gcScreen, GcTypeOK,
       GcBase, ShownIsCurrent
  <2>7. LoadIsComing'
    BY <1>a, <1>d, <1>e, <2>1, <2>2, <2>5, <1>20 DEF AskScan, gcScreen,
       GcTypeOK, GcBase, ShownIsCurrent, LoadIsComing, SaveIsAwaited,
       SaveHasConfig, Rest, Served, Untouched
  <2>8. SettingsAreThere'
    BY <1>a, <1>d, <1>e, <2>1, <2>2, <2>4, <2>5, <1>20 DEF AskScan, gcScreen,
       GcTypeOK, GcBase, ConfigIsOfId, ShownIsCurrent, LoadIsComing,
       SettingsAreThere
  <2>9. SaveIsAwaited'
    BY <1>a, <1>d, <1>e, <2>2, <2>3, <2>5, <1>20 DEF AskScan, gcScreen,
       GcTypeOK, GcBase, ShownIsCurrent, SettingsAreThere, SaveIsAwaited
  <2>10. ValueIsChosen'
    BY <1>a, <1>d, <1>e, <2>2, <2>5, <1>20 DEF AskScan, gcScreen, GcTypeOK,
       GcBase, Config, ShownIsCurrent, SettingsAreThere, SaveIsAwaited,
       ValueIsChosen, Rest
  <2>11. SaveHasConfig'
    BY <1>a, <1>d, <1>e, <2>5, <1>20 DEF AskScan, gcScreen, GcTypeOK, GcBase,
       SettingsAreThere, SaveIsAwaited, SaveHasConfig, Rest
  <2> QED BY <2>6, <2>7, <2>8, <2>9, <2>10, <2>11
<1>21. CASE UNCHANGED gcVars
  <2>1. Untouched
    BY <1>a, <1>21 DEF gcVars, gcList, gcScreen, GcBase, Untouched, Served,
       Asked, Replaced
  <2>2. \A x : Contains(requests', x) <=> Contains(requests, x)
    BY <1>c, <2>1, GcQueue DEF Untouched, Kinds
  <2>3. /\ ~Contains(Rest, "save") => ~Contains(Rest', "save")
        /\ OneSave(Rest) => OneSave(Rest')
    <3>1. RestEffect
      BY <1>a, <2>1, <1>21 DEF gcVars, gcList, gcScreen, GcBase, RestEffect,
         SameSave, Kinds
    <3> QED BY <1>a, <1>c, <3>1, RestKeeps DEF GcBase
  <2>4. SavesLast(requests) => SavesLast(requests')
    BY <1>c, <2>1, SavesStayLast DEF Kinds
  <2>5. /\ ShownIsCurrent /\ LoadIsComing /\ SettingsAreThere /\ SaveIsAwaited
        /\ ValueIsChosen /\ SaveHasConfig
    BY <1>a, <1>b, <1>21 DEF gcVars, gcList, gcScreen, GcTypeOK
  <2>6. ShownIsCurrent'
    BY <1>a, <1>d, <1>e, <2>2, <2>5, <1>21 DEF gcVars, gcList, gcScreen,
       GcTypeOK, GcBase, ShownIsCurrent
  <2>7. LoadIsComing'
    BY <1>a, <1>d, <1>e, <2>1, <2>2, <2>5, <1>21 DEF gcVars, gcList, gcScreen,
       GcTypeOK, GcBase, ShownIsCurrent, LoadIsComing, SaveIsAwaited,
       SaveHasConfig, Rest, Served, Untouched
  <2>8. SettingsAreThere'
    BY <1>a, <1>d, <1>e, <2>1, <2>2, <2>4, <2>5, <1>21 DEF gcVars, gcList,
       gcScreen, GcTypeOK, GcBase, ConfigIsOfId, ShownIsCurrent, LoadIsComing,
       SettingsAreThere
  <2>9. SaveIsAwaited'
    BY <1>a, <1>d, <1>e, <2>2, <2>3, <2>5, <1>21 DEF gcVars, gcList, gcScreen,
       GcTypeOK, GcBase, ShownIsCurrent, SettingsAreThere, SaveIsAwaited
  <2>10. ValueIsChosen'
    BY <1>a, <1>d, <1>e, <2>2, <2>5, <1>21 DEF gcVars, gcList, gcScreen,
       GcTypeOK, GcBase, Config, ShownIsCurrent, SettingsAreThere,
       SaveIsAwaited, ValueIsChosen, Rest
  <2>11. SaveHasConfig'
    BY <1>a, <1>d, <1>e, <2>5, <1>21 DEF gcVars, gcList, gcScreen, GcTypeOK,
       GcBase, SettingsAreThere, SaveIsAwaited, SaveHasConfig, Rest
  <2> QED BY <2>6, <2>7, <2>8, <2>9, <2>10, <2>11
<1> QED
  BY <1>1, <1>2, <1>3, <1>4, <1>5, <1>6, <1>7, <1>8, <1>9, <1>10, <1>11, <1>12,
     <1>13, <1>14, <1>15, <1>16, <1>17, <1>18, <1>19, <1>20, <1>21
  DEF GcNext, Worker, Gui

(* Before the first frame nothing is asked for.                            *)
LEMMA GcStart == GcInit => GcInv
<1> SUFFICES ASSUME GcInit PROVE GcInv
  OBVIOUS
<1> USE GameConfigAssumption
<1>1. requests \in Seq(Kinds) /\ Len(requests) = 0 /\ \A x : ~Contains(requests, x)
  BY DEF GcInit, Kinds, Contains
<1>2. {relist, touched, disturbed} \subseteq BOOLEAN
  BY DEF GcInit
<1>3. stored \in [GcGames -> GcValues] /\ chosen \in [GcGames -> SUBSET GcValues]
  BY DEF GcInit
<1>4. GcTypeOK
  BY <1>1, <1>2, <1>3 DEF GcInit, GcTypeOK, Kinds
<1>5. GcBase /\ ConfigIsOfId
  BY DEF GcInit, GcBase, ConfigIsOfId
<1>6. ShownIsCurrent /\ LoadIsComing /\ SettingsAreThere /\ SaveIsAwaited
  BY <1>1 DEF GcInit, ShownIsCurrent, LoadIsComing, SettingsAreThere,
     SaveIsAwaited, Rest
<1>7. ValueIsChosen /\ SaveHasConfig
  BY <1>1 DEF GcInit, ValueIsChosen, SaveHasConfig
<1> QED
  BY <1>4, <1>5, <1>6, <1>7 DEF GcInv, Undisturbed

(* The invariant of the settings is inductive.                             *)
LEMMA GcStep == GcInv /\ [GcNext]_gcVars => GcInv'
  BY GcBaseStep, UndisturbedStep DEF GcInv

(* Only a save changes a file, and it writes what the screen chose for the *)
(* game of the file.                                                       *)
LEMMA SavesTheShown ==
    ASSUME GcInv, [GcNext]_gcVars
    PROVE  SavesShownGame
<1> USE GameConfigAssumption
<1> SUFFICES ASSUME NEW g \in GcGames, stored'[g] # stored[g], ~disturbed
             PROVE  stored'[g] \in chosen[g]
  BY DEF SavesShownGame
<1>1. SaveDone \/ UNCHANGED stored
  BY DEF GcNext, Worker, Gui, gcVars, ServeRequestConfig, LoadStart, LoadDone,
     LoadNothing, SaveStart,
         ScanStart, ScanClear, ScanDone, FrameRequests, FrameGetsSema, DrainOps, MoveGame, OpenOptions,
         OptionsLoaded, ChangeOption, SaveOptions, OptionsSaved, CloseOptions, AskScan
<1>2. /\ SaveDone /\ itemConfig # NoGame
      /\ stored' = [h \in GcGames |-> IF h = itemConfig.of THEN itemConfig.value ELSE stored[h]]
  BY <1>1 DEF SaveDone
<1>3. g = itemConfig.of /\ stored'[g] = itemConfig.value
  BY <1>2
<1>4. requests \in Seq(Kinds) /\ requests # <<>> /\ Head(requests) = "save"
  BY <1>2 DEF SaveDone, GcInv, GcTypeOK, GcBase, Kinds
<1>5. Contains(requests, "save")
  BY <1>4, QueueTail
<1>6. ValueIsChosen
  BY DEF GcInv, Undisturbed
<1> QED
  BY <1>2, <1>3, <1>5, <1>6 DEF ValueIsChosen

(* The settings of two games are never mixed: what is in memory is of the  *)
(* game it is filed under, and a save writes what was chosen for its game, *)
(* unless the list was rebuilt meanwhile (menusys.c:606-687).              *)
THEOREM SettingsStayOfGame == GcSpec => SettingsAreOfGame
<1>1. GcInv /\ [GcNext]_gcVars => [ConfigIsOfId' /\ SaveHasConfig' /\ SavesShownGame]_gcVars
  <2> SUFFICES ASSUME GcInv, [GcNext]_gcVars
               PROVE  ConfigIsOfId' /\ SaveHasConfig' /\ SavesShownGame
    OBVIOUS
  <2>1. GcInv'
    BY GcStep
  <2>2. ConfigIsOfId' /\ SaveHasConfig'
    BY <2>1 DEF GcInv, Undisturbed, SaveHasConfig
  <2> QED BY <2>2, SavesTheShown
<1> QED
  BY <1>1, GcStart, GcStep, PTL DEF GcSpec, SettingsAreOfGame

-----------------------------------------------------------------------------
(* The three screens together: a step of one leaves the others as they     *)
(* are.                                                                    *)
LEMMA ScreensSteps ==
    ASSUME [ScreensNext]_screensVars
    PROVE  [GcNext]_gcVars /\ [AppsNext]_appsVars /\ [SmbNext]_smbVars
  BY DEF ScreensNext, screensVars

(* Every variable of the screens keeps its type, a queue its bound, and    *)
(* menuSemaId is the worker's exactly while it reads or writes settings.   *)
THEOREM ScreensKeepTypes == ScreensSpec => []ScreensTypeOK
<1> DEFINE Inv == GcInv /\ AppsInv /\ SmbInv
<1>1. ScreensInit => Inv
  BY GcStart, AppsStart, SmbStart DEF ScreensInit
<1>2. Inv /\ [ScreensNext]_screensVars => Inv'
  BY GcStep, AppsStep, SmbStep, ScreensSteps
<1>3. Inv => ScreensTypeOK
  BY DEF GcInv, AppsInv, SmbInv, ScreensTypeOK
<1> QED
  BY <1>1, <1>2, <1>3, PTL DEF ScreensSpec
=============================================================================
