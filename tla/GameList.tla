------------------------------ MODULE GameList ------------------------------
(***************************************************************************)
(* The list of the games of a device (src/supportbase.c): the scan of the  *)
(* directories CD and DVD with their cache games.bin, which saves mounting *)
(* every image at every scan, the games of ul.cfg, and the test that tells *)
(* whether a scan is due (ethsupport.c, bdmsupport.c).                     *)
(*                                                                         *)
(* A file is [id, name]: "name.iso" has the id NoId, the older form        *)
(* "id.name.iso" carries the id of the game, its startup, in front.  What  *)
(* is inside an image is a startup, or Bad when it cannot be mounted or    *)
(* has no SYSTEM.CNF.  The extension is a part of the name.                *)
(***************************************************************************)
EXTENDS Sequences, SequencesExt, FiniteSets, Integers

CONSTANTS
    GlDirs,        \* <<"CD", "DVD">>, in the order of the scan
    GlFiles,       \* directory -> the files that may be put there
    GlHeld,        \* name -> what an image of this name may hold
    Bad, NoId, NoBin,
    MaxGlEdits,    \* bound: changes made to the files by a computer
    MaxGlFaults    \* bound: failed reads and writes, power cuts

Paths == {GlDirs[i] : i \in DOMAIN GlDirs}

\* What an image may hold: one in the older form is never looked into.
Contents(f) == IF f.id = NoId THEN GlHeld[f.name] ELSE {f.id}

\* base_game_info_t, as far as a scan of a directory fills it in.
GlNames == {f.name : f \in UNION {GlFiles[p] : p \in Paths}} \cup {"ul"}
GlStartups == (UNION {Contents(f) : f \in UNION {GlFiles[p] : p \in Paths}}) \ {Bad}
GlEntry == [dir : Paths \cup {"ul"}, old : BOOLEAN, name : GlNames, startup : GlStartups \cup GlNames]

\* The directories differ, a file is its id and its name, and the marks are no
\* value of what they mark.
ASSUME GlConstants ==
    /\ GlDirs \in Seq(Paths) /\ GlDirs # <<>> /\ "ul" \notin Paths
    /\ \A i, j \in DOMAIN GlDirs : GlDirs[i] = GlDirs[j] => i = j
    /\ \A p \in Paths : /\ IsFiniteSet(GlFiles[p])
                        /\ \A f \in GlFiles[p] : f = [id |-> f.id, name |-> f.name] /\ f.id # Bad
    /\ NoBin \notin Seq(GlEntry)
    /\ {MaxGlEdits, MaxGlFaults} \subseteq Nat

VARIABLES
    smb,       \* the prefix of the device is "smb..."
    images,    \* directory -> (file -> what it holds)
    bin,       \* directory -> games.bin: a sequence of entries, or NoBin
    ul,        \* where ul.cfg is: "none", "root", or "UL" for UL/ul.cfg
    unseen,    \* directories whose time of change differs from the one kept
    ulSize,    \* bdmULSizePrev, ethULSizePrev
    phase,     \* "idle", the step of the scan of directory dir, or "ul"
    glDir,     \* index of the directory that is scanned
    dlist,     \* dlist_head
    count,     \* games found in this directory
    cache,     \* the loaded games.bin, or nothing
    games,     \* the list
    edits, faults,
    \* History, which no action reads:
    changed,   \* directories changed since the list had them
    uncached,  \* directories whose cache could not be written
    ever       \* directory -> the pairs of name and startup there were
glWorld == <<smb, images, ul, edits, ever>>
glLocals == <<phase, glDir, dlist, count, cache>>
glVars == <<glWorld, glLocals, bin, unseen, ulSize, games, faults, changed, uncached>>

Path == GlDirs[glDir]

\* sbCreatePath_name: the file an entry stands for.
FileOf(g) == [id |-> IF g.old THEN g.startup ELSE NoId, name |-> g.name]

GlTypeOK ==
    /\ smb \in BOOLEAN /\ ul \in {"none", "root", "UL"}
    /\ DOMAIN images = Paths /\ DOMAIN bin = Paths /\ DOMAIN ever = Paths
    /\ \A p \in Paths : /\ DOMAIN images[p] \subseteq GlFiles[p]
                        /\ \A f \in DOMAIN images[p] : images[p][f] \in GlStartups \cup {Bad}
                        /\ bin[p] = NoBin \/ bin[p] \in Seq(GlEntry)
    /\ unseen \subseteq Paths /\ changed \subseteq Paths /\ uncached \subseteq Paths
    /\ ulSize \in -2 .. 1 /\ phase \in {"idle", "read", "cache", "ul"}
    /\ glDir \in DOMAIN GlDirs /\ count \in 0 .. Len(dlist)
    /\ dlist \in Seq(GlEntry) /\ games \in Seq(GlEntry)
    /\ cache \in Seq(GlEntry)
    /\ edits \in 0 .. MaxGlEdits /\ faults \in 0 .. MaxGlFaults

NoImages == [f \in {} |-> Bad]

GlInit ==
    /\ smb \in BOOLEAN /\ images = [p \in Paths |-> NoImages] /\ bin = [p \in Paths |-> NoBin]
    /\ ul = "none" /\ unseen = Paths /\ ulSize = -2
    /\ phase = "idle" /\ glDir = 1 /\ dlist = <<>> /\ count = 0 /\ cache = <<>> /\ games = <<>>
    /\ edits = 0 /\ faults = 0 /\ changed = Paths /\ uncached = {} /\ ever = [p \in Paths |-> {}]

-----------------------------------------------------------------------------
\* Files are changed by a computer, over the network at any time, or while the
\* device is out of the console, after which nothing is kept of it
\* (bdmUpdateDeviceData).
Edit ==
    /\ edits < MaxGlEdits /\ edits' = edits + 1
    /\ smb \/ phase = "idle"
    /\ UNCHANGED <<smb, bin, glLocals, games, faults, uncached>>

Elsewhere == IF smb THEN UNCHANGED ulSize ELSE ulSize' = -2

PutImage(p, f, held) ==
    /\ Edit /\ UNCHANGED ul /\ Elsewhere
    /\ images' = [images EXCEPT ![p] = [g \in DOMAIN @ \cup {f} |-> IF g = f THEN held ELSE @[g]]]
    /\ ever' = [ever EXCEPT ![p] = @ \cup {<<f.name, IF f.id = NoId THEN held ELSE f.id>>}]
    \* Writing over a file of a share does not change its directory.
    /\ LET touched == IF smb /\ f \in DOMAIN images[p] THEN {} ELSE {p}
       IN /\ changed' = changed \cup touched
          /\ unseen' = IF smb THEN unseen \cup touched ELSE Paths

RemoveImage(p, f) ==
    /\ f \in DOMAIN images[p]
    /\ Edit /\ UNCHANGED <<ul, ever>> /\ Elsewhere
    /\ images' = [images EXCEPT ![p] = [g \in DOMAIN @ \ {f} |-> @[g]]]
    /\ changed' = changed \cup {p}
    /\ unseen' = IF smb THEN unseen \cup {p} ELSE Paths

MoveUl(place) ==
    /\ ul # place
    /\ Edit /\ UNCHANGED <<images, ever, changed>> /\ Elsewhere
    /\ ul' = place
    /\ unseen' = IF smb THEN unseen ELSE Paths

-----------------------------------------------------------------------------
\* sbIsSameSize: only the root's ul.cfg is looked at.
SameSize == ulSize = IF ul = "root" THEN 1 ELSE -1

\* ethNeedsUpdate, the end of bdmNeedsUpdate: keeps the directories' times.
NeedsUpdate ==
    /\ phase = "idle"
    /\ unseen' = {}
    /\ phase' = IF ulSize # -2 /\ unseen = {} /\ SameSize THEN "idle" ELSE "read"
    /\ glDir' = 1 /\ dlist' = <<>> /\ count' = 0 /\ cache' = <<>>
    /\ UNCHANGED <<glWorld, bin, ulSize, games, faults, changed, uncached>>

\* queryISOGameListCache: the entries whose name and extension are the file's,
\* whatever their format.
InCache(list, f) == {i \in DOMAIN list : list[i].name = f.name}

\* A mutant: the format stays the one of the cache.
FromCacheWhole(list, f) == [list[CHOOSE i \in InCache(list, f) : \A j \in InCache(list, f) : i <= j]
                            EXCEPT !.dir = Path]

\* The entry scanForISO makes of a file that is not in the older form.
FromCache(list, f) == [list[CHOOSE i \in InCache(list, f) : \A j \in InCache(list, f) : i <= j]
                       EXCEPT !.dir = Path, !.old = FALSE]

\* scanForISO: the files that make an entry.  An image that is not in the cache
\* must be mounted, but on a share.
Playable(list) ==
    {f \in DOMAIN images[Path] :
        f.id # NoId \/ InCache(list, f) # {} \/ smb \/ images[Path][f] # Bad}

\* scanForISO, one directory entry.
EntryOf(list, f) ==
    IF f.id # NoId THEN [dir |-> Path, old |-> TRUE, name |-> f.name, startup |-> f.id]
    ELSE IF InCache(list, f) # {} THEN FromCache(list, f)
    ELSE [dir |-> Path, old |-> FALSE, name |-> f.name,
          startup |-> IF smb THEN f.name ELSE images[Path][f]]

\* loadISOGameListCache: an empty file, and one that cannot be read, is none.
Loadable(file) == file # NoBin /\ file # <<>>

\* The games are put in front of those of the directory before.
Gathered(found) == found \o dlist

\* scanForISO: the cache is loaded and the directory read, in whatever order
\* the file system has it in.
ReadDir(readable) ==
    /\ phase = "read"
    /\ ~readable => Loadable(bin[Path]) /\ faults < MaxGlFaults
    /\ faults' = IF readable THEN faults ELSE faults + 1
    /\ cache' = IF readable /\ Loadable(bin[Path]) THEN bin[Path] ELSE <<>>
    /\ \E order \in SetToSeqs(Playable(cache')) :
         /\ dlist' = Gathered([i \in DOMAIN order |-> EntryOf(cache', order[i])])
         /\ count' = Len(order)
    /\ changed' = changed \ {Path}
    /\ phase' = "cache"
    /\ UNCHANGED <<glWorld, bin, unseen, ulSize, glDir, games, uncached>>

\* updateISOGameList: whether the first count games of the list differ from the
\* cache, by names and by their number.
Modified ==
    /\ count > 0
    /\ count # Len(cache) \/ \E i \in 1 .. count : InCache(cache, dlist[i]) = {}

NextDir ==
    /\ phase' = IF glDir = Len(GlDirs) THEN "ul" ELSE "read"
    /\ glDir' = IF glDir = Len(GlDirs) THEN 1 ELSE glDir + 1
    /\ cache' = <<>> /\ count' = 0
    /\ UNCHANGED <<glWorld, dlist, ulSize, games, changed>>

\* A new file changes the directory it is put in, where the server keeps times.
BinIs(p, file) ==
    /\ bin' = [bin EXCEPT ![p] = file]
    /\ unseen' = IF smb /\ (bin[p] = NoBin) # (file = NoBin) THEN unseen \cup {p} ELSE unseen

CacheKept ==
    /\ phase = "cache" /\ ~Modified /\ NextDir
    /\ UNCHANGED <<bin, unseen, faults, uncached>>

CacheWritten ==
    /\ phase = "cache" /\ Modified /\ NextDir
    /\ BinIs(Path, SubSeq(dlist, 1, count))
    /\ uncached' = uncached \ {Path} /\ UNCHANGED faults

\* The file cannot be opened, or not be written, and is removed.
CacheFails ==
    /\ phase = "cache" /\ Modified /\ NextDir
    /\ faults < MaxGlFaults /\ faults' = faults + 1
    /\ BinIs(Path, NoBin) \/ UNCHANGED <<bin, unseen>>
    /\ uncached' = uncached \cup {Path}

\* The power is cut while the cache is written: a part of it is on the device,
\* and the launcher starts anew.
PowerCut ==
    /\ phase = "cache" /\ Modified
    /\ faults < MaxGlFaults /\ faults' = faults + 1
    /\ \E n \in 0 .. count : bin' = [bin EXCEPT ![Path] = SubSeq(dlist, 1, n)]
    /\ unseen' = Paths /\ ulSize' = -2 /\ games' = <<>>
    /\ phase' = "idle" /\ glDir' = 1 /\ dlist' = <<>> /\ count' = 0 /\ cache' = <<>>
    /\ uncached' = uncached \cup {Path} /\ changed' = Paths
    /\ UNCHANGED glWorld

UlGame == [dir |-> "ul", old |-> FALSE, name |-> "ul", startup |-> "ul"]

\* The end of sbReadList: the games of ul.cfg, then those of the directories.
\* Without ul.cfg the size stays what it was, unless there are no games.
ReadUl ==
    /\ phase = "ul" /\ phase' = "idle"
    /\ games' = (IF ul = "none" THEN <<>> ELSE <<UlGame>>) \o dlist
    /\ ulSize' = CASE games' = <<>> -> -1 [] ul # "none" -> 1 [] OTHER -> ulSize
    /\ dlist' = <<>>
    /\ UNCHANGED <<glWorld, bin, unseen, glDir, count, cache, faults, changed, uncached>>

GlNext ==
    \/ \E p \in Paths : \E f \in GlFiles[p] :
         RemoveImage(p, f) \/ \E held \in Contents(f) : PutImage(p, f, held)
    \/ \E place \in {"none", "root", "UL"} : MoveUl(place)
    \/ NeedsUpdate \/ (\E readable \in BOOLEAN : ReadDir(readable))
    \/ CacheKept \/ CacheWritten \/ CacheFails \/ PowerCut \/ ReadUl

GlSpec == GlInit /\ [][GlNext]_glVars

-----------------------------------------------------------------------------
Of(p) == {i \in DOMAIN games : games[i].dir = p}

\* A directory that did not change since it was read is shown as it is: each
\* entry leads to a file (sbCreatePath), and each file that can be played has
\* one entry, whatever the cache held.
ListIsOfDirectory ==
    \A p \in Paths \ changed :
      phase = "idle" =>
        /\ \A i \in Of(p) : FileOf(games[i]) \in DOMAIN images[p]
        /\ \A f \in DOMAIN images[p] :
             LET n == Cardinality({i \in Of(p) : FileOf(games[i]) = f})
             IN n <= 1 /\ (n = 1 \/ (f.id = NoId /\ ~smb /\ images[p][f] = Bad))

\* The startup of a game, which names its settings and its art, is one that a
\* file of this name had in this directory: torn and old caches bring in none
\* of another game or directory.  On a share it is the name until it is needed.
StartupIsOfName ==
    \A i \in DOMAIN games :
      games[i].dir = "ul" \/ <<games[i].name, games[i].startup>> \in ever[games[i].dir]
                          \/ (smb /\ games[i].startup = games[i].name)

\* What is listed is cached, so that the next scan mounts no image, unless the
\* cache could not be written.
ListIsCached ==
    phase = "idle" =>
      \A i \in DOMAIN games :
        LET g == games[i]
        IN \/ g.dir = "ul" \/ g.dir \in uncached \cup changed
           \/ bin[g.dir] # NoBin /\ InCache(bin[g.dir], g) # {}

\* A change of a directory that the list does not show is noticed by the next
\* test, also when it was made while the scan ran (ethNeedsUpdate).
ChangeIsNoticed ==
    phase = "idle" => \A p \in changed : p \in unseen \/ ulSize = -2

\* The list of games follows the device, through its cache.
ListFollowsDevice == ListIsOfDirectory /\ StartupIsOfName /\ ListIsCached /\ ChangeIsNoticed
=============================================================================
