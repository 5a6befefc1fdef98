--------------------------- MODULE ArtCacheProofs ---------------------------
(***************************************************************************)
(* The loader thread of the artwork works alone, what it loads is shown    *)
(* for the game it was loaded for, and no texture is lost: for every list  *)
(* of games and any number of events (ArtCache).                           *)
(***************************************************************************)
EXTENDS ArtCache, SequenceTheorems, FiniteSetTheorems, WellFoundedInduction, TLAPS

(* There is a loader thread exactly while gPS5AsyncTexRunning is set; and  *)
(* a result that was not taken over yet (gPS5AsyncTexDone) excludes it, so *)
(* the completion, which clears both flags, never covers up a thread that  *)
(* is still at work.                                                       *)
LoaderInv ==
    /\ gPS5AsyncTexRunning \in BOOLEAN /\ gPS5AsyncTexDone \in BOOLEAN
    /\ loaders \in Seq({"cpu", "io"})
    /\ Len(loaders) = IF gPS5AsyncTexRunning THEN 1 ELSE 0
    /\ gPS5AsyncTexDone => ~gPS5AsyncTexRunning

(* Asking for a load starts a thread only when none is at work.            *)
LEMMA QueueKeepsOne ==
    ASSUME LoaderInv, NEW i, NEW k, QueueTextureLoad(i, k)
    PROVE  LoaderInv'
<1>1. CASE Queue(i, k)
  <2>1. ~gPS5AsyncTexRunning /\ ~gPS5AsyncTexDone /\ loaders = <<>>
    BY <1>1 DEF Queue, CanQueue, LoaderInv
  <2>2. PICK how \in {"cpu", "io"} : loaders' = Append(loaders, how)
    BY <1>1 DEF Queue
  <2>3. loaders' \in Seq({"cpu", "io"}) /\ Len(loaders') = 1
    BY <2>1, <2>2
  <2> QED
    BY <1>1, <2>1, <2>3 DEF Queue, LoaderInv
<1>2. CASE UNCHANGED async
  BY <1>2 DEF async, LoaderInv
<1> QED
  BY <1>1, <1>2 DEF QueueTextureLoad, ThreadFails

(* A loader that ends leaves none, and its result excludes a new one until *)
(* it is taken over.                                                       *)
LEMMA EndKeepsOne ==
    ASSUME LoaderInv, NEW n, NEW texture, LoaderEnds(n, texture)
    PROVE  LoaderInv'
<1>1. Len(loaders) = 1
  BY DEF LoaderEnds, LoaderInv
<1>2. loaders' \in [1..0 -> {"cpu", "io"}]
  <2>1. 1..(Len(loaders) - 1) = 1..0 /\ \A m \in 1..0 : FALSE
    BY <1>1
  <2>2. loaders' = [m \in 1..0 |-> loaders[IF m < n THEN m ELSE m + 1]]
    BY <2>1, Zenon DEF LoaderEnds
  <2> QED
    BY <2>1, <2>2
<1>3. loaders' \in Seq({"cpu", "io"})
  BY <1>2, SeqDef
<1>4. Len(loaders') = 0
  BY <1>2, <1>3, LenProperties
<1>5. gPS5AsyncTexDone' = TRUE /\ gPS5AsyncTexRunning' = FALSE
  BY DEF LoaderEnds
<1> QED
  BY <1>3, <1>4, <1>5 DEF LoaderInv

(* Every other step leaves the loader alone, or takes over a result.       *)
THEOREM LoaderInvariance == Spec => []LoaderInv
<1>1. Init => LoaderInv
  <2>1. <<>> \in Seq({"cpu", "io"}) /\ Len(<<>>) = 0
    OBVIOUS
  <2>2. Init => ~gPS5AsyncTexRunning /\ gPS5AsyncTexRunning \in BOOLEAN
    BY DEF Init
  <2>3. Init => ~gPS5AsyncTexDone /\ gPS5AsyncTexDone \in BOOLEAN /\ loaders = <<>>
    BY DEF Init
  <2> QED
    BY <2>1, <2>2, <2>3 DEF LoaderInv
<1>2. LoaderInv /\ [Next]_vars => LoaderInv'
  <2> SUFFICES ASSUME LoaderInv, [Next]_vars PROVE LoaderInv'
    OBVIOUS
  <2>1. CASE CompleteStale \/ CompleteLoad
    BY <2>1 DEF CompleteStale, CompleteLoad, LoaderInv
  <2>2. CASE DrawLogo
    BY <2>2, QueueKeepsOne DEF DrawLogo
  <2>3. CASE CardLoad
    BY <2>3, QueueKeepsOne DEF CardLoad
  <2>4. CASE Loader
    BY <2>4, EndKeepsOne DEF Loader
  <2>5. CASE UNCHANGED async
    BY <2>5 DEF async, LoaderInv
  <2>6. ASSUME Gui PROVE UNCHANGED async \/ CompleteStale \/ CompleteLoad \/ DrawLogo \/ CardLoad
    BY <2>6 DEF Gui, RecoverTimedOut, NoLoadEnded, ClearResolved, ClearSettled,
                ClearNothing, SelectFetch, SelectFill, SelectNothing, ClearRelisted,
                DrawNoLogo, CardFetch, CardFill, CardNothing, FrameEnd
  <2>7. ASSUME Download \/ User \/ Outside PROVE UNCHANGED async
    BY <2>7 DEF Download, Clearing, ClearStarts, ClearFrees, ClearMarks, ClearEnds,
                User, AbortDownload, RetryMissing, thmFree, Navigate, Outside
  <2>8. CASE UNCHANGED vars
    BY <2>5, <2>8 DEF vars
  <2> QED
    BY <2>1, <2>2, <2>3, <2>4, <2>5, <2>6, <2>7, <2>8 DEF Next
<1> QED
  BY <1>1, <1>2, PTL DEF Spec

(* The static stack and result of ps5LoadTextureThread are used by one     *)
(* thread at a time, whatever times out, is cleared, aborted or reloaded.  *)
THEOREM LoaderIsAlone == Spec => []OneLoader
<1>1. LoaderInv => OneLoader
  BY DEF LoaderInv, OneLoader
<1> QED
  BY <1>1, LoaderInvariance, PTL

-----------------------------------------------------------------------------
(* The textures of the cache.                                              *)

(* A texture is of the game and the kind it is kept for, and its entry     *)
(* says that it has it.                                                    *)
TexturesFit ==
    \A i \in 1..Len(gNetCache), k \in Kinds :
        LET e == gNetCache[i]
        IN  e.tex[k] # NULL => e.tex[k] = <<e.game, k>> /\ e.has[k] = 1

(* A load of the present generation is for the entry that asked for it,    *)
(* which is still there and has no texture yet; and it was asked for after *)
(* the download thread had cleared the cache.                              *)
LoadFits ==
    job # NoJob /\ job.generation = gPS5CacheGeneration =>
        /\ clearing = NoClearing /\ job.index \in 1..Len(gNetCache)
        /\ LET e == gNetCache[job.index]
           IN  job.path = <<e.game, job.kind>> /\ e.tex[job.kind] = NULL

(* What the download thread has passed holds no texture.                   *)
Passed(i, k) ==
    \/ i < clearing.at
    \/ i = clearing.at /\ clearing.kind = "logo" /\ k = "cover"
    \/ i = clearing.at /\ clearing.kind = k /\ clearing.freed
ClearedBehind ==
    clearing # NoClearing =>
        /\ clearing.at >= 1
        /\ \A i \in 1..Len(gNetCache), k \in Kinds : Passed(i, k) => gNetCache[i].tex[k] = NULL

(* The result is that of the load, and is there only until it is taken.    *)
ResultIsOfLoad ==
    /\ gPS5AsyncTex \in {NULL, job.path}
    /\ ~gPS5AsyncTexDone => gPS5AsyncTex = NULL
    /\ job.generation <= gPS5CacheGeneration
(* The entry that is being filled is the one that was found or made.       *)
FillFits ==
    frame \in {"selectStat", "cardStat"} /\ fill.index \in 1..Len(gNetCache) =>
        LET e == gNetCache[fill.index]
        IN  e.game = fill.game /\ \A k \in Kinds : e.tex[k] = NULL

(* A card is waited for only while there is one to draw, and a file only   *)
(* of a game.                                                              *)
FetchIsUnderWay ==
    /\ frame = "cardStat" => card <= Len(Cards)
    /\ frame \in {"selectStat", "cardStat"} => fill.game \in Games

ArtTypes == TypeOK /\ FetchIsUnderWay
ArtFits ==
    /\ TexturesFit /\ LoadFits /\ ClearedBehind
    /\ ResultIsOfLoad /\ FillFits /\ NoTextureIsLost
ArtInv == ArtTypes /\ LoaderInv /\ (~disturbed => ArtFits)

(* A slot of the cache that holds a texture.                               *)
Full(cache) == {s \in Slots(cache) : cache[s[1]].tex[s[2]] # NULL}

(* The cache keeps its entries and its textures, or loses some of them.    *)
Tamed(cache) ==
    /\ cache \in Seq(Entry) /\ Len(cache) = Len(gNetCache)
    /\ \A i \in 1..Len(gNetCache) :
          /\ cache[i].game = gNetCache[i].game
          /\ \A k \in Kinds : /\ cache[i].tex[k] \in {NULL, gNetCache[i].tex[k]}
                              /\ cache[i].tex[k] # NULL => cache[i].has[k] = 1

SameTextures(cache) ==
    \A i \in 1..Len(gNetCache), k \in Kinds : cache[i].tex[k] = gNetCache[i].tex[k]

-----------------------------------------------------------------------------
(* Counting textures.                                                      *)

(* There are two kinds of artwork.                                         *)
LEMMA KindsAreFinite == IsFiniteSet(Kinds)
<1>1. IsFiniteSet({"cover"})
  BY FS_Singleton
<1>2. IsFiniteSet({"cover"} \cup {"logo"})
  BY <1>1, FS_AddElement
<1>3. Kinds = {"cover"} \cup {"logo"}
  BY DEF Kinds
<1> QED
  BY <1>2, <1>3

(* The cache has finitely many slots, so its textures can be counted.      *)
LEMMA FullIsFinite ==
    ASSUME NEW cache, Len(cache) \in Nat
    PROVE  IsFiniteSet(Full(cache)) /\ Held(cache) = Cardinality(Full(cache)) /\ Held(cache) \in Nat
<1>1. IsFiniteSet(Kinds)
  BY KindsAreFinite
<1>2. IsFiniteSet(1..Len(cache))
  BY FS_Interval, 1 \in Int, Len(cache) \in Int
<1>3. IsFiniteSet(Slots(cache))
  BY <1>1, <1>2, FS_Product DEF Slots
<1>4. Full(cache) \in SUBSET Slots(cache)
  BY DEF Full
<1>5. IsFiniteSet(Full(cache))
  BY <1>3, <1>4, FS_Subset
<1>6. Held(cache) = Cardinality(Full(cache))
  BY DEF Held, Full
<1> QED
  BY <1>5, <1>6, FS_CardinalityType

(* An empty cache holds nothing, and neither does one whose slots are all  *)
(* empty.                                                                  *)
LEMMA NothingHeld ==
    ASSUME NEW cache, Len(cache) \in Nat,
           \A i \in 1..Len(cache), k \in Kinds : cache[i].tex[k] = NULL
    PROVE  Held(cache) = 0
<1>1. Full(cache) = {}
  BY DEF Full, Slots
<1> QED
  BY <1>1, FullIsFinite, FS_EmptySet

(* Caches with textures in the same places hold as many.                   *)
LEMMA HeldSame ==
    ASSUME NEW cache, NEW other, Len(cache) \in Nat, Len(other) = Len(cache),
           \A i \in 1..Len(cache), k \in Kinds : other[i].tex[k] = NULL <=> cache[i].tex[k] = NULL
    PROVE  Held(other) = Held(cache)
<1>1. Full(other) = Full(cache)
  BY DEF Full, Slots
<1> QED
  BY <1>1, FullIsFinite

(* One slot that is filled adds one texture.                               *)
LEMMA HeldMore ==
    ASSUME NEW cache, NEW other, Len(cache) \in Nat, Len(other) = Len(cache),
           NEW n \in 1..Len(cache), NEW kind \in Kinds,
           cache[n].tex[kind] = NULL, other[n].tex[kind] # NULL,
           \A i \in 1..Len(cache), k \in Kinds :
               <<i, k>> = <<n, kind>> \/ (other[i].tex[k] = NULL <=> cache[i].tex[k] = NULL)
    PROVE  Held(other) = Held(cache) + 1
<1>1. Full(other) = Full(cache) \cup {<<n, kind>>}
  BY DEF Full, Slots
<1>2. <<n, kind>> \notin Full(cache)
  BY DEF Full
<1>3. IsFiniteSet(Full(cache)) /\ Held(cache) = Cardinality(Full(cache)) /\ Held(other) = Cardinality(Full(other))
  BY FullIsFinite
<1> QED
  BY <1>1, <1>2, <1>3, FS_AddElement

(* What unloading gives back is what the cache holds, since an entry that  *)
(* has a texture says so.                                                  *)
LEMMA GivenIsHeld ==
    ASSUME TexturesFit
    PROVE  Given(gNetCache) = Held(gNetCache)
<1>1. {s \in Slots(gNetCache) : gNetCache[s[1]].has[s[2]] = 1 /\ gNetCache[s[1]].tex[s[2]] # NULL}
        = {s \in Slots(gNetCache) : gNetCache[s[1]].tex[s[2]] # NULL}
  BY DEF TexturesFit, Slots
<1> QED
  BY <1>1 DEF Given, Held

(* An entry of the cache that is reset takes its textures with it.         *)
LEMMA HeldLess ==
    ASSUME TexturesFit, Len(gNetCache) \in Nat, NEW other, Len(other) = Len(gNetCache),
           NEW n \in 1..Len(gNetCache),
           \A k \in Kinds : other[n].tex[k] = NULL,
           \A i \in 1..Len(gNetCache), k \in Kinds : i = n \/ other[i].tex[k] = gNetCache[i].tex[k]
    PROVE  Held(other) = Held(gNetCache) - Given(<<gNetCache[n]>>)
<1> DEFINE e == gNetCache[n]
           T == {k \in Kinds : e.tex[k] # NULL}
<1>1. Full(gNetCache) = Full(other) \cup ({n} \X T) /\ Full(other) \cap ({n} \X T) = {}
  BY DEF Full, Slots
<1>2. {s \in Slots(<<e>>) : <<e>>[s[1]].has[s[2]] = 1 /\ <<e>>[s[1]].tex[s[2]] # NULL} = {1} \X T
  <2>1. Slots(<<e>>) = {1} \X Kinds /\ <<e>>[1] = e
    BY DEF Slots
  <2>2. \A k \in Kinds : e.tex[k] # NULL => e.has[k] = 1
    BY DEF TexturesFit
  <2> HIDE DEF e
  <2> QED
    BY <2>1, <2>2
<1>3. Given(<<e>>) = Cardinality({1} \X T)
  BY <1>2 DEF Given
<1>4. IsFiniteSet(T)
  <2>1. IsFiniteSet(Kinds)
    BY KindsAreFinite
  <2>2. T \in SUBSET Kinds
    OBVIOUS
  <2> HIDE DEF T
  <2> QED
    BY <2>1, <2>2, FS_Subset
<1>5. /\ Cardinality({1} \X T) = Cardinality(T) /\ Cardinality({n} \X T) = Cardinality(T)
      /\ IsFiniteSet({n} \X T) /\ Cardinality(T) \in Nat
  <2> HIDE DEF T
  <2>1. IsFiniteSet({1}) /\ Cardinality({1}) = 1 /\ IsFiniteSet({n}) /\ Cardinality({n}) = 1
    BY FS_Singleton
  <2>2. Cardinality(T) \in Nat
    BY <1>4, FS_CardinalityType
  <2>3. /\ Cardinality({1} \X T) = Cardinality({1}) * Cardinality(T)
        /\ Cardinality({n} \X T) = Cardinality({n}) * Cardinality(T) /\ IsFiniteSet({n} \X T)
    BY <1>4, <2>1, FS_Product
  <2> QED
    BY <2>1, <2>2, <2>3
<1>6. /\ IsFiniteSet(Full(other)) /\ Held(other) = Cardinality(Full(other))
      /\ Held(gNetCache) = Cardinality(Full(gNetCache)) /\ Held(other) \in Nat
  BY FullIsFinite
<1> HIDE DEF T, e
<1>7. Cardinality(Full(gNetCache)) = Cardinality(Full(other)) + Cardinality({n} \X T) - Cardinality({})
  BY <1>1, <1>5, <1>6, FS_Union
<1> QED
  BY <1>3, <1>5, <1>6, <1>7, FS_EmptySet DEF e

-----------------------------------------------------------------------------
(* What the helpers do to entries.                                         *)

(* findNetCacheEntry gives the place of an entry of the game.              *)
LEMMA EntryIsFound ==
    ASSUME NEW g, Len(gNetCache) \in Nat, Found(g)
    PROVE  FindEntry(g) \in 1..Len(gNetCache) /\ gNetCache[FindEntry(g)].game = g
<1>1. Index(g) \subseteq Nat /\ Index(g) # {}
  BY DEF Found, Index
<1> DEFINE R == {p \in Nat \X Nat : p[1] < p[2]}
<1>2. IsWellFoundedOn(R, Nat)
  BY NatLessThanWellFounded, Zenon DEF OpToRel
<1>3. PICK i \in Index(g) : \A j \in Index(g) : i <= j
  <2> HIDE DEF R
  <2>1. PICK i \in Index(g) : \A j \in Index(g) : ~(<<j, i>> \in R)
    BY <1>1, <1>2, WFMin
  <2>2. \A a, b \in Nat : a < b => <<a, b>> \in R
    BY DEF R
  <2>3. ASSUME NEW j \in Index(g) PROVE i <= j
    <3>1. i \in Nat /\ j \in Nat
      BY <1>1
    <3>2. ~(j < i)
      BY <2>1, <2>2, <3>1
    <3> QED
      BY <3>1, <3>2
  <2> QED
    BY <2>1, <2>3
<1>4. FindEntry(g) \in Index(g)
  BY <1>3 DEF FindEntry
<1> QED
  BY <1>4 DEF Index

(* Unloading clears the textures of an entry that it has, and nothing      *)
(* else.                                                                   *)
LEMMA UnloadFact ==
    ASSUME NEW e \in Entry, NEW kinds
    PROVE  /\ Unload(e, kinds) \in Entry
           /\ Unload(e, kinds).game = e.game /\ Unload(e, kinds).path = e.path
           /\ \A k \in Kinds : LET gone == k \in kinds /\ e.has[k] = 1
                               IN  /\ Unload(e, kinds).has[k] = IF gone THEN 0 ELSE e.has[k]
                                   /\ Unload(e, kinds).tex[k] = IF gone THEN NULL ELSE e.tex[k]
<1> DEFINE gone == {k \in kinds : e.has[k] = 1}
           h == [k \in Kinds |-> IF k \in gone THEN 0 ELSE e.has[k]]
           t == [k \in Kinds |-> IF k \in gone THEN NULL ELSE e.tex[k]]
<1>1. Unload(e, kinds) = [e EXCEPT !.has = h, !.tex = t]
  BY DEF Unload
<1>2. h \in [Kinds -> {0, 1, -1, LOADING}] /\ t \in [Kinds -> Textures \cup {NULL}]
  BY DEF Entry
<1>3. \A k \in Kinds : /\ h[k] = IF k \in kinds /\ e.has[k] = 1 THEN 0 ELSE e.has[k]
                       /\ t[k] = IF k \in kinds /\ e.has[k] = 1 THEN NULL ELSE e.tex[k]
  OBVIOUS
<1> HIDE DEF h, t
<1>4. /\ [e EXCEPT !.has = h, !.tex = t] \in Entry
      /\ [e EXCEPT !.has = h, !.tex = t].game = e.game /\ [e EXCEPT !.has = h, !.tex = t].path = e.path
      /\ [e EXCEPT !.has = h, !.tex = t].has = h /\ [e EXCEPT !.has = h, !.tex = t].tex = t
  BY <1>2 DEF Entry
<1> QED
  BY <1>1, <1>3, <1>4

(* An entry is replaced by one of its game, and the others stay.           *)
LEMMA EntryIsSet ==
    ASSUME gNetCache \in Seq(Entry), NEW i \in 1..Len(gNetCache), NEW e \in Entry,
           NEW cache, cache = [gNetCache EXCEPT ![i] = e]
    PROVE  /\ cache \in Seq(Entry) /\ Len(cache) = Len(gNetCache) /\ cache[i] = e
           /\ \A j \in 1..Len(gNetCache) : j # i => cache[j] = gNetCache[j]
BY ExceptSeq

(* Entries are changed one by one.                                         *)
LEMMA EntriesAreMapped ==
    ASSUME gNetCache \in Seq(Entry), NEW cache, cache = [i \in 1..Len(gNetCache) |-> cache[i]],
           \A i \in 1..Len(gNetCache) : cache[i] \in Entry
    PROVE  cache \in Seq(Entry) /\ Len(cache) = Len(gNetCache)
<1>1. cache \in [1..Len(gNetCache) -> Entry] /\ Len(gNetCache) \in Nat
  OBVIOUS
<1>2. cache \in Seq(Entry)
  BY <1>1, SeqDef
<1> QED
  BY <1>1, <1>2, LenProperties

(* The state of one texture is set.                                        *)
LEMMA HasIsSet ==
    ASSUME gNetCache \in Seq(Entry), NEW i \in 1..Len(gNetCache), NEW k \in Kinds,
           NEW h \in {0, -1, LOADING}, NEW cache, cache = [gNetCache EXCEPT ![i].has[k] = h]
    PROVE  /\ cache \in Seq(Entry) /\ Len(cache) = Len(gNetCache)
           /\ \A j \in 1..Len(gNetCache) :
                /\ cache[j].game = gNetCache[j].game /\ cache[j].tex = gNetCache[j].tex
                /\ \A l \in Kinds : <<j, l>> # <<i, k>> => cache[j].has[l] = gNetCache[j].has[l]
<1> DEFINE e == [gNetCache[i] EXCEPT !.has[k] = h]
<1>1. gNetCache[i] \in Entry
  OBVIOUS
<1>2. /\ e \in Entry /\ e.game = gNetCache[i].game /\ e.tex = gNetCache[i].tex
      /\ \A l \in Kinds : l # k => e.has[l] = gNetCache[i].has[l]
  BY <1>1 DEF Entry
<1>3. cache = [gNetCache EXCEPT ![i] = e]
  OBVIOUS
<1> HIDE DEF e
<1>4. /\ cache \in Seq(Entry) /\ Len(cache) = Len(gNetCache) /\ cache[i] = e
      /\ \A j \in 1..Len(gNetCache) : j # i => cache[j] = gNetCache[j]
  BY <1>2, <1>3, EntryIsSet
<1> QED
  BY <1>2, <1>4

(* The same, of a texture that is not there: the cache is tamed.           *)
LEMMA HasIsTamed ==
    ASSUME gNetCache \in Seq(Entry), TexturesFit, NEW i \in 1..Len(gNetCache), NEW k \in Kinds,
           NEW h \in {0, -1, LOADING}, NEW cache, cache = [gNetCache EXCEPT ![i].has[k] = h],
           gNetCache[i].tex[k] = NULL
    PROVE  Tamed(cache) /\ SameTextures(cache)
<1>1. /\ cache \in Seq(Entry) /\ Len(cache) = Len(gNetCache)
      /\ \A j \in 1..Len(gNetCache) :
                /\ cache[j].game = gNetCache[j].game /\ cache[j].tex = gNetCache[j].tex
                /\ \A l \in Kinds : <<j, l>> # <<i, k>> => cache[j].has[l] = gNetCache[j].has[l]
  BY HasIsSet
<1>2. SameTextures(cache)
  BY <1>1 DEF SameTextures
<1>3. \A j \in 1..Len(gNetCache), l \in Kinds :
          /\ cache[j].tex[l] \in {NULL, gNetCache[j].tex[l]}
          /\ cache[j].tex[l] # NULL => cache[j].has[l] = 1
  BY <1>1 DEF TexturesFit
<1> QED
  BY <1>1, <1>2, <1>3 DEF Tamed

(* triggerNetFetch resets the entry it has found, or makes one.            *)
LEMMA FetchEffect ==
    ASSUME gNetCache \in Seq(Entry), NEW g \in Games, FetchReset(g)
    PROVE  /\ gNetCache' \in Seq(Entry)
           /\ fill' \in [index : Nat, game : Games] /\ fill'.game = g
           /\ fill'.index \in 1..Len(gNetCache') /\ gNetCache'[fill'.index].game = g
           /\ gNetCache'[fill'.index].has = [k \in Kinds |-> 0]
           /\ Found(g) => /\ Len(gNetCache') = Len(gNetCache) /\ fill'.index = FindEntry(g)
                          /\ gNetCache[fill'.index].game = g
                          /\ \A j \in 1..Len(gNetCache) : j # fill'.index => gNetCache'[j] = gNetCache[j]
                          /\ gNetCache'[fill'.index].tex = Unload(gNetCache[fill'.index], Kinds).tex
           /\ ~Found(g) => /\ Len(gNetCache') = Len(gNetCache) + 1 /\ fill'.index = Len(gNetCache) + 1
                           /\ \A j \in 1..Len(gNetCache) : gNetCache'[j] = gNetCache[j]
                           /\ \A k \in Kinds : gNetCache'[fill'.index].tex[k] = NULL
<1>0. Len(gNetCache) \in Nat
  OBVIOUS
<1>1. CASE Found(g)
  <2> DEFINE i == FindEntry(g)
             u == Unload(gNetCache[i], Kinds)
             none == [k \in Kinds |-> "none"]
             zero == [k \in Kinds |-> 0]
             e == [u EXCEPT !.path = none, !.has = zero]
  <2>1. i \in 1..Len(gNetCache) /\ gNetCache[i].game = g
    BY <1>0, <1>1, EntryIsFound
  <2>2. u \in Entry /\ u.game = g
    BY <2>1, UnloadFact
  <2>3. none \in [Kinds -> Paths] /\ zero \in [Kinds -> {0, 1, -1, LOADING}]
    BY DEF Paths
  <2>4. gNetCache' = [gNetCache EXCEPT ![i] = e] /\ fill' = [index |-> i, game |-> g]
    BY <1>1 DEF FetchReset
  <2> HIDE DEF u, none, zero
  <2>5. e \in Entry /\ e.game = g /\ e.has = zero /\ e.tex = u.tex
    BY <2>2, <2>3 DEF Entry
  <2> HIDE DEF e, i
  <2>6. /\ gNetCache' \in Seq(Entry) /\ Len(gNetCache') = Len(gNetCache) /\ gNetCache'[i] = e
        /\ \A j \in 1..Len(gNetCache) : j # i => gNetCache'[j] = gNetCache[j]
    BY <2>1, <2>4, <2>5, EntryIsSet
  <2> QED
    BY <1>0, <1>1, <2>1, <2>4, <2>5, <2>6 DEF i, u, zero
<1>2. CASE ~Found(g)
  <2>1. gNetCache' = Append(gNetCache, Empty(g)) /\ fill' = [index |-> Len(gNetCache) + 1, game |-> g]
    BY <1>2 DEF FetchReset
  <2>2. /\ Empty(g) \in Entry /\ Empty(g).game = g /\ \A k \in Kinds : Empty(g).tex[k] = NULL
        /\ Empty(g).has = [k \in Kinds |-> 0]
    BY DEF Empty, Entry, Paths
  <2>3. /\ gNetCache' \in Seq(Entry) /\ Len(gNetCache') = Len(gNetCache) + 1
        /\ gNetCache'[Len(gNetCache) + 1] = Empty(g)
        /\ \A j \in 1..Len(gNetCache) : gNetCache'[j] = gNetCache[j]
    BY <2>1, <2>2, AppendProperties
  <2> QED
    BY <1>0, <1>2, <2>1, <2>2, <2>3
<1> QED
  BY <1>1, <1>2

(* The rest of triggerNetFetch fills the entry and leaves its textures.    *)
LEMMA FillEffect ==
    ASSUME gNetCache \in Seq(Entry), fill.game \in Games, FetchFill
    PROVE  /\ gNetCache' \in Seq(Entry) /\ Len(gNetCache') = Len(gNetCache)
           /\ \A j \in 1..Len(gNetCache) : /\ gNetCache'[j].tex = gNetCache[j].tex
                                           /\ j # fill.index => gNetCache'[j] = gNetCache[j]
                                           /\ j = fill.index => gNetCache'[j].game = fill.game
<1>1. CASE fill.index \in 1..Len(gNetCache)
  <2> DEFINE path == [k \in Kinds |-> ArtPath(fill.game, k)]
             has == [k \in Kinds |-> IF ArtPath(fill.game, k) = "none" THEN -1 ELSE 0]
             e == [gNetCache[fill.index] EXCEPT !.game = fill.game, !.path = path, !.has = has]
  <2>1. path \in [Kinds -> Paths] /\ has \in [Kinds -> {0, 1, -1, LOADING}]
    BY DEF ArtPath, Paths
  <2>2. gNetCache' = [gNetCache EXCEPT ![fill.index] = e]
    BY <1>1 DEF FetchFill
  <2>3. gNetCache[fill.index] \in Entry
    BY <1>1
  <2> HIDE DEF path, has
  <2>4. e \in Entry /\ e.game = fill.game /\ e.tex = gNetCache[fill.index].tex
    BY <2>1, <2>3 DEF Entry
  <2> HIDE DEF e
  <2>5. /\ gNetCache' \in Seq(Entry) /\ Len(gNetCache') = Len(gNetCache) /\ gNetCache'[fill.index] = e
        /\ \A j \in 1..Len(gNetCache) : j # fill.index => gNetCache'[j] = gNetCache[j]
    BY <1>1, <2>2, <2>4, EntryIsSet
  <2> QED
    BY <2>4, <2>5
<1>2. CASE fill.index \notin 1..Len(gNetCache)
  BY <1>2 DEF FetchFill
<1> QED
  BY <1>1, <1>2

(* One entry is replaced by a tamed one.                                   *)
LEMMA OneIsTamed ==
    ASSUME gNetCache \in Seq(Entry), TexturesFit, NEW i \in 1..Len(gNetCache), NEW e \in Entry,
           e.game = gNetCache[i].game,
           \A k \in Kinds : /\ e.tex[k] \in {NULL, gNetCache[i].tex[k]}
                            /\ e.tex[k] # NULL => e.has[k] = 1,
           NEW cache, cache = [gNetCache EXCEPT ![i] = e]
    PROVE  Tamed(cache)
<1>1. /\ cache \in Seq(Entry) /\ Len(cache) = Len(gNetCache) /\ cache[i] = e
      /\ \A j \in 1..Len(gNetCache) : j # i => cache[j] = gNetCache[j]
  BY EntryIsSet
<1> QED
  BY <1>1 DEF Tamed, TexturesFit

(* A tamed cache, with the load, the generation and the download thread    *)
(* where they were, still fits.                                            *)
LEMMA TamedFits ==
    ASSUME gNetCache \in Seq(Entry), TexturesFit, LoadFits, ClearedBehind, Tamed(gNetCache'),
           job.kind \in Kinds, UNCHANGED <<job, gPS5CacheGeneration, clearing>>
    PROVE  TexturesFit' /\ LoadFits' /\ ClearedBehind'
<1>1. TexturesFit'
  BY DEF TexturesFit, Tamed
<1>2. ClearedBehind'
  BY DEF ClearedBehind, Tamed, Passed
<1>3. LoadFits'
  <2> SUFFICES ASSUME (job # NoJob /\ job.generation = gPS5CacheGeneration)' PROVE LoadFits'
    BY DEF LoadFits
  <2>1. job # NoJob /\ job.generation = gPS5CacheGeneration /\ NoJob' = NoJob
    BY DEF NoJob
  <2>2. gNetCache'[job.index].tex[job.kind] = NULL
    BY <2>1 DEF LoadFits, Tamed
  <2> QED
    BY <2>1, <2>2 DEF LoadFits, Tamed, NoJob, NoClearing
<1> QED
  BY <1>1, <1>2, <1>3

-----------------------------------------------------------------------------
(* Types.                                                                  *)

(* The bounds and the games are what the assumption says.                  *)
LEMMA ArtConstants ==
    /\ Len(Cards) \in Nat /\ Len(Cards) >= 1 /\ MaxLoads \in Nat /\ MaxEvents \in Nat
    /\ \A n \in 1..Len(Cards) : Cards[n] \in Games
BY ArtCacheAssumption DEF Games

(* What unloading gives back is a number.                                  *)
LEMMA GivenIsNumber ==
    ASSUME NEW cache, Len(cache) \in Nat
    PROVE  Given(cache) \in Nat
<1> DEFINE T == {s \in Slots(cache) : cache[s[1]].has[s[2]] = 1 /\ cache[s[1]].tex[s[2]] # NULL}
<1>1. IsFiniteSet(Full(cache))
  BY FullIsFinite
<1>2. T \in SUBSET Full(cache)
  BY DEF Full
<1>3. Given(cache) = Cardinality(T)
  BY DEF Given
<1> HIDE DEF T
<1> QED
  BY <1>1, <1>2, <1>3, FS_Subset, FS_CardinalityType

(* The result of a load is put into an entry.                              *)
LEMMA InstallEffect ==
    ASSUME gPS5AsyncTex \in Textures \cup {NULL}, NEW e \in Entry, NEW k \in Kinds
    PROVE  /\ Install(e, k) \in Entry /\ Install(e, k).game = e.game
           /\ \A l \in Kinds : l # k => /\ Install(e, k).tex[l] = e.tex[l]
                                        /\ Install(e, k).has[l] = e.has[l]
           /\ gPS5AsyncTex # NULL => Install(e, k).tex[k] = gPS5AsyncTex /\ Install(e, k).has[k] = 1
           /\ gPS5AsyncTex = NULL => Install(e, k).tex[k] = e.tex[k]
<1>1. CASE gPS5AsyncTex # NULL
  BY <1>1 DEF Install, Entry
<1>2. CASE gPS5AsyncTex = NULL /\ k = "cover" /\ e.game \in BuiltIn /\ e.path["cover"] # "embedded"
  <2> DEFINE p == [e.path EXCEPT !["cover"] = "embedded"]
             h == [e.has EXCEPT !["cover"] = 0]
  <2>1. Install(e, k) = [e EXCEPT !.path = p, !.has = h]
    BY <1>2 DEF Install
  <2>2. /\ p \in [Kinds -> Paths] /\ h \in [Kinds -> {0, 1, -1, LOADING}]
        /\ \A l \in Kinds : l # "cover" => h[l] = e.has[l]
    BY DEF Entry, Paths
  <2> HIDE DEF p, h
  <2>3. /\ [e EXCEPT !.path = p, !.has = h] \in Entry
        /\ [e EXCEPT !.path = p, !.has = h].game = e.game
        /\ [e EXCEPT !.path = p, !.has = h].tex = e.tex
        /\ [e EXCEPT !.path = p, !.has = h].has = h
    BY <2>2 DEF Entry
  <2> QED
    BY <1>2, <2>1, <2>2, <2>3
<1>3. CASE gPS5AsyncTex = NULL /\ ~(k = "cover" /\ e.game \in BuiltIn /\ e.path["cover"] # "embedded")
  <2>1. Install(e, k) = [e EXCEPT !.has[k] = -1]
    BY <1>3 DEF Install
  <2> QED
    BY <1>3, <2>1 DEF Entry
<1> QED
  BY <1>1, <1>2, <1>3

(* The whole cache, after the load of a texture.                           *)
LEMMA CompleteEffect ==
    ASSUME TypeOK, CompleteLoad
    PROVE  LET e == Install(gNetCache[job.index], job.kind)
           IN  /\ job.index \in 1..Len(gNetCache) /\ job.kind \in Kinds /\ e \in Entry
               /\ gNetCache' \in Seq(Entry) /\ Len(gNetCache') = Len(gNetCache) /\ gNetCache'[job.index] = e
               /\ \A j \in 1..Len(gNetCache) : j # job.index => gNetCache'[j] = gNetCache[j]
<1> DEFINE e == Install(gNetCache[job.index], job.kind)
<1>1. job.index \in 1..Len(gNetCache) /\ job.kind \in Kinds /\ gNetCache \in Seq(Entry)
  BY DEF CompleteLoad, Stale, TypeOK
<1>2. gNetCache[job.index] \in Entry
  BY <1>1
<1>3. e \in Entry
  BY <1>1, <1>2, InstallEffect DEF TypeOK
<1>4. gNetCache' = [gNetCache EXCEPT ![job.index] = e]
  BY DEF CompleteLoad
<1> HIDE DEF e
<1>5. /\ gNetCache' \in Seq(Entry) /\ Len(gNetCache') = Len(gNetCache) /\ gNetCache'[job.index] = e
      /\ \A j \in 1..Len(gNetCache) : j # job.index => gNetCache'[j] = gNetCache[j]
  BY <1>1, <1>3, <1>4, EntryIsSet
<1> QED
  BY <1>1, <1>3, <1>5 DEF e

(* A sweep unloads what was not seen.                                      *)
LEMMA SweepEffect ==
    ASSUME gNetCache \in Seq(Entry), NEW settle, NEW sweep, FrameEnd(settle, sweep)
    PROVE  /\ gNetCache' \in Seq(Entry) /\ Len(gNetCache') = Len(gNetCache)
           /\ allocated' = allocated - (Held(gNetCache) - Held(gNetCache'))
           /\ \A i \in 1..Len(gNetCache) :
                 gNetCache'[i] \in {gNetCache[i], Unload(gNetCache[i], Unseen(gNetCache[i]))}
<1> DEFINE kept == [i \in 1..Len(gNetCache) |->
                      IF sweep THEN Unload(gNetCache[i], Unseen(gNetCache[i])) ELSE gNetCache[i]]
<1>1. gNetCache' = kept /\ allocated' = allocated - (Held(gNetCache) - Held(kept))
  BY DEF FrameEnd
<1>2. \A i \in 1..Len(gNetCache) :
          /\ kept[i] \in {gNetCache[i], Unload(gNetCache[i], Unseen(gNetCache[i]))}
          /\ gNetCache[i] \in Entry
  OBVIOUS
<1>3. \A i \in 1..Len(gNetCache) : kept[i] \in Entry
  BY <1>2, UnloadFact
<1>4. kept = [i \in 1..Len(gNetCache) |-> kept[i]]
  OBVIOUS
<1> HIDE DEF kept
<1>5. kept \in Seq(Entry) /\ Len(kept) = Len(gNetCache)
  BY <1>3, <1>4, EntriesAreMapped
<1> QED
  BY <1>1, <1>2, <1>5

(* A retry leaves the textures that are there.                             *)
LEMMA RetryEffect ==
    ASSUME gNetCache \in Seq(Entry), RetryMissing
    PROVE  /\ gNetCache' \in Seq(Entry) /\ Len(gNetCache') = Len(gNetCache)
           /\ \A i \in 1..Len(gNetCache) :
                 /\ gNetCache'[i].game = gNetCache[i].game /\ gNetCache'[i].tex = gNetCache[i].tex
                 /\ \A k \in Kinds : gNetCache[i].has[k] = 1 => gNetCache'[i].has[k] = 1
<1> DEFINE h(i) == [k \in Kinds |-> IF gNetCache[i].path[k] # "none" /\ gNetCache[i].has[k] # 1
                                     THEN 0 ELSE gNetCache[i].has[k]]
           e(i) == [gNetCache[i] EXCEPT !.has = h(i)]
<1>1. gNetCache' = [i \in 1..Len(gNetCache) |-> e(i)]
  BY DEF RetryMissing
<1>2. ASSUME NEW i \in 1..Len(gNetCache)
      PROVE  /\ gNetCache'[i] \in Entry
             /\ gNetCache'[i].game = gNetCache[i].game /\ gNetCache'[i].tex = gNetCache[i].tex
             /\ \A k \in Kinds : gNetCache[i].has[k] = 1 => gNetCache'[i].has[k] = 1
  <2>1. gNetCache[i] \in Entry /\ gNetCache'[i] = e(i)
    BY <1>1
  <2>2. h(i) \in [Kinds -> {0, 1, -1, LOADING}] /\ \A k \in Kinds : gNetCache[i].has[k] = 1 => h(i)[k] = 1
    BY <2>1 DEF Entry
  <2> HIDE DEF h
  <2>3. e(i) \in Entry /\ e(i).game = gNetCache[i].game /\ e(i).tex = gNetCache[i].tex /\ e(i).has = h(i)
    BY <2>1, <2>2 DEF Entry
  <2> QED
    BY <2>1, <2>2, <2>3
<1>3. gNetCache' = [i \in 1..Len(gNetCache) |-> gNetCache'[i]]
  BY <1>1
<1> HIDE DEF e
<1>4. gNetCache' \in Seq(Entry) /\ Len(gNetCache') = Len(gNetCache)
  BY <1>2, <1>3, EntriesAreMapped
<1> QED
  BY <1>2, <1>4

(* The download thread takes one texture.                                  *)
LEMMA TakeEffect ==
    ASSUME gNetCache \in Seq(Entry), NEW i \in 1..Len(gNetCache), NEW k \in Kinds,
           gNetCache' = [gNetCache EXCEPT ![i].tex[k] = NULL]
    PROVE  /\ gNetCache' \in Seq(Entry) /\ Len(gNetCache') = Len(gNetCache) /\ gNetCache'[i].tex[k] = NULL
           /\ \A j \in 1..Len(gNetCache) :
                /\ gNetCache'[j].game = gNetCache[j].game /\ gNetCache'[j].has = gNetCache[j].has
                /\ \A l \in Kinds : <<j, l>> # <<i, k>> => gNetCache'[j].tex[l] = gNetCache[j].tex[l]
<1> DEFINE e == [gNetCache[i] EXCEPT !.tex[k] = NULL]
<1>1. gNetCache[i] \in Entry
  OBVIOUS
<1>2. /\ e \in Entry /\ e.game = gNetCache[i].game /\ e.has = gNetCache[i].has /\ e.tex[k] = NULL
      /\ \A l \in Kinds : l # k => e.tex[l] = gNetCache[i].tex[l]
  BY <1>1 DEF Entry
<1>3. gNetCache' = [gNetCache EXCEPT ![i] = e]
  OBVIOUS
<1> HIDE DEF e
<1>4. /\ gNetCache' \in Seq(Entry) /\ Len(gNetCache') = Len(gNetCache) /\ gNetCache'[i] = e
      /\ \A j \in 1..Len(gNetCache) : j # i => gNetCache'[j] = gNetCache[j]
  BY <1>2, <1>3, EntryIsSet
<1>5. ASSUME NEW j \in 1..Len(gNetCache)
      PROVE  /\ gNetCache'[j].game = gNetCache[j].game /\ gNetCache'[j].has = gNetCache[j].has
             /\ \A l \in Kinds : <<j, l>> # <<i, k>> => gNetCache'[j].tex[l] = gNetCache[j].tex[l]
  <2>1. CASE j = i
    BY <1>2, <1>4, <2>1, Zenon
  <2>2. CASE j # i
    BY <1>4, <1>5, <2>2, Zenon
  <2> QED
    BY <2>1, <2>2
<1>6. gNetCache'[i].tex[k] = NULL
  BY <1>2, <1>4, Zenon
<1> QED
  BY <1>4, <1>5, <1>6, Zenon

(* The cache stays a sequence of entries.                                  *)
LEMMA CacheKeepsType ==
    ASSUME ArtTypes, [Next]_vars
    PROVE  gNetCache' \in Seq(Entry)
<1>0. /\ gNetCache \in Seq(Entry) /\ Len(gNetCache) \in Nat /\ selected \in Games
      /\ card \in Nat /\ card >= 1 /\ clearing.kind \in Kinds /\ job.kind \in Kinds
  BY ArtConstants DEF ArtTypes, TypeOK
<1> DEFINE Goal == gNetCache' \in Seq(Entry)
<1>1. ASSUME CompleteStale PROVE Goal
  BY <1>0, <1>1 DEF CompleteStale
<1>2. ASSUME CompleteLoad PROVE Goal
  BY <1>2, CompleteEffect DEF ArtTypes
<1>3. ASSUME RecoverTimedOut PROVE Goal
  <2>1. CASE ~Stale /\ gNetCache[job.index].has[job.kind] = LOADING
    <3>1. gNetCache' = [gNetCache EXCEPT ![job.index].has[job.kind] = 0]
      BY <1>3, <2>1, Zenon DEF RecoverTimedOut
    <3>2. job.index \in 1..Len(gNetCache)
      BY <2>1 DEF Stale
    <3> QED
      BY <1>0, <3>1, <3>2, HasIsSet
  <2>2. CASE ~(~Stale /\ gNetCache[job.index].has[job.kind] = LOADING)
    BY <1>0, <1>3, <2>2, Zenon DEF RecoverTimedOut
  <2> QED
    BY <2>1, <2>2
<1>4. ASSUME NoLoadEnded PROVE Goal
  BY <1>0, <1>4 DEF NoLoadEnded
<1>5. ASSUME ClearResolved PROVE Goal
  BY <1>0, <1>5 DEF ClearResolved, clearNetCache
<1>6. ASSUME ClearSettled PROVE Goal
  BY <1>0, <1>6 DEF ClearSettled, clearNetCache
<1>7. ASSUME ClearNothing PROVE Goal
  BY <1>0, <1>7 DEF ClearNothing
<1>8. ASSUME SelectFetch PROVE Goal
  BY <1>0, <1>8, FetchEffect DEF SelectFetch
<1>9. ASSUME SelectFill PROVE Goal
  BY <1>0, <1>9, FillEffect DEF SelectFill, ArtTypes, FetchIsUnderWay
<1>10. ASSUME SelectNothing PROVE Goal
  BY <1>0, <1>10 DEF SelectNothing
<1>11. ASSUME ClearRelisted PROVE Goal
  BY <1>0, <1>11 DEF ClearRelisted, clearNetCache
<1>12. ASSUME DrawLogo PROVE Goal
  <2> DEFINE i == FindEntry(selected)
  <2>1. i \in 1..Len(gNetCache)
    BY <1>0, <1>12, EntryIsFound DEF DrawLogo, WantsLogo
  <2>2. gNetCache' = gNetCache \/ gNetCache' = [gNetCache EXCEPT ![i].has["logo"] = LOADING]
    BY <1>12 DEF DrawLogo, QueueTextureLoad, Queue, ThreadFails
  <2> HIDE DEF i
  <2> QED
    BY <1>0, <2>1, <2>2, HasIsSet DEF Kinds
<1>13. ASSUME DrawNoLogo PROVE Goal
  BY <1>0, <1>13 DEF DrawNoLogo
<1>14. ASSUME CardLoad PROVE Goal
  <2> DEFINE i == FindEntry(CardGame)
  <2>1. i \in 1..Len(gNetCache)
    BY <1>0, <1>14, EntryIsFound DEF CardLoad, WantsCover
  <2>2. gNetCache' = gNetCache \/ gNetCache' = [gNetCache EXCEPT ![i].has["cover"] = LOADING]
    BY <1>14 DEF CardLoad, QueueTextureLoad, Queue, ThreadFails
  <2> HIDE DEF i
  <2> QED
    BY <1>0, <2>1, <2>2, HasIsSet DEF Kinds
<1>15. ASSUME CardFetch PROVE Goal
  <2>1. CardGame \in Games
    BY <1>0, <1>15, ArtConstants DEF CardFetch, Drawing, CardGame
  <2> QED
    BY <1>0, <1>15, <2>1, FetchEffect DEF CardFetch
<1>16. ASSUME CardFill PROVE Goal
  BY <1>0, <1>16, FillEffect DEF CardFill, ArtTypes, FetchIsUnderWay
<1>17. ASSUME CardNothing PROVE Goal
  BY <1>0, <1>17 DEF CardNothing
<1>18. ASSUME NEW settle \in BOOLEAN, NEW sweep \in BOOLEAN, FrameEnd(settle, sweep) PROVE Goal
  BY <1>0, <1>18, SweepEffect
<1>19. ASSUME NEW n \in 1..Len(loaders), NEW texture \in {job.path, NULL}, LoaderEnds(n, texture) PROVE Goal
  BY <1>0, <1>19 DEF LoaderEnds
<1>20. ASSUME ClearStarts PROVE Goal
  BY <1>0, <1>20 DEF ClearStarts
<1>21. ASSUME ClearFrees PROVE Goal
  <2>1. gNetCache' = gNetCache
        \/ /\ clearing.at \in 1..Len(gNetCache)
           /\ gNetCache' = [gNetCache EXCEPT ![clearing.at].tex[clearing.kind] = NULL]
    BY <1>21 DEF ClearFrees
  <2> QED
    BY <1>0, <2>1, TakeEffect
<1>22. ASSUME ClearMarks PROVE Goal
  <2>1. gNetCache' = gNetCache
        \/ /\ clearing.at \in 1..Len(gNetCache)
           /\ gNetCache' = [gNetCache EXCEPT ![clearing.at].has[clearing.kind] = 0]
    BY <1>22 DEF ClearMarks
  <2> QED
    BY <1>0, <2>1, HasIsSet
<1>23. ASSUME ClearEnds PROVE Goal
  BY <1>0, <1>23 DEF ClearEnds
<1>24. ASSUME AbortDownload PROVE Goal
  BY <1>0, <1>24 DEF AbortDownload
<1>25. ASSUME RetryMissing PROVE Goal
  BY <1>0, <1>25, RetryEffect
<1>26. ASSUME thmFree PROVE Goal
  BY <1>0, <1>26 DEF thmFree
<1>27. ASSUME NEW g \in Games, NEW window \in SUBSET Games, Navigate(g, window) PROVE Goal
  BY <1>0, <1>27 DEF Navigate
<1>28. ASSUME Outside PROVE Goal
  BY <1>0, <1>28 DEF Outside
<1>29. ASSUME UNCHANGED vars PROVE Goal
  BY <1>0, <1>29 DEF vars
<1> QED
  BY <1>1, <1>2, <1>3, <1>4, <1>5, <1>6, <1>7, <1>8, <1>9, <1>10, <1>11, <1>12,
     <1>13, <1>14, <1>15, <1>16, <1>17, <1>18, <1>19, <1>20, <1>21, <1>22,
     <1>23, <1>24, <1>25, <1>26, <1>27, <1>28, <1>29 DEF Next, Gui, Loader,
     Download, Clearing, User

(* The number of textures stays a number.                                  *)
LEMMA CountKeepsType ==
    ASSUME ArtTypes, [Next]_vars
    PROVE  allocated' \in Int
<1>0. gNetCache \in Seq(Entry) /\ Len(gNetCache) \in Nat /\ allocated \in Int
  BY DEF ArtTypes, TypeOK
<1>00. Given(gNetCache) \in Int /\ Held(gNetCache) \in Int
  BY <1>0, GivenIsNumber, FullIsFinite
<1>01. ASSUME NEW g, FetchReset(g) PROVE allocated' \in Int
  <2>1. Len(<<gNetCache[FindEntry(g)]>>) \in Nat
    OBVIOUS
  <2>2. Given(<<gNetCache[FindEntry(g)]>>) \in Nat
    BY <2>1, GivenIsNumber
  <2> QED
    BY <1>0, <1>01, <2>2 DEF FetchReset
<1> DEFINE Goal == allocated' \in Int
<1>1. ASSUME CompleteStale PROVE Goal
  BY <1>0, <1>00, <1>1 DEF CompleteStale
<1>2. ASSUME CompleteLoad PROVE Goal
  BY <1>0, <1>00, <1>2 DEF CompleteLoad
<1>3. ASSUME RecoverTimedOut PROVE Goal
  BY <1>0, <1>00, <1>3 DEF RecoverTimedOut
<1>4. ASSUME NoLoadEnded PROVE Goal
  BY <1>0, <1>00, <1>4 DEF NoLoadEnded
<1>5. ASSUME ClearResolved PROVE Goal
  BY <1>0, <1>00, <1>5 DEF ClearResolved, clearNetCache
<1>6. ASSUME ClearSettled PROVE Goal
  BY <1>0, <1>00, <1>6 DEF ClearSettled, clearNetCache
<1>7. ASSUME ClearNothing PROVE Goal
  BY <1>0, <1>00, <1>7 DEF ClearNothing
<1>8. ASSUME SelectFetch PROVE Goal
  BY <1>01, <1>8 DEF SelectFetch
<1>9. ASSUME SelectFill PROVE Goal
  BY <1>0, <1>00, <1>9 DEF SelectFill
<1>10. ASSUME SelectNothing PROVE Goal
  BY <1>0, <1>00, <1>10 DEF SelectNothing
<1>11. ASSUME ClearRelisted PROVE Goal
  BY <1>0, <1>00, <1>11 DEF ClearRelisted, clearNetCache
<1>12. ASSUME DrawLogo PROVE Goal
  BY <1>0, <1>00, <1>12 DEF DrawLogo
<1>13. ASSUME DrawNoLogo PROVE Goal
  BY <1>0, <1>00, <1>13 DEF DrawNoLogo
<1>14. ASSUME CardLoad PROVE Goal
  BY <1>0, <1>00, <1>14 DEF CardLoad
<1>15. ASSUME CardFetch PROVE Goal
  BY <1>01, <1>15 DEF CardFetch
<1>16. ASSUME CardFill PROVE Goal
  BY <1>0, <1>00, <1>16 DEF CardFill
<1>17. ASSUME CardNothing PROVE Goal
  BY <1>0, <1>00, <1>17 DEF CardNothing
<1>18. ASSUME NEW settle \in BOOLEAN, NEW sweep \in BOOLEAN, FrameEnd(settle, sweep) PROVE Goal
  <2>1. allocated' = allocated - (Held(gNetCache) - Held(gNetCache')) /\ Len(gNetCache') \in Nat
    BY <1>0, <1>18, SweepEffect
  <2>2. Held(gNetCache') \in Int
    BY <2>1, FullIsFinite
  <2> QED
    BY <1>0, <1>00, <2>1, <2>2
<1>19. ASSUME NEW n \in 1..Len(loaders), NEW texture \in {job.path, NULL}, LoaderEnds(n, texture) PROVE Goal
  BY <1>0, <1>00, <1>19 DEF LoaderEnds
<1>20. ASSUME ClearStarts PROVE Goal
  BY <1>0, <1>00, <1>20 DEF ClearStarts
<1>21. ASSUME ClearFrees PROVE Goal
  BY <1>0, <1>00, <1>21 DEF ClearFrees
<1>22. ASSUME ClearMarks PROVE Goal
  BY <1>0, <1>00, <1>22 DEF ClearMarks
<1>23. ASSUME ClearEnds PROVE Goal
  BY <1>0, <1>00, <1>23 DEF ClearEnds
<1>24. ASSUME AbortDownload PROVE Goal
  BY <1>0, <1>00, <1>24 DEF AbortDownload
<1>25. ASSUME RetryMissing PROVE Goal
  BY <1>0, <1>00, <1>25 DEF RetryMissing
<1>26. ASSUME thmFree PROVE Goal
  BY <1>0, <1>00, <1>26 DEF thmFree
<1>27. ASSUME NEW g \in Games, NEW window \in SUBSET Games, Navigate(g, window) PROVE Goal
  BY <1>0, <1>00, <1>27 DEF Navigate
<1>28. ASSUME Outside PROVE Goal
  BY <1>0, <1>00, <1>28 DEF Outside
<1>29. ASSUME UNCHANGED vars PROVE Goal
  BY <1>0, <1>00, <1>29 DEF vars
<1> QED
  BY <1>1, <1>2, <1>3, <1>4, <1>5, <1>6, <1>7, <1>8, <1>9, <1>10, <1>11, <1>12,
     <1>13, <1>14, <1>15, <1>16, <1>17, <1>18, <1>19, <1>20, <1>21, <1>22,
     <1>23, <1>24, <1>25, <1>26, <1>27, <1>28, <1>29 DEF Next, Gui, Loader,
     Download, Clearing, User

(* The flags stay Boolean.                                                 *)
LEMMA FlagsKeepTypes ==
    ASSUME ArtTypes, LoaderInv, [Next]_vars
    PROVE  /\ settled' \in BOOLEAN /\ navigating' \in BOOLEAN /\ connected' \in BOOLEAN
           /\ bdmPending' \in BOOLEAN /\ gPS5ArtworkResolveDirty' \in BOOLEAN /\ relisted' \in BOOLEAN
           /\ disturbed' \in BOOLEAN /\ gPS5AsyncTexRunning' \in BOOLEAN /\ gPS5AsyncTexDone' \in BOOLEAN
<1> DEFINE Goal == /\ settled' \in BOOLEAN /\ navigating' \in BOOLEAN /\ connected' \in BOOLEAN
           /\ bdmPending' \in BOOLEAN /\ gPS5ArtworkResolveDirty' \in BOOLEAN /\ relisted' \in BOOLEAN
           /\ disturbed' \in BOOLEAN /\ gPS5AsyncTexRunning' \in BOOLEAN /\ gPS5AsyncTexDone' \in BOOLEAN
<1>0. /\ settled \in BOOLEAN /\ navigating \in BOOLEAN /\ connected \in BOOLEAN
      /\ bdmPending \in BOOLEAN /\ gPS5ArtworkResolveDirty \in BOOLEAN /\ relisted \in BOOLEAN
      /\ disturbed \in BOOLEAN /\ gPS5AsyncTexRunning \in BOOLEAN /\ gPS5AsyncTexDone \in BOOLEAN
  BY DEF ArtTypes, TypeOK
<1>1. ASSUME CompleteStale PROVE Goal
  BY <1>0, <1>1 DEF CompleteStale, FrameStart, async, draw, user, why
<1>2. ASSUME CompleteLoad PROVE Goal
  BY <1>0, <1>2 DEF CompleteLoad, FrameStart, async, draw, user, why
<1>3. ASSUME RecoverTimedOut PROVE Goal
  BY <1>0, <1>3 DEF RecoverTimedOut, FrameStart, async, draw, user, why
<1>4. ASSUME NoLoadEnded PROVE Goal
  BY <1>0, <1>4 DEF NoLoadEnded, FrameStart, async, draw, user, why
<1>5. ASSUME ClearResolved PROVE Goal
  BY <1>0, <1>5 DEF ClearResolved, clearNetCache, async, draw, user, why
<1>6. ASSUME ClearSettled PROVE Goal
  BY <1>0, <1>6 DEF ClearSettled, clearNetCache, async, draw, user, why
<1>7. ASSUME ClearNothing PROVE Goal
  BY <1>0, <1>7 DEF ClearNothing, async, draw, user, why
<1>8. ASSUME SelectFetch PROVE Goal
  BY <1>0, <1>8 DEF SelectFetch, async, draw, user, why
<1>9. ASSUME SelectFill PROVE Goal
  BY <1>0, <1>9 DEF SelectFill, async, draw, user, why
<1>10. ASSUME SelectNothing PROVE Goal
  BY <1>0, <1>10 DEF SelectNothing, async, draw, user, why
<1>11. ASSUME ClearRelisted PROVE Goal
  BY <1>0, <1>11 DEF ClearRelisted, clearNetCache, async, draw, user, why
<1>12. ASSUME DrawLogo PROVE Goal
  BY <1>0, <1>12 DEF DrawLogo, QueueTextureLoad, Queue, ThreadFails, async,
     draw, user, why
<1>13. ASSUME DrawNoLogo PROVE Goal
  BY <1>0, <1>13 DEF DrawNoLogo, async, draw, user, why
<1>14. ASSUME CardLoad PROVE Goal
  BY <1>0, <1>14 DEF CardLoad, QueueTextureLoad, Queue, ThreadFails, async,
     draw, user, why
<1>15. ASSUME CardFetch PROVE Goal
  BY <1>0, <1>15 DEF CardFetch, async, draw, user, why
<1>16. ASSUME CardFill PROVE Goal
  BY <1>0, <1>16 DEF CardFill, async, draw, user, why
<1>17. ASSUME CardNothing PROVE Goal
  BY <1>0, <1>17 DEF CardNothing, async, draw, user, why
<1>18. ASSUME NEW settle \in BOOLEAN, NEW sweep \in BOOLEAN, FrameEnd(settle, sweep) PROVE Goal
  BY <1>0, <1>18 DEF FrameEnd, async, draw, user, why
<1>19. ASSUME NEW n \in 1..Len(loaders), NEW texture \in {job.path, NULL}, LoaderEnds(n, texture) PROVE Goal
  BY <1>0, <1>19 DEF LoaderEnds, async, draw, user, why
<1>20. ASSUME ClearStarts PROVE Goal
  BY <1>0, <1>20 DEF ClearStarts, async, draw, user, why
<1>21. ASSUME ClearFrees PROVE Goal
  BY <1>0, <1>21 DEF ClearFrees, async, draw, user, why
<1>22. ASSUME ClearMarks PROVE Goal
  BY <1>0, <1>22 DEF ClearMarks, async, draw, user, why
<1>23. ASSUME ClearEnds PROVE Goal
  BY <1>0, <1>23 DEF ClearEnds, async, draw, user, why
<1>24. ASSUME AbortDownload PROVE Goal
  BY <1>0, <1>24 DEF AbortDownload, async, draw, user, why
<1>25. ASSUME RetryMissing PROVE Goal
  BY <1>0, <1>25 DEF RetryMissing, Event, async, draw, user, why
<1>26. ASSUME thmFree PROVE Goal
  BY <1>0, <1>26 DEF thmFree, Event, async, draw, user, why
<1>27. ASSUME NEW g \in Games, NEW window \in SUBSET Games, Navigate(g, window) PROVE Goal
  BY <1>0, <1>27 DEF Navigate, Event, async, draw, user, why
<1>28. ASSUME Outside PROVE Goal
  BY <1>0, <1>28 DEF Outside, Event, async, draw, user, why
<1>29. ASSUME UNCHANGED vars PROVE Goal
  BY <1>0, <1>29 DEF vars, async, draw, user, why
<1> QED
  BY <1>1, <1>2, <1>3, <1>4, <1>5, <1>6, <1>7, <1>8, <1>9, <1>10, <1>11, <1>12,
     <1>13, <1>14, <1>15, <1>16, <1>17, <1>18, <1>19, <1>20, <1>21, <1>22,
     <1>23, <1>24, <1>25, <1>26, <1>27, <1>28, <1>29 DEF Next, Gui, Loader,
     Download, Clearing, User

(* The places where the threads are.                                       *)
Frames == {"vsync", "clear", "select", "selectStat", "list", "cards", "cardStat"}

(* The rest keeps its types, but for the number of textures.               *)
LEMMA RestKeepsTypes ==
    ASSUME ArtTypes, [Next]_vars
    PROVE  /\ gPS5CacheGeneration' \in Nat /\ frame' \in Frames /\ card' \in 1..(Len(Cards) + 1)
           /\ loads' \in 0..MaxLoads /\ events' \in 0..MaxEvents /\ selected' \in Games /\ shown' \subseteq Games
           /\ job' \in [index : Nat, kind : Kinds, generation : Nat, path : Textures \cup {NULL}]
           /\ gPS5AsyncTex' \in Textures \cup {NULL} /\ clearing' \in [at : Nat, kind : Kinds, freed : BOOLEAN]
           /\ fill' \in [index : Nat, game : Games \cup {NULL}] /\ FetchIsUnderWay'
<1> DEFINE Goal == /\ gPS5CacheGeneration' \in Nat /\ frame' \in Frames /\ card' \in 1..(Len(Cards) + 1)
           /\ loads' \in 0..MaxLoads /\ events' \in 0..MaxEvents /\ selected' \in Games /\ shown' \subseteq Games
           /\ job' \in [index : Nat, kind : Kinds, generation : Nat, path : Textures \cup {NULL}]
           /\ gPS5AsyncTex' \in Textures \cup {NULL} /\ clearing' \in [at : Nat, kind : Kinds, freed : BOOLEAN]
           /\ fill' \in [index : Nat, game : Games \cup {NULL}] /\ FetchIsUnderWay'
<1>0. /\ gPS5CacheGeneration \in Nat /\ frame \in Frames /\ card \in 1..(Len(Cards) + 1)
      /\ loads \in 0..MaxLoads /\ events \in 0..MaxEvents /\ selected \in Games /\ shown \subseteq Games
      /\ job \in [index : Nat, kind : Kinds, generation : Nat, path : Textures \cup {NULL}]
      /\ gPS5AsyncTex \in Textures \cup {NULL} /\ clearing \in [at : Nat, kind : Kinds, freed : BOOLEAN]
      /\ fill \in [index : Nat, game : Games \cup {NULL}] /\ FetchIsUnderWay
  BY DEF ArtTypes, TypeOK, Frames
<1>00. NoJob \in [index : Nat, kind : Kinds, generation : Nat, path : Textures \cup {NULL}]
  BY DEF NoJob, Kinds
<1>01. LET C == [at : Nat, kind : Kinds, freed : BOOLEAN]
       IN  /\ NoClearing \in C /\ [NoClearing EXCEPT !.at = 1] \in C
           /\ Advance \in C /\ [clearing EXCEPT !.freed = TRUE] \in C
  <2> DEFINE C == [at : Nat, kind : Kinds, freed : BOOLEAN]
  <2>1. NoClearing \in C /\ [NoClearing EXCEPT !.at = 1] \in C
    BY DEF NoClearing, Kinds
  <2>2. [clearing EXCEPT !.freed = TRUE] \in C
    BY <1>0
  <2>3. [clearing EXCEPT !.kind = "logo", !.freed = FALSE] \in C
    BY <1>0 DEF Kinds
  <2>4. [at |-> clearing.at + 1, kind |-> "cover", freed |-> FALSE] \in C
    BY <1>0 DEF Kinds
  <2>5. Advance \in C
    BY <2>3, <2>4 DEF Advance
  <2> QED
    BY <2>1, <2>2, <2>5
<1>02. NoFill \in [index : Nat, game : Games \cup {NULL}]
  BY DEF NoFill
<1>03. gNetCache \in Seq(Entry) /\ Len(gNetCache) \in Nat
  BY DEF ArtTypes, TypeOK
<1>04. ASSUME NEW i \in 1..Len(gNetCache), NEW k \in Kinds, QueueTextureLoad(i, k)
       PROVE  /\ job' \in [index : Nat, kind : Kinds, generation : Nat, path : Textures \cup {NULL}]
              /\ gPS5AsyncTex' = gPS5AsyncTex /\ events' \in 0..MaxEvents
  <2>0. gNetCache[i] \in Entry
    BY <1>03, <1>04
  <2>1. gNetCache[i].game \in Games
    BY <2>0 DEF Entry
  <2>2. <<gNetCache[i].game, k>> \in Textures
    BY <1>04, <2>1 DEF Textures
  <2>3. CASE Queue(i, k)
    <3>1. job' = [index |-> i, kind |-> k, generation |-> gPS5CacheGeneration, path |-> <<gNetCache[i].game, k>>]
      BY <2>3 DEF Queue
    <3>2. i \in Nat
      BY <1>03
    <3> QED
      BY <1>0, <1>04, <2>2, <2>3, <3>1, <3>2 DEF Queue
  <2>4. CASE ~Queue(i, k)
    BY <1>0, <1>04, <2>4, ArtConstants DEF QueueTextureLoad, ThreadFails, async
  <2> QED
    BY <2>3, <2>4
<1>1. ASSUME CompleteStale PROVE Goal
  BY <1>0, <1>00, <1>1, ArtConstants DEF CompleteStale, FrameStart, async, draw,
     user, why, Frames, FetchIsUnderWay
<1>2. ASSUME CompleteLoad PROVE Goal
  BY <1>0, <1>00, <1>2, ArtConstants DEF CompleteLoad, FrameStart, async, draw,
     user, why, Frames, FetchIsUnderWay
<1>3. ASSUME RecoverTimedOut PROVE Goal
  BY <1>0, <1>3, ArtConstants DEF RecoverTimedOut, FrameStart, async, draw,
     user, why, Frames, FetchIsUnderWay
<1>4. ASSUME NoLoadEnded PROVE Goal
  BY <1>0, <1>4, ArtConstants DEF NoLoadEnded, FrameStart, async, draw, user,
     why, Frames, FetchIsUnderWay
<1>5. ASSUME ClearResolved PROVE Goal
  BY <1>0, <1>5, ArtConstants DEF ClearResolved, clearNetCache, async, draw,
     user, why, Frames, FetchIsUnderWay
<1>6. ASSUME ClearSettled PROVE Goal
  BY <1>0, <1>6, ArtConstants DEF ClearSettled, clearNetCache, async, draw,
     user, why, Frames, FetchIsUnderWay
<1>7. ASSUME ClearNothing PROVE Goal
  BY <1>0, <1>7, ArtConstants DEF ClearNothing, async, draw, user, why, Frames,
     FetchIsUnderWay
<1>8. ASSUME SelectFetch PROVE Goal
  <2>1. selected \in Games
    BY <1>0, <1>8, ArtConstants DEF SelectFetch, CardGame, Drawing
  <2>2. fill' \in [index : Nat, game : Games]
    BY <1>03, <1>8, <2>1, FetchEffect DEF SelectFetch
  <2> QED
    BY <1>0, <1>8, <2>2, ArtConstants DEF SelectFetch, async, user, why, Frames,
       FetchIsUnderWay, Drawing
<1>9. ASSUME SelectFill PROVE Goal
  BY <1>0, <1>02, <1>9, ArtConstants DEF SelectFill, async, draw, user, why,
     Frames, FetchIsUnderWay, FetchFill
<1>10. ASSUME SelectNothing PROVE Goal
  BY <1>0, <1>10, ArtConstants DEF SelectNothing, async, draw, user, why,
     Frames, FetchIsUnderWay
<1>11. ASSUME ClearRelisted PROVE Goal
  BY <1>0, <1>11, ArtConstants DEF ClearRelisted, clearNetCache, async, draw,
     user, why, Frames, FetchIsUnderWay
<1>12. ASSUME DrawLogo PROVE Goal
  <2> DEFINE i == FindEntry(selected)
  <2>1. i \in 1..Len(gNetCache) /\ loads + 1 \in 0..MaxLoads
    BY <1>0, <1>03, <1>12, EntryIsFound, ArtConstants DEF DrawLogo, WantsLogo
  <2>2. QueueTextureLoad(i, "logo") /\ "logo" \in Kinds
    BY <1>12 DEF DrawLogo, Kinds
  <2> HIDE DEF i
  <2>3. /\ job' \in [index : Nat, kind : Kinds, generation : Nat, path : Textures \cup {NULL}]
        /\ gPS5AsyncTex' = gPS5AsyncTex /\ events' \in 0..MaxEvents
    BY <1>04, <2>1, <2>2
  <2> QED
    BY <1>0, <1>12, <2>1, <2>3, ArtConstants DEF DrawLogo, user, Frames,
       FetchIsUnderWay, Drawing
<1>13. ASSUME DrawNoLogo PROVE Goal
  BY <1>0, <1>13, ArtConstants DEF DrawNoLogo, async, draw, user, why, Frames,
     FetchIsUnderWay
<1>14. ASSUME CardLoad PROVE Goal
  <2> DEFINE i == FindEntry(CardGame)
  <2>1. i \in 1..Len(gNetCache) /\ loads + 1 \in 0..MaxLoads
    BY <1>0, <1>03, <1>14, EntryIsFound, ArtConstants DEF CardLoad, WantsCover
  <2>2. QueueTextureLoad(i, "cover") /\ "cover" \in Kinds
    BY <1>14 DEF CardLoad, Kinds
  <2> HIDE DEF i
  <2>3. /\ job' \in [index : Nat, kind : Kinds, generation : Nat, path : Textures \cup {NULL}]
        /\ gPS5AsyncTex' = gPS5AsyncTex /\ events' \in 0..MaxEvents
    BY <1>04, <2>1, <2>2
  <2> QED
    BY <1>0, <1>14, <2>1, <2>3, ArtConstants DEF CardLoad, user, Frames,
       FetchIsUnderWay, Drawing
<1>15. ASSUME CardFetch PROVE Goal
  <2>1. CardGame \in Games
    BY <1>0, <1>15, ArtConstants DEF CardFetch, CardGame, Drawing
  <2>2. fill' \in [index : Nat, game : Games]
    BY <1>03, <1>15, <2>1, FetchEffect DEF CardFetch
  <2> QED
    BY <1>0, <1>15, <2>2, ArtConstants DEF CardFetch, async, user, why, Frames,
       FetchIsUnderWay, Drawing
<1>16. ASSUME CardFill PROVE Goal
  BY <1>0, <1>02, <1>16, ArtConstants DEF CardFill, async, draw, user, why,
     Frames, FetchIsUnderWay, FetchFill
<1>17. ASSUME CardNothing PROVE Goal
  BY <1>0, <1>17, ArtConstants DEF CardNothing, async, draw, user, why, Frames,
     FetchIsUnderWay, Drawing
<1>18. ASSUME NEW settle \in BOOLEAN, NEW sweep \in BOOLEAN, FrameEnd(settle, sweep) PROVE Goal
  BY <1>0, <1>18, ArtConstants DEF FrameEnd, async, draw, user, why, Frames,
     FetchIsUnderWay
<1>19. ASSUME NEW n \in 1..Len(loaders), NEW texture \in {job.path, NULL}, LoaderEnds(n, texture) PROVE Goal
  BY <1>0, <1>19, ArtConstants DEF LoaderEnds, async, draw, user, why, Frames,
     FetchIsUnderWay
<1>20. ASSUME ClearStarts PROVE Goal
  BY <1>0, <1>01, <1>20, ArtConstants DEF ClearStarts, async, draw, user, why,
     Frames, FetchIsUnderWay
<1>21. ASSUME ClearFrees PROVE Goal
  BY <1>0, <1>01, <1>21, ArtConstants DEF ClearFrees, async, draw, user, why,
     Frames, FetchIsUnderWay
<1>22. ASSUME ClearMarks PROVE Goal
  BY <1>0, <1>01, <1>22, ArtConstants DEF ClearMarks, async, draw, user, why,
     Frames, FetchIsUnderWay
<1>23. ASSUME ClearEnds PROVE Goal
  BY <1>0, <1>01, <1>23, ArtConstants DEF ClearEnds, async, draw, user, why,
     Frames, FetchIsUnderWay
<1>24. ASSUME AbortDownload PROVE Goal
  BY <1>0, <1>01, <1>24, ArtConstants DEF AbortDownload, async, draw, user, why,
     Frames, FetchIsUnderWay
<1>25. ASSUME RetryMissing PROVE Goal
  BY <1>0, <1>25, ArtConstants DEF RetryMissing, Event, async, draw, user, why,
     Frames, FetchIsUnderWay
<1>26. ASSUME thmFree PROVE Goal
  BY <1>0, <1>26, ArtConstants DEF thmFree, Event, async, draw, user, why,
     Frames, FetchIsUnderWay
<1>27. ASSUME NEW g \in Games, NEW window \in SUBSET Games, Navigate(g, window) PROVE Goal
  BY <1>0, <1>27, ArtConstants DEF Navigate, Event, async, draw, user, why,
     Frames, FetchIsUnderWay
<1>28. ASSUME Outside PROVE Goal
  BY <1>0, <1>28, ArtConstants DEF Outside, Event, async, draw, user, why,
     Frames, FetchIsUnderWay
<1>29. ASSUME UNCHANGED vars PROVE Goal
  BY <1>0, <1>29, ArtConstants DEF vars, async, draw, user, why, Frames,
     FetchIsUnderWay
<1> QED
  BY <1>1, <1>2, <1>3, <1>4, <1>5, <1>6, <1>7, <1>8, <1>9, <1>10, <1>11, <1>12,
     <1>13, <1>14, <1>15, <1>16, <1>17, <1>18, <1>19, <1>20, <1>21, <1>22,
     <1>23, <1>24, <1>25, <1>26, <1>27, <1>28, <1>29 DEF Next, Gui, Loader,
     Download, Clearing, User

(* All of it: the type of every variable, for every list of games.        *)
THEOREM ArtKeepsTypes == Spec => []ArtTypes
<1>1. Init => ArtTypes
  <2> SUFFICES ASSUME Init PROVE ArtTypes
    OBVIOUS
  <2>1. gNetCache \in Seq(Entry) /\ loaders \in Seq({"cpu", "io"}) /\ gPS5CacheGeneration \in Nat
    BY DEF Init
  <2>2. NoJob \in [index : Nat, kind : Kinds, generation : Nat, path : Textures \cup {NULL}]
    BY DEF NoJob, Kinds
  <2>3. NoClearing \in [at : Nat, kind : Kinds, freed : BOOLEAN] /\ NoFill \in [index : Nat, game : Games \cup {NULL}]
    BY DEF NoClearing, NoFill, Kinds
  <2>4. {gPS5AsyncTexRunning, gPS5AsyncTexDone, settled, navigating, connected, bdmPending,
         gPS5ArtworkResolveDirty, relisted, disturbed} \subseteq BOOLEAN
    BY DEF Init
  <2>5. /\ card \in 1..(Len(Cards) + 1) /\ loads \in 0..MaxLoads /\ events \in 0..MaxEvents
        /\ selected \in Games /\ shown \subseteq Games
    BY ArtConstants DEF Init
  <2>6. FetchIsUnderWay
    BY DEF Init, FetchIsUnderWay
  <2> QED
    BY <2>1, <2>2, <2>3, <2>4, <2>5, <2>6 DEF Init, ArtTypes, TypeOK
<1>2. ASSUME ArtTypes, LoaderInv, LoaderInv', [Next]_vars PROVE ArtTypes'
  <2>1. gNetCache' \in Seq(Entry) /\ allocated' \in Int
    BY <1>2, CacheKeepsType, CountKeepsType
  <2>2. {gPS5AsyncTexRunning', gPS5AsyncTexDone', settled', navigating', connected', bdmPending',
         gPS5ArtworkResolveDirty', relisted', disturbed'} \subseteq BOOLEAN
    BY <1>2, FlagsKeepTypes, Zenon
  <2>3. /\ gPS5CacheGeneration' \in Nat /\ frame' \in Frames /\ card' \in 1..(Len(Cards) + 1)
        /\ loads' \in 0..MaxLoads /\ events' \in 0..MaxEvents /\ selected' \in Games /\ shown' \subseteq Games
        /\ job' \in [index : Nat, kind : Kinds, generation : Nat, path : Textures \cup {NULL}]
        /\ gPS5AsyncTex' \in Textures \cup {NULL} /\ clearing' \in [at : Nat, kind : Kinds, freed : BOOLEAN]
        /\ fill' \in [index : Nat, game : Games \cup {NULL}] /\ FetchIsUnderWay'
    BY <1>2, RestKeepsTypes
  <2>4. loaders' \in Seq({"cpu", "io"})
    BY <1>2 DEF LoaderInv
  <2> QED
    BY <2>1, <2>2, <2>3, <2>4 DEF ArtTypes, TypeOK, Frames
<1> QED
  BY <1>1, <1>2, LoaderInvariance, PTL DEF Spec
-----------------------------------------------------------------------------
(* Textures are of their games, and none is lost.                          *)

(* A step that leaves the cache, the load and the download thread alone.   *)
LEMMA IdleFits ==
    ASSUME ArtFits, ~disturbed, disturbed' = disturbed, frame' \in {frame, "vsync", "clear", "select", "list", "cards"},
           UNCHANGED <<gNetCache, gPS5CacheGeneration, job, gPS5AsyncTex, gPS5AsyncTexDone, clearing, fill, allocated>>
    PROVE  ArtFits'
<1>1. TexturesFit' /\ LoadFits' /\ ClearedBehind'
  BY DEF ArtFits, TexturesFit, LoadFits, ClearedBehind, Passed, NoJob, NoClearing
<1>2. ResultIsOfLoad' /\ NoTextureIsLost'
  BY DEF ArtFits, ResultIsOfLoad, NoTextureIsLost
<1>3. FillFits'
  BY DEF ArtFits, FillFits
<1> QED
  BY <1>1, <1>2, <1>3 DEF ArtFits

(* An empty cache fits when there is no load of its generation.            *)
LEMMA EmptyFits ==
    ASSUME ArtTypes, ArtFits, gNetCache' = <<>>, gPS5CacheGeneration' \in Nat,
           gPS5CacheGeneration <= gPS5CacheGeneration', ~disturbed,
           (job # NoJob => job.generation # gPS5CacheGeneration)',
           UNCHANGED <<job, gPS5AsyncTex, gPS5AsyncTexDone>>, clearing' \in {clearing, NoClearing},
           allocated' = allocated - Held(gNetCache)
    PROVE  ArtFits'
<1>1. Len(gNetCache') = 0 /\ \A i \in 1..0 : FALSE
  OBVIOUS
<1>2. TexturesFit' /\ ClearedBehind' /\ FillFits'
  BY <1>1 DEF ArtFits, TexturesFit, ClearedBehind, FillFits, NoClearing
<1>3. LoadFits'
  BY DEF LoadFits
<1>4. ResultIsOfLoad'
  BY DEF ArtFits, ArtTypes, TypeOK, ResultIsOfLoad
<1>5. NoTextureIsLost'
  <2>1. Held(gNetCache') = 0
    BY <1>1, NothingHeld
  <2>2. Len(gNetCache) \in Nat
    BY DEF ArtTypes, TypeOK
  <2>3. Held(gNetCache) \in Int /\ allocated \in Int
    BY <2>2, FullIsFinite DEF ArtTypes, TypeOK
  <2>4. allocated = Held(gNetCache) + (IF gPS5AsyncTex # NULL THEN 1 ELSE 0)
    BY DEF ArtFits, NoTextureIsLost
  <2> QED
    BY <2>1, <2>3, <2>4 DEF NoTextureIsLost
<1> QED
  BY <1>2, <1>3, <1>4, <1>5 DEF ArtFits

(* clearNetCache makes every load stale.                                   *)
LEMMA ClearFits ==
    ASSUME ArtTypes, ArtFits, clearNetCache, ~disturbed, UNCHANGED <<job, gPS5AsyncTex, gPS5AsyncTexDone, clearing>>
    PROVE  ArtFits'
<1>1. gPS5CacheGeneration \in Nat /\ job.generation \in Nat /\ job.generation <= gPS5CacheGeneration
  BY DEF ArtTypes, TypeOK, ArtFits, ResultIsOfLoad
<1>2. /\ gPS5CacheGeneration' \in Nat /\ gPS5CacheGeneration <= gPS5CacheGeneration'
      /\ (job # NoJob => job.generation # gPS5CacheGeneration)'
  BY <1>1 DEF clearNetCache
<1>3. allocated' = allocated - Held(gNetCache)
  BY GivenIsHeld DEF ArtFits, clearNetCache
<1>4. gNetCache' = <<>>
  BY DEF clearNetCache
<1> QED
  BY <1>2, <1>3, <1>4, EmptyFits

(* A tamed cache with the same textures.                                   *)
LEMMA SameFits ==
    ASSUME ArtTypes, ArtFits, Tamed(gNetCache'), SameTextures(gNetCache'), ~disturbed,
           UNCHANGED <<gPS5CacheGeneration, job, gPS5AsyncTex, gPS5AsyncTexDone, clearing, allocated>>,
           frame' \notin {"selectStat", "cardStat"}
    PROVE  ArtFits'
<1>1. gNetCache \in Seq(Entry) /\ Len(gNetCache) \in Nat /\ job.kind \in Kinds
  BY DEF ArtTypes, TypeOK
<1>2. TexturesFit' /\ LoadFits' /\ ClearedBehind'
  BY <1>1, TamedFits DEF ArtFits
<1>3. ResultIsOfLoad' /\ FillFits'
  BY DEF ArtFits, ResultIsOfLoad, FillFits
<1>4. Held(gNetCache') = Held(gNetCache)
  BY <1>1, HeldSame DEF Tamed, SameTextures
<1>5. NoTextureIsLost'
  BY <1>4 DEF ArtFits, NoTextureIsLost
<1> QED
  BY <1>2, <1>3, <1>5 DEF ArtFits

(* A load that is asked for is for its entry, which has no texture.        *)
LEMMA QueueFits ==
    ASSUME ArtTypes, ArtFits, ~disturbed, ~disturbed', NEW i \in 1..Len(gNetCache), NEW k \in Kinds,
           QueueTextureLoad(i, k), frame' = "cards",
           UNCHANGED <<gPS5CacheGeneration, clearing, fill, allocated>>
    PROVE  ArtFits'
<1>0. gNetCache \in Seq(Entry) /\ Len(gNetCache) \in Nat /\ gPS5CacheGeneration \in Nat
  BY DEF ArtTypes, TypeOK
<1>1. CASE Queue(i, k)
  <2>1. /\ gNetCache' = [gNetCache EXCEPT ![i].has[k] = LOADING] /\ gNetCache[i].has[k] = 0
        /\ clearing = NoClearing /\ ~gPS5AsyncTexDone
        /\ job' = [index |-> i, kind |-> k, generation |-> gPS5CacheGeneration, path |-> <<gNetCache[i].game, k>>]
        /\ UNCHANGED <<gPS5AsyncTexDone, gPS5AsyncTex>>
    BY <1>1 DEF Queue, CanQueue
  <2>2. gNetCache[i].tex[k] = NULL
    BY <2>1 DEF ArtFits, TexturesFit
  <2>3. Tamed(gNetCache') /\ SameTextures(gNetCache')
    BY <1>0, <2>1, <2>2, HasIsTamed DEF ArtFits
  <2>4. TexturesFit'
    BY <2>3 DEF ArtFits, TexturesFit, Tamed
  <2>5. LoadFits'
    <3>1. gNetCache'[i].game = gNetCache[i].game /\ gNetCache'[i].tex[k] = NULL /\ Len(gNetCache') = Len(gNetCache)
      BY <2>2, <2>3 DEF Tamed, SameTextures
    <3>2. job'.index = i /\ job'.kind = k /\ job'.path = <<gNetCache[i].game, k>>
      BY <2>1
    <3> QED
      BY <2>1, <3>1, <3>2 DEF LoadFits, NoClearing
  <2>6. ClearedBehind' /\ FillFits'
    BY <2>1 DEF ClearedBehind, FillFits, NoClearing
  <2>7. ResultIsOfLoad'
    BY <1>0, <2>1 DEF ArtFits, ResultIsOfLoad
  <2>8. Held(gNetCache') = Held(gNetCache)
    BY <1>0, <2>3, HeldSame DEF Tamed, SameTextures
  <2>9. NoTextureIsLost'
    BY <2>1, <2>8 DEF ArtFits, NoTextureIsLost
  <2> QED
    BY <2>4, <2>5, <2>6, <2>7, <2>9 DEF ArtFits
<1>2. CASE ~Queue(i, k)
  <2>1. UNCHANGED <<gNetCache, job, gPS5AsyncTex, gPS5AsyncTexDone, disturbed>>
    BY <1>2 DEF QueueTextureLoad, ThreadFails, async
  <2> QED
    BY <2>1, IdleFits
<1> QED
  BY <1>1, <1>2

(* triggerNetFetch gives back what the entry had.                          *)
LEMMA FetchFits ==
    ASSUME ArtTypes, ArtFits, ~disturbed, NEW g \in Games, FetchReset(g),
           UNCHANGED <<gPS5CacheGeneration, job, gPS5AsyncTex, gPS5AsyncTexDone, clearing>>
    PROVE  ArtFits'
<1>0. /\ gNetCache \in Seq(Entry) /\ Len(gNetCache) \in Nat /\ job.kind \in Kinds /\ allocated \in Int
      /\ Held(gNetCache) \in Int
  BY FullIsFinite DEF ArtTypes, TypeOK
<1> DEFINE n == fill'.index
<1>1. /\ gNetCache' \in Seq(Entry)
      /\ fill' \in [index : Nat, game : Games] /\ fill'.game = g
      /\ n \in 1..Len(gNetCache') /\ gNetCache'[n].game = g
      /\ Found(g) => /\ Len(gNetCache') = Len(gNetCache) /\ n = FindEntry(g) /\ gNetCache[n].game = g
                     /\ \A j \in 1..Len(gNetCache) : j # n => gNetCache'[j] = gNetCache[j]
                     /\ gNetCache'[n].tex = Unload(gNetCache[n], Kinds).tex
      /\ ~Found(g) => /\ Len(gNetCache') = Len(gNetCache) + 1 /\ n = Len(gNetCache) + 1
                      /\ \A j \in 1..Len(gNetCache) : gNetCache'[j] = gNetCache[j]
                      /\ \A k \in Kinds : gNetCache'[n].tex[k] = NULL
  BY <1>0, FetchEffect
<1> HIDE DEF n
<1>2. \A k \in Kinds : gNetCache'[n].tex[k] = NULL
  <2>1. CASE Found(g)
    <3>1. n \in 1..Len(gNetCache) /\ gNetCache[n] \in Entry
      BY <1>0, <1>1, <2>1
    <3>2. \A k \in Kinds : /\ gNetCache[n].tex[k] # NULL => gNetCache[n].has[k] = 1
                           /\ Unload(gNetCache[n], Kinds).tex[k] =
                                 IF gNetCache[n].has[k] = 1 THEN NULL ELSE gNetCache[n].tex[k]
      BY <3>1, UnloadFact DEF ArtFits, TexturesFit
    <3> QED
      BY <1>1, <2>1, <3>2
  <2> QED
    BY <1>1, <2>1
<1>3. FillFits'
  BY <1>1, <1>2 DEF FillFits, n
<1>4. \A j \in 1..Len(gNetCache') : j # n => j \in 1..Len(gNetCache) /\ gNetCache'[j] = gNetCache[j]
  BY <1>0, <1>1
<1>5. TexturesFit'
  BY <1>2, <1>4 DEF ArtFits, TexturesFit
<1>6. ClearedBehind'
  BY <1>2, <1>4 DEF ArtFits, ClearedBehind, Passed, NoClearing
<1>7. LoadFits'
  <2> SUFFICES ASSUME job # NoJob, job.generation = gPS5CacheGeneration PROVE LoadFits'
    BY DEF LoadFits, NoJob
  <2>1. /\ clearing = NoClearing /\ job.index \in 1..Len(gNetCache)
        /\ job.path = <<gNetCache[job.index].game, job.kind>> /\ gNetCache[job.index].tex[job.kind] = NULL
    BY DEF ArtFits, LoadFits
  <2>2. job.index \in 1..Len(gNetCache')
    BY <1>0, <1>1, <2>1
  <2>3. gNetCache'[job.index].game = gNetCache[job.index].game
    BY <1>0, <1>1, <1>4, <2>1, <2>2
  <2>4. gNetCache'[job.index].tex[job.kind] = NULL
    BY <1>0, <1>2, <1>4, <2>1, <2>2
  <2> QED
    BY <2>1, <2>2, <2>3, <2>4 DEF LoadFits, NoClearing
<1>8. ResultIsOfLoad'
  BY DEF ArtFits, ResultIsOfLoad
<1>9. NoTextureIsLost'
  <2>1. CASE Found(g)
    <3>1. n \in 1..Len(gNetCache) /\ n = FindEntry(g) /\ Len(gNetCache') = Len(gNetCache)
      BY <1>0, <1>1, <2>1
    <3>2. Held(gNetCache') = Held(gNetCache) - Given(<<gNetCache[n]>>)
      BY <1>0, <1>2, <1>4, <3>1, HeldLess DEF ArtFits
    <3>3. allocated' = allocated - Given(<<gNetCache[n]>>)
      BY <2>1, <3>1 DEF FetchReset
    <3>4. Given(<<gNetCache[n]>>) \in Int
      <4>1. Len(<<gNetCache[n]>>) \in Nat
        OBVIOUS
      <4> QED
        BY <4>1, GivenIsNumber
    <3> QED
      BY <1>0, <3>2, <3>3, <3>4 DEF ArtFits, NoTextureIsLost
  <2>2. CASE ~Found(g)
    <3>1. Full(gNetCache') = Full(gNetCache)
      BY <1>0, <1>1, <1>2, <2>2 DEF Full, Slots
    <3>2. Held(gNetCache') = Held(gNetCache)
      BY <3>1 DEF Held, Full
    <3>3. allocated' = allocated - 0
      BY <2>2 DEF FetchReset
    <3> QED
      BY <1>0, <3>2, <3>3 DEF ArtFits, NoTextureIsLost
  <2> QED
    BY <2>1, <2>2
<1> QED
  BY <1>3, <1>5, <1>6, <1>7, <1>8, <1>9 DEF ArtFits

(* The entry that is filled has no texture, and keeps its game.            *)
LEMMA FillKeepsFits ==
    ASSUME ArtTypes, ArtFits, ~disturbed, FetchFill, frame \in {"selectStat", "cardStat"},
           frame' \notin {"selectStat", "cardStat"},
           UNCHANGED <<gPS5CacheGeneration, job, gPS5AsyncTex, gPS5AsyncTexDone, clearing, allocated>>
    PROVE  ArtFits'
<1> DEFINE n == fill.index
<1>1. gNetCache \in Seq(Entry) /\ fill.game \in Games /\ n \in Nat
  BY DEF ArtTypes, TypeOK, FetchIsUnderWay
<1>2. /\ gNetCache' \in Seq(Entry) /\ Len(gNetCache') = Len(gNetCache)
      /\ \A j \in 1..Len(gNetCache) : /\ gNetCache'[j].tex = gNetCache[j].tex
                                      /\ j # n => gNetCache'[j] = gNetCache[j]
                                      /\ j = n => gNetCache'[j].game = fill.game
  BY <1>1, FillEffect
<1>3. n \in 1..Len(gNetCache) =>
          gNetCache[n].game = fill.game /\ \A k \in Kinds : gNetCache[n].tex[k] = NULL
  BY DEF ArtFits, FillFits
<1> HIDE DEF n
<1>4. ASSUME NEW i \in 1..Len(gNetCache)
      PROVE  /\ gNetCache'[i].game = gNetCache[i].game
             /\ \A k \in Kinds : /\ gNetCache'[i].tex[k] = gNetCache[i].tex[k]
                                 /\ gNetCache'[i].tex[k] # NULL => gNetCache'[i].has[k] = 1
  <2>1. gNetCache'[i].tex = gNetCache[i].tex
    BY <1>1, <1>2, <1>4
  <2>2. CASE i = n
    BY <1>1, <1>2, <1>3, <1>4, <2>1, <2>2
  <2>3. CASE i # n
    <3>1. gNetCache'[i] = gNetCache[i]
      BY <1>1, <1>2, <1>4, <2>3
    <3> QED
      BY <1>4, <3>1 DEF ArtFits, TexturesFit
  <2> QED
    BY <2>2, <2>3
<1>5. Tamed(gNetCache')
  BY <1>1, <1>2, <1>4 DEF Tamed
<1>6. SameTextures(gNetCache')
  BY <1>4 DEF SameTextures
<1> QED
  BY <1>5, <1>6, SameFits

(* A load that is taken over puts its texture where it is missing.         *)
LEMMA InstallFits ==
    ASSUME ArtTypes, ArtFits, ~disturbed, CompleteLoad
    PROVE  ArtFits'
<1> DEFINE n == job.index
           kind == job.kind
           old == gNetCache[n]
           new == Install(old, kind)
<1>0. /\ gNetCache \in Seq(Entry) /\ Len(gNetCache) \in Nat /\ gPS5CacheGeneration \in Nat
      /\ gPS5AsyncTex \in Textures \cup {NULL} /\ allocated \in Int /\ Held(gNetCache) \in Int
  BY FullIsFinite DEF ArtTypes, TypeOK
<1>1. /\ n \in 1..Len(gNetCache) /\ kind \in Kinds /\ new \in Entry
      /\ gNetCache' \in Seq(Entry) /\ Len(gNetCache') = Len(gNetCache) /\ gNetCache'[n] = new
      /\ \A j \in 1..Len(gNetCache) : j # n => gNetCache'[j] = gNetCache[j]
  BY CompleteEffect DEF ArtTypes
<1>2. old \in Entry
  BY <1>0, <1>1
<1>3. /\ new.game = old.game
      /\ \A l \in Kinds : l # kind => new.tex[l] = old.tex[l] /\ new.has[l] = old.has[l]
      /\ gPS5AsyncTex # NULL => new.tex[kind] = gPS5AsyncTex /\ new.has[kind] = 1
      /\ gPS5AsyncTex = NULL => new.tex[kind] = old.tex[kind]
  BY <1>0, <1>1, <1>2, InstallEffect
<1>4. /\ frame' = "clear" /\ job' = NoJob /\ gPS5AsyncTex' = NULL /\ allocated' = allocated
      /\ UNCHANGED <<clearing, gPS5CacheGeneration, disturbed>>
      /\ job.generation = gPS5CacheGeneration
  BY DEF CompleteLoad, FrameStart, Stale
<1>5. job # NoJob
  BY <1>1 DEF NoJob
<1>6. clearing = NoClearing /\ job.path = <<old.game, kind>> /\ old.tex[kind] = NULL
  BY <1>4, <1>5 DEF ArtFits, LoadFits
<1> HIDE DEF n, kind, old, new
<1>7. gPS5AsyncTex \in {NULL, <<old.game, kind>>}
  BY <1>6 DEF ArtFits, ResultIsOfLoad
<1>8. TexturesFit'
  <2> SUFFICES ASSUME NEW i \in 1..Len(gNetCache), NEW k \in Kinds, gNetCache'[i].tex[k] # NULL
               PROVE  gNetCache'[i].tex[k] = <<gNetCache'[i].game, k>> /\ gNetCache'[i].has[k] = 1
    BY <1>1 DEF TexturesFit
  <2>1. gNetCache[i].tex[k] # NULL => gNetCache[i].tex[k] = <<gNetCache[i].game, k>> /\ gNetCache[i].has[k] = 1
    BY DEF ArtFits, TexturesFit
  <2>2. CASE i # n
    BY <1>1, <2>1, <2>2
  <2>3. CASE i = n /\ k # kind
    BY <1>1, <1>3, <2>1, <2>3 DEF old
  <2>4. CASE i = n /\ k = kind
    BY <1>1, <1>3, <1>6, <1>7, <2>4
  <2> QED
    BY <2>2, <2>3, <2>4
<1>9. LoadFits' /\ ClearedBehind' /\ FillFits'
  BY <1>4, <1>6 DEF LoadFits, ClearedBehind, FillFits, NoJob, NoClearing
<1>10. ResultIsOfLoad'
  BY <1>0, <1>4 DEF ResultIsOfLoad, NoJob
<1>11. NoTextureIsLost'
  <2>1. \A i \in 1..Len(gNetCache), k \in Kinds :
            <<i, k>> = <<n, kind>> \/ gNetCache'[i].tex[k] = gNetCache[i].tex[k]
    BY <1>1, <1>3 DEF old
  <2>2. gNetCache[n].tex[kind] = NULL /\ gNetCache'[n].tex[kind] = gPS5AsyncTex
    BY <1>1, <1>3, <1>6 DEF old
  <2>3. CASE gPS5AsyncTex # NULL
    <3>1. Held(gNetCache') = Held(gNetCache) + 1
      BY <1>0, <1>1, <2>1, <2>2, <2>3, HeldMore
    <3> QED
      BY <1>0, <1>4, <2>3, <3>1 DEF ArtFits, NoTextureIsLost
  <2>4. CASE gPS5AsyncTex = NULL
    <3>1. Held(gNetCache') = Held(gNetCache)
      BY <1>0, <1>1, <2>1, <2>2, <2>4, HeldSame
    <3> QED
      BY <1>0, <1>4, <2>4, <3>1 DEF ArtFits, NoTextureIsLost
  <2> QED
    BY <2>3, <2>4
<1> QED
  BY <1>8, <1>9, <1>10, <1>11 DEF ArtFits

(* A load that timed out, and one that is asked for again.                 *)
LEMMA RecoverFits ==
    ASSUME ArtTypes, ArtFits, ~disturbed, RecoverTimedOut
    PROVE  ArtFits'
<1>0. gNetCache \in Seq(Entry) /\ job.kind \in Kinds
  BY DEF ArtTypes, TypeOK
<1>1. /\ frame' = "clear" /\ disturbed' = disturbed
      /\ UNCHANGED <<gPS5CacheGeneration, job, gPS5AsyncTex, gPS5AsyncTexDone, clearing, fill, allocated>>
  BY DEF RecoverTimedOut, FrameStart, async
<1>2. CASE ~Stale /\ gNetCache[job.index].has[job.kind] = LOADING
  <2>1. gNetCache' = [gNetCache EXCEPT ![job.index].has[job.kind] = 0]
    BY <1>2, Zenon DEF RecoverTimedOut
  <2>2. job.index \in 1..Len(gNetCache)
    BY <1>2 DEF Stale
  <2>3. gNetCache[job.index].tex[job.kind] = NULL
    BY <1>0, <1>2, <2>2 DEF ArtFits, TexturesFit, LOADING
  <2>4. Tamed(gNetCache') /\ SameTextures(gNetCache')
    BY <1>0, <2>1, <2>2, <2>3, HasIsTamed DEF ArtFits
  <2> QED
    BY <1>1, <2>4, SameFits
<1>3. CASE ~(~Stale /\ gNetCache[job.index].has[job.kind] = LOADING)
  <2>1. gNetCache' = gNetCache
    BY <1>3, Zenon DEF RecoverTimedOut
  <2> QED
    BY <1>1, <2>1, IdleFits
<1> QED
  BY <1>2, <1>3

(* The sweep gives back what it unloads.                                   *)
LEMMA SweepFits ==
    ASSUME ArtTypes, ArtFits, ~disturbed, NEW settle, NEW sweep, FrameEnd(settle, sweep)
    PROVE  ArtFits'
<1>0. /\ gNetCache \in Seq(Entry) /\ Len(gNetCache) \in Nat /\ job.kind \in Kinds /\ allocated \in Int
      /\ Held(gNetCache) \in Int
  BY FullIsFinite DEF ArtTypes, TypeOK
<1>1. /\ gNetCache' \in Seq(Entry) /\ Len(gNetCache') = Len(gNetCache)
      /\ allocated' = allocated - (Held(gNetCache) - Held(gNetCache'))
      /\ \A i \in 1..Len(gNetCache) :
            gNetCache'[i] \in {gNetCache[i], Unload(gNetCache[i], Unseen(gNetCache[i]))}
  BY <1>0, SweepEffect
<1>2. /\ frame' = "vsync" /\ disturbed' = disturbed
      /\ UNCHANGED <<gPS5CacheGeneration, job, gPS5AsyncTex, gPS5AsyncTexDone, clearing, fill>>
  BY DEF FrameEnd, async
<1>3. ASSUME NEW i \in 1..Len(gNetCache)
      PROVE  /\ gNetCache'[i].game = gNetCache[i].game
             /\ \A k \in Kinds : /\ gNetCache'[i].tex[k] \in {NULL, gNetCache[i].tex[k]}
                                 /\ gNetCache'[i].tex[k] # NULL => gNetCache'[i].has[k] = 1
  <2>1. gNetCache[i] \in Entry
    BY <1>0, <1>3
  <2>2. \A k \in Kinds : gNetCache[i].tex[k] # NULL => gNetCache[i].has[k] = 1
    BY <1>3 DEF ArtFits, TexturesFit
  <2> DEFINE u == Unload(gNetCache[i], Unseen(gNetCache[i]))
  <2>3. /\ u.game = gNetCache[i].game
        /\ \A k \in Kinds : LET gone == k \in Unseen(gNetCache[i]) /\ gNetCache[i].has[k] = 1
                            IN  /\ u.has[k] = IF gone THEN 0 ELSE gNetCache[i].has[k]
                                /\ u.tex[k] = IF gone THEN NULL ELSE gNetCache[i].tex[k]
    BY <2>1, UnloadFact
  <2>4. gNetCache'[i] = gNetCache[i] \/ gNetCache'[i] = u
    BY <1>1, <1>3
  <2> HIDE DEF u
  <2> QED
    BY <2>2, <2>3, <2>4
<1>4. Tamed(gNetCache')
  BY <1>1, <1>3 DEF Tamed
<1>5. TexturesFit' /\ LoadFits' /\ ClearedBehind'
  BY <1>0, <1>2, <1>4, TamedFits DEF ArtFits
<1>6. ResultIsOfLoad' /\ FillFits'
  BY <1>2 DEF ArtFits, ResultIsOfLoad, FillFits
<1>7. NoTextureIsLost'
  <2>1. Held(gNetCache') \in Int
    BY <1>0, <1>1, FullIsFinite
  <2> QED
    BY <1>0, <1>1, <1>2, <2>1 DEF ArtFits, NoTextureIsLost
<1> QED
  BY <1>5, <1>6, <1>7 DEF ArtFits

(* The retry of missing covers.                                            *)
LEMMA RetryFits ==
    ASSUME ArtTypes, ArtFits, ~disturbed, RetryMissing
    PROVE  ArtFits'
<1>0. gNetCache \in Seq(Entry)
  BY DEF ArtTypes, TypeOK
<1>1. /\ gNetCache' \in Seq(Entry) /\ Len(gNetCache') = Len(gNetCache)
      /\ \A i \in 1..Len(gNetCache) :
            /\ gNetCache'[i].game = gNetCache[i].game /\ gNetCache'[i].tex = gNetCache[i].tex
            /\ \A k \in Kinds : gNetCache[i].has[k] = 1 => gNetCache'[i].has[k] = 1
  BY <1>0, RetryEffect
<1>2. /\ frame' = "vsync" /\ disturbed' = disturbed
      /\ UNCHANGED <<gPS5CacheGeneration, job, gPS5AsyncTex, gPS5AsyncTexDone, clearing, fill, allocated>>
  BY DEF RetryMissing, Event, async, draw
<1>3. \A i \in 1..Len(gNetCache), k \in Kinds :
          /\ gNetCache'[i].tex[k] = gNetCache[i].tex[k]
          /\ gNetCache'[i].tex[k] # NULL => gNetCache'[i].has[k] = 1
  BY <1>1 DEF ArtFits, TexturesFit
<1>4. Tamed(gNetCache')
  BY <1>1, <1>3 DEF Tamed
<1>5. SameTextures(gNetCache')
  BY <1>3 DEF SameTextures
<1> QED
  BY <1>2, <1>4, <1>5, SameFits

(* A loader that ends leaves its texture to be taken over.                 *)
LEMMA EndFits ==
    ASSUME ArtTypes, LoaderInv, ArtFits, ~disturbed,
           NEW n, NEW texture \in {job.path, NULL}, LoaderEnds(n, texture)
    PROVE  ArtFits'
<1>1. gPS5AsyncTexRunning
  BY DEF LoaderEnds, LoaderInv
<1>2. gPS5AsyncTex = NULL /\ allocated = Held(gNetCache) + 0
  BY <1>1 DEF LoaderInv, ArtFits, ResultIsOfLoad, NoTextureIsLost
<1>3. Held(gNetCache) \in Int /\ gPS5CacheGeneration \in Nat
  BY FullIsFinite DEF ArtTypes, TypeOK
<1>4. /\ gPS5AsyncTex' = texture /\ gPS5AsyncTexDone' = TRUE
      /\ allocated' = allocated + (IF texture # NULL THEN 1 ELSE 0)
      /\ UNCHANGED <<gNetCache, gPS5CacheGeneration, job, clearing, frame, fill, disturbed>>
  BY DEF LoaderEnds, draw
<1>5. TexturesFit' /\ LoadFits' /\ ClearedBehind' /\ FillFits'
  BY <1>4 DEF ArtFits, TexturesFit, LoadFits, ClearedBehind, FillFits, Passed,
     NoJob, NoClearing
<1>6. ResultIsOfLoad'
  BY <1>4 DEF ArtFits, ResultIsOfLoad
<1>7. NoTextureIsLost'
  BY <1>2, <1>3, <1>4 DEF NoTextureIsLost
<1> QED
  BY <1>5, <1>6, <1>7 DEF ArtFits

(* A result that is stale is given back.                                   *)
LEMMA StaleFits ==
    ASSUME ArtTypes, ArtFits, ~disturbed, CompleteStale
    PROVE  ArtFits'
<1>1. Held(gNetCache) \in Int /\ gPS5CacheGeneration \in Nat
  BY FullIsFinite DEF ArtTypes, TypeOK
<1>2. /\ gPS5AsyncTex' = NULL /\ job' = NoJob /\ gPS5AsyncTexDone' = FALSE /\ frame' = "clear"
      /\ allocated' = allocated - (IF gPS5AsyncTex # NULL THEN 1 ELSE 0)
      /\ UNCHANGED <<gNetCache, gPS5CacheGeneration, clearing, fill, disturbed>>
  BY DEF CompleteStale, FrameStart
<1>3. TexturesFit' /\ LoadFits' /\ ClearedBehind' /\ FillFits'
  BY <1>2 DEF ArtFits, TexturesFit, LoadFits, ClearedBehind, FillFits, Passed,
     NoJob, NoClearing
<1>4. ResultIsOfLoad'
  BY <1>1, <1>2 DEF ResultIsOfLoad, NoJob
<1>5. NoTextureIsLost'
  BY <1>1, <1>2 DEF ArtFits, NoTextureIsLost
<1> QED
  BY <1>3, <1>4, <1>5 DEF ArtFits

(* The steps of the download thread in clearNetCache.                      *)
LEMMA DownloadFits ==
    ASSUME ArtTypes, ArtFits, ~disturbed, ~disturbed', Download
    PROVE  ArtFits'
<1>0. /\ gNetCache \in Seq(Entry) /\ Len(gNetCache) \in Nat /\ gPS5CacheGeneration \in Nat /\ allocated \in Int
      /\ clearing \in [at : Nat, kind : Kinds, freed : BOOLEAN] /\ job.kind \in Kinds /\ job.generation \in Nat
      /\ Held(gNetCache) \in Int /\ job.generation <= gPS5CacheGeneration
  BY FullIsFinite DEF ArtTypes, TypeOK, ArtFits, ResultIsOfLoad
<1>1. UNCHANGED <<job, gPS5AsyncTex, gPS5AsyncTexDone, frame, fill, disturbed>>
  BY DEF Download, Clearing, ClearStarts, ClearFrees, ClearMarks, ClearEnds,
     async, draw
<1> DEFINE n == clearing.at
           kind == clearing.kind
<1>2. CASE ClearStarts
  <2>1. /\ gPS5CacheGeneration' = gPS5CacheGeneration + 1 /\ UNCHANGED <<gNetCache, allocated>>
        /\ clearing' = [NoClearing EXCEPT !.at = 1]
    BY <1>2 DEF ClearStarts
  <2>2. clearing'.at = 1 /\ clearing'.kind = "cover" /\ clearing'.freed = FALSE
    BY <2>1 DEF NoClearing
  <2>3. LoadFits' /\ ResultIsOfLoad'
    BY <1>0, <1>1, <2>1 DEF ArtFits, LoadFits, ResultIsOfLoad
  <2>4. ClearedBehind'
    <3>1. \A i \in 1..Len(gNetCache), k \in Kinds : ~Passed(i, k)'
      BY <2>2 DEF Passed
    <3> QED
      BY <2>1, <2>2, <3>1 DEF ClearedBehind
  <2>5. TexturesFit' /\ FillFits' /\ NoTextureIsLost'
    BY <1>1, <2>1 DEF ArtFits, TexturesFit, FillFits, NoTextureIsLost
  <2> QED
    BY <2>3, <2>4, <2>5 DEF ArtFits
<1>3. ASSUME UNCHANGED gPS5CacheGeneration, clearing # NoClearing PROVE LoadFits' /\ ResultIsOfLoad'
  <2>1. job = NoJob \/ job.generation # gPS5CacheGeneration
    BY <1>3 DEF ArtFits, LoadFits
  <2> QED
    BY <1>1, <1>3, <2>1 DEF ArtFits, LoadFits, ResultIsOfLoad, NoJob
<1>4. ASSUME clearing # NoClearing, gNetCache[n].tex[kind] = NULL \/ n \notin 1..Len(gNetCache), clearing' = Advance
      PROVE  /\ clearing'.at >= 1
             /\ \A i \in 1..Len(gNetCache), k \in Kinds : Passed(i, k)' => gNetCache[i].tex[k] = NULL
  <2>1. n >= 1 /\ \A i \in 1..Len(gNetCache), k \in Kinds : Passed(i, k) => gNetCache[i].tex[k] = NULL
    BY <1>4 DEF ArtFits, ClearedBehind
  <2>2. CASE kind = "cover"
    <3>1. clearing'.at = n /\ clearing'.kind = "logo" /\ clearing'.freed = FALSE
      BY <1>0, <1>4, <2>2 DEF Advance
    <3> QED
      BY <1>0, <1>4, <2>1, <2>2, <3>1 DEF Passed, Kinds
  <2>3. CASE kind = "logo"
    <3>1. clearing'.at = n + 1 /\ clearing'.kind = "cover" /\ clearing'.freed = FALSE
      BY <1>0, <1>4, <2>3 DEF Advance
    <3> QED
      BY <1>0, <1>4, <2>1, <2>3, <3>1 DEF Passed, Kinds
  <2> QED
    BY <1>0, <2>2, <2>3 DEF Kinds
<1>5. CASE ClearFrees /\ gNetCache[n].has[kind] # 1
  <2>1. /\ UNCHANGED <<gNetCache, allocated, gPS5CacheGeneration>> /\ clearing' = Advance
        /\ n \in 1..Len(gNetCache) /\ clearing # NoClearing
    BY <1>5 DEF ClearFrees, NoClearing
  <2>2. gNetCache[n].tex[kind] = NULL
    BY <1>0, <1>5, <2>1 DEF ArtFits, TexturesFit
  <2>3. ClearedBehind'
    BY <1>4, <2>1, <2>2 DEF ClearedBehind
  <2>4. TexturesFit' /\ FillFits' /\ NoTextureIsLost'
    BY <1>1, <2>1 DEF ArtFits, TexturesFit, FillFits, NoTextureIsLost
  <2> QED
    BY <1>3, <2>1, <2>3, <2>4 DEF ArtFits
<1>6. CASE ClearFrees /\ gNetCache[n].has[kind] = 1
  <2>1. /\ n \in 1..Len(gNetCache) /\ clearing # NoClearing /\ UNCHANGED gPS5CacheGeneration
        /\ clearing' = [clearing EXCEPT !.freed = TRUE]
        /\ gNetCache' = [gNetCache EXCEPT ![n].tex[kind] = NULL]
        /\ allocated' = allocated - (IF gNetCache[n].tex[kind] # NULL THEN 1 ELSE 0)
    BY <1>6 DEF ClearFrees, NoClearing
  <2>2. clearing'.at = n /\ clearing'.kind = kind /\ clearing'.freed = TRUE /\ kind \in Kinds /\ n \in Nat
    BY <1>0, <2>1
  <2> HIDE DEF n, kind
  <2>3. /\ gNetCache' \in Seq(Entry) /\ Len(gNetCache') = Len(gNetCache) /\ gNetCache'[n].tex[kind] = NULL
        /\ \A j \in 1..Len(gNetCache) :
             /\ gNetCache'[j].game = gNetCache[j].game /\ gNetCache'[j].has = gNetCache[j].has
             /\ \A l \in Kinds : <<j, l>> # <<n, kind>> => gNetCache'[j].tex[l] = gNetCache[j].tex[l]
    <3>1. gNetCache \in Seq(Entry) /\ n \in 1..Len(gNetCache) /\ kind \in Kinds
      BY <1>0, <2>1, <2>2
    <3>2. gNetCache' = [gNetCache EXCEPT ![n].tex[kind] = NULL]
      BY <2>1
    <3> QED
      BY <3>1, <3>2, TakeEffect
  <2>4. \A j \in 1..Len(gNetCache), l \in Kinds : gNetCache'[j].tex[l] \in {NULL, gNetCache[j].tex[l]}
    BY <2>3
  <2>5. TexturesFit'
    BY <2>3, <2>4 DEF ArtFits, TexturesFit
  <2>6. FillFits'
    BY <1>1, <2>3, <2>4 DEF ArtFits, FillFits
  <2>7. ClearedBehind'
    <3> SUFFICES ASSUME NEW i \in 1..Len(gNetCache), NEW k \in Kinds, Passed(i, k)'
                 PROVE  gNetCache'[i].tex[k] = NULL
      BY <1>0, <2>1, <2>2, <2>3 DEF ArtFits, ClearedBehind, n
    <3>1. CASE <<i, k>> = <<n, kind>>
      BY <2>3, <3>1
    <3>2. CASE <<i, k>> # <<n, kind>>
      <4>1. Passed(i, k)
        BY <2>2, <3>2 DEF Passed, n, kind
      <4>2. gNetCache[i].tex[k] = NULL
        BY <2>1, <4>1 DEF ArtFits, ClearedBehind
      <4> QED
        BY <2>4, <4>2
    <3> QED
      BY <3>1, <3>2
  <2>8. NoTextureIsLost'
    <3>1. Held(gNetCache') \in Int
      BY <1>0, <2>3, FullIsFinite
    <3>2. CASE gNetCache[n].tex[kind] # NULL
      <4>1. \A i \in 1..Len(gNetCache), k \in Kinds :
               <<i, k>> = <<n, kind>> \/ (gNetCache[i].tex[k] = NULL <=> gNetCache'[i].tex[k] = NULL)
        BY <2>3
      <4>2. Held(gNetCache) = Held(gNetCache') + 1
        <5>1. /\ Len(gNetCache') \in Nat /\ Len(gNetCache) = Len(gNetCache') /\ n \in 1..Len(gNetCache')
              /\ kind \in Kinds /\ gNetCache'[n].tex[kind] = NULL /\ gNetCache[n].tex[kind] # NULL
          BY <1>0, <2>1, <2>2, <2>3, <3>2
        <5>2. \A i \in 1..Len(gNetCache'), k \in Kinds :
                  <<i, k>> = <<n, kind>> \/ (gNetCache[i].tex[k] = NULL <=> gNetCache'[i].tex[k] = NULL)
          BY <2>3, <4>1
        <5> QED
          BY <5>1, <5>2, HeldMore
      <4> QED
        BY <1>0, <1>1, <2>1, <3>1, <3>2, <4>2 DEF ArtFits, NoTextureIsLost
    <3>3. CASE gNetCache[n].tex[kind] = NULL
      <4>1. \A i \in 1..Len(gNetCache), k \in Kinds : gNetCache'[i].tex[k] = NULL <=> gNetCache[i].tex[k] = NULL
        BY <2>3, <3>3
      <4>2. Held(gNetCache') = Held(gNetCache)
        BY <1>0, <2>3, <4>1, HeldSame
      <4> QED
        BY <1>0, <1>1, <2>1, <3>3, <4>2 DEF ArtFits, NoTextureIsLost
    <3> QED
      BY <3>2, <3>3
  <2> QED
    BY <1>3, <2>1, <2>5, <2>6, <2>7, <2>8 DEF ArtFits
<1>7. CASE ClearMarks
  <2>1. /\ clearing.freed /\ clearing # NoClearing /\ clearing' = Advance
        /\ UNCHANGED <<gPS5CacheGeneration, allocated>>
        /\ n \in 1..Len(gNetCache) => gNetCache' = [gNetCache EXCEPT ![n].has[kind] = 0]
        /\ n \notin 1..Len(gNetCache) => gNetCache' = gNetCache
    BY <1>7 DEF ClearMarks, NoClearing
  <2>2. n \in 1..Len(gNetCache) => gNetCache[n].tex[kind] = NULL
    BY <1>0, <2>1 DEF ArtFits, ClearedBehind, Passed
  <2>3. Tamed(gNetCache') /\ SameTextures(gNetCache')
    <3>1. CASE n \in 1..Len(gNetCache)
      BY <1>0, <2>1, <2>2, <3>1, HasIsTamed DEF ArtFits
    <3>2. CASE n \notin 1..Len(gNetCache)
      BY <1>0, <2>1, <3>2 DEF Tamed, SameTextures, ArtFits, TexturesFit
    <3> QED
      BY <3>1, <3>2
  <2>4. TexturesFit' /\ FillFits'
    BY <1>1, <2>3 DEF ArtFits, TexturesFit, FillFits, Tamed
  <2>5. ClearedBehind'
    <3>1. /\ clearing'.at >= 1
          /\ \A i \in 1..Len(gNetCache), k \in Kinds : Passed(i, k)' => gNetCache[i].tex[k] = NULL
      BY <1>4, <2>1, <2>2
    <3> QED
      BY <2>3, <3>1 DEF ClearedBehind, Tamed, SameTextures
  <2>6. Held(gNetCache') = Held(gNetCache)
    BY <1>0, <2>3, HeldSame DEF Tamed, SameTextures
  <2>7. NoTextureIsLost'
    BY <1>1, <2>1, <2>6 DEF ArtFits, NoTextureIsLost
  <2> QED
    BY <1>3, <2>1, <2>4, <2>5, <2>7 DEF ArtFits
<1>8. CASE ClearEnds
  <2>1. /\ n > Len(gNetCache) /\ clearing # NoClearing /\ gNetCache' = <<>> /\ clearing' = NoClearing
        /\ UNCHANGED <<gPS5CacheGeneration, allocated>>
    BY <1>0, <1>8 DEF ClearEnds, NoClearing
  <2>2. \A i \in 1..Len(gNetCache), k \in Kinds : gNetCache[i].tex[k] = NULL
    BY <1>0, <2>1 DEF ArtFits, ClearedBehind, Passed
  <2>3. allocated' = allocated - Held(gNetCache)
    <3>1. Held(gNetCache) = 0
      BY <1>0, <2>2, NothingHeld
    <3> QED
      BY <1>0, <2>1, <3>1
  <2>4. (job # NoJob => job.generation # gPS5CacheGeneration)'
    BY <1>1, <2>1 DEF ArtFits, LoadFits, NoJob
  <2> QED
    BY <1>0, <1>1, <2>1, <2>3, <2>4, EmptyFits
<1> QED
  BY <1>2, <1>5, <1>6, <1>7, <1>8 DEF Download, Clearing

(* Every step keeps the textures in order, unless it disturbs the cache.   *)
LEMMA ArtStep ==
    ASSUME ArtTypes, LoaderInv, ~disturbed => ArtFits, [Next]_vars, ~disturbed'
    PROVE  ArtFits'
<1>0. /\ gNetCache \in Seq(Entry) /\ Len(gNetCache) \in Nat /\ selected \in Games /\ card \in Nat /\ card >= 1
      /\ disturbed \in BOOLEAN
  BY ArtConstants DEF ArtTypes, TypeOK
<1>1. ~disturbed /\ disturbed' = disturbed
  <2> DEFINE Goal == ~disturbed /\ disturbed' = disturbed
  <2>0. ASSUME NEW i, NEW k, QueueTextureLoad(i, k) PROVE Goal
    <3>1. disturbed' = (disturbed \/ clearing # NoClearing) \/ disturbed' = disturbed
      BY <2>0 DEF QueueTextureLoad, Queue, ThreadFails
    <3> QED
      BY <1>0, <3>1
  <2>1. ASSUME CompleteStale PROVE Goal
    BY <1>0, <2>1 DEF CompleteStale, FrameStart
  <2>2. ASSUME CompleteLoad PROVE Goal
    BY <1>0, <2>2 DEF CompleteLoad, FrameStart
  <2>3. ASSUME RecoverTimedOut PROVE Goal
    BY <1>0, <2>3 DEF RecoverTimedOut, FrameStart
  <2>4. ASSUME NoLoadEnded PROVE Goal
    BY <1>0, <2>4 DEF NoLoadEnded, FrameStart
  <2>5. ASSUME ClearResolved PROVE Goal
    BY <1>0, <2>5 DEF ClearResolved
  <2>6. ASSUME ClearSettled PROVE Goal
    BY <1>0, <2>6 DEF ClearSettled
  <2>7. ASSUME ClearNothing PROVE Goal
    BY <1>0, <2>7 DEF ClearNothing
  <2>8. ASSUME SelectFetch PROVE Goal
    BY <1>0, <2>8 DEF SelectFetch
  <2>9. ASSUME SelectFill PROVE Goal
    BY <1>0, <2>9 DEF SelectFill
  <2>10. ASSUME SelectNothing PROVE Goal
    BY <1>0, <2>10 DEF SelectNothing
  <2>11. ASSUME ClearRelisted PROVE Goal
    BY <1>0, <2>11 DEF ClearRelisted
  <2>12. ASSUME DrawLogo PROVE Goal
    BY <2>0, <2>12 DEF DrawLogo
  <2>13. ASSUME DrawNoLogo PROVE Goal
    BY <1>0, <2>13 DEF DrawNoLogo
  <2>14. ASSUME CardLoad PROVE Goal
    BY <2>0, <2>14 DEF CardLoad
  <2>15. ASSUME CardFetch PROVE Goal
    BY <1>0, <2>15 DEF CardFetch
  <2>16. ASSUME CardFill PROVE Goal
    BY <1>0, <2>16 DEF CardFill
  <2>17. ASSUME CardNothing PROVE Goal
    BY <1>0, <2>17 DEF CardNothing
  <2>18. ASSUME NEW settle \in BOOLEAN, NEW sweep \in BOOLEAN, FrameEnd(settle, sweep) PROVE Goal
    BY <1>0, <2>18 DEF FrameEnd
  <2>19. ASSUME NEW n \in 1..Len(loaders), NEW texture \in {job.path, NULL}, LoaderEnds(n, texture) PROVE Goal
    BY <1>0, <2>19 DEF LoaderEnds
  <2>20. ASSUME ClearStarts PROVE Goal
    BY <1>0, <2>20 DEF ClearStarts
  <2>21. ASSUME ClearFrees PROVE Goal
    BY <1>0, <2>21 DEF ClearFrees
  <2>22. ASSUME ClearMarks PROVE Goal
    BY <1>0, <2>22 DEF ClearMarks
  <2>23. ASSUME ClearEnds PROVE Goal
    BY <1>0, <2>23 DEF ClearEnds
  <2>24. ASSUME AbortDownload PROVE Goal
    BY <1>0, <2>24 DEF AbortDownload
  <2>25. ASSUME RetryMissing PROVE Goal
    BY <1>0, <2>25 DEF RetryMissing
  <2>26. ASSUME thmFree PROVE Goal
    BY <1>0, <2>26 DEF thmFree
  <2>27. ASSUME NEW g \in Games, NEW window \in SUBSET Games, Navigate(g, window) PROVE Goal
    BY <1>0, <2>27 DEF Navigate
  <2>28. ASSUME Outside PROVE Goal
    BY <1>0, <2>28 DEF Outside
  <2>29. ASSUME UNCHANGED vars PROVE Goal
    BY <1>0, <2>29 DEF vars
  <2> QED
    BY <2>1, <2>2, <2>3, <2>4, <2>5, <2>6, <2>7, <2>8, <2>9, <2>10, <2>11,
       <2>12, <2>13, <2>14, <2>15, <2>16, <2>17, <2>18, <2>19, <2>20, <2>21,
       <2>22, <2>23, <2>24, <2>25, <2>26, <2>27, <2>28, <2>29 DEF Next, Gui,
       Loader, Download, Clearing, User
<1>2. ArtFits
  BY <1>1
<1>3. ASSUME CompleteStale PROVE ArtFits'
  BY <1>1, <1>2, <1>3, StaleFits
<1>4. ASSUME CompleteLoad PROVE ArtFits'
  BY <1>1, <1>2, <1>4, InstallFits
<1>5. ASSUME RecoverTimedOut PROVE ArtFits'
  BY <1>1, <1>2, <1>5, RecoverFits
<1>6. ASSUME NoLoadEnded PROVE ArtFits'
  BY <1>1, <1>2, <1>6, IdleFits DEF NoLoadEnded, async, draw, FrameStart
<1>7. ASSUME ClearResolved PROVE ArtFits'
  BY <1>1, <1>2, <1>7, ClearFits DEF ClearResolved, async
<1>8. ASSUME ClearSettled PROVE ArtFits'
  BY <1>1, <1>2, <1>8, ClearFits DEF ClearSettled, async
<1>9. ASSUME ClearNothing PROVE ArtFits'
  BY <1>1, <1>2, <1>9, IdleFits DEF ClearNothing, async, draw
<1>10. ASSUME SelectFetch PROVE ArtFits'
  <2>1. selected \in Games
    BY <1>0, <1>10, ArtConstants DEF SelectFetch, CardGame, Drawing
  <2> QED
    BY <1>1, <1>2, <1>10, <2>1, FetchFits DEF SelectFetch, async
<1>11. ASSUME SelectFill PROVE ArtFits'
  BY <1>1, <1>2, <1>11, FillKeepsFits DEF SelectFill, async
<1>12. ASSUME SelectNothing PROVE ArtFits'
  BY <1>1, <1>2, <1>12, IdleFits DEF SelectNothing, async, draw
<1>13. ASSUME ClearRelisted PROVE ArtFits'
  BY <1>1, <1>2, <1>13, ClearFits DEF ClearRelisted, async
<1>14. ASSUME DrawLogo PROVE ArtFits'
  <2>1. FindEntry(selected) \in 1..Len(gNetCache)
    BY <1>0, <1>14, EntryIsFound DEF DrawLogo, WantsLogo
  <2>2. /\ QueueTextureLoad(FindEntry(selected), "logo") /\ "logo" \in Kinds /\ frame' = "cards"
        /\ UNCHANGED <<gPS5CacheGeneration, clearing, fill, allocated>>
    BY <1>14 DEF DrawLogo, Kinds, Drawing
  <2> QED
    BY <1>1, <1>2, <2>1, <2>2, QueueFits
<1>15. ASSUME DrawNoLogo PROVE ArtFits'
  BY <1>1, <1>2, <1>15, IdleFits DEF DrawNoLogo, async, draw
<1>16. ASSUME CardLoad PROVE ArtFits'
  <2>1. FindEntry(CardGame) \in 1..Len(gNetCache)
    BY <1>0, <1>16, EntryIsFound DEF CardLoad, WantsCover
  <2>2. /\ QueueTextureLoad(FindEntry(CardGame), "cover") /\ "cover" \in Kinds /\ frame' = "cards"
        /\ UNCHANGED <<gPS5CacheGeneration, clearing, fill, allocated>>
    BY <1>16 DEF CardLoad, Kinds, Drawing
  <2> QED
    BY <1>1, <1>2, <2>1, <2>2, QueueFits
<1>17. ASSUME CardFetch PROVE ArtFits'
  <2>1. CardGame \in Games
    BY <1>0, <1>17, ArtConstants DEF CardFetch, CardGame, Drawing
  <2> QED
    BY <1>1, <1>2, <1>17, <2>1, FetchFits DEF CardFetch, async
<1>18. ASSUME CardFill PROVE ArtFits'
  BY <1>1, <1>2, <1>18, FillKeepsFits DEF CardFill, async
<1>19. ASSUME CardNothing PROVE ArtFits'
  BY <1>1, <1>2, <1>19, IdleFits DEF CardNothing, async, draw
<1>20. ASSUME NEW settle \in BOOLEAN, NEW sweep \in BOOLEAN, FrameEnd(settle, sweep) PROVE ArtFits'
  BY <1>1, <1>2, <1>20, SweepFits
<1>21. ASSUME NEW n \in 1..Len(loaders), NEW texture \in {job.path, NULL}, LoaderEnds(n, texture) PROVE ArtFits'
  BY <1>1, <1>2, <1>21, EndFits
<1>22. ASSUME RetryMissing PROVE ArtFits'
  BY <1>1, <1>2, <1>22, RetryFits
<1>23. ASSUME thmFree PROVE ArtFits'
  <2>1. /\ gNetCache' = <<>> /\ allocated' = allocated - Given(gNetCache) /\ job = NoJob
        /\ UNCHANGED <<gPS5CacheGeneration, job, gPS5AsyncTex, gPS5AsyncTexDone, clearing>>
    BY <1>1, <1>23 DEF thmFree, async
  <2>2. allocated' = allocated - Held(gNetCache)
    BY <1>2, <2>1, GivenIsHeld DEF ArtFits
  <2>3. gPS5CacheGeneration' \in Nat /\ gPS5CacheGeneration <= gPS5CacheGeneration'
    BY <2>1 DEF ArtTypes, TypeOK
  <2>4. (job # NoJob => job.generation # gPS5CacheGeneration)'
    BY <2>1 DEF NoJob
  <2> QED
    BY <1>1, <1>2, <2>1, <2>2, <2>3, <2>4, EmptyFits
<1>24. ASSUME NEW g \in Games, NEW window \in SUBSET Games, Navigate(g, window) PROVE ArtFits'
  BY <1>1, <1>2, <1>24, IdleFits DEF Navigate, async, draw
<1>25. ASSUME Outside PROVE ArtFits'
  BY <1>1, <1>2, <1>25, IdleFits DEF Outside, async, draw
<1>26. CASE Download
  BY <1>1, <1>2, <1>26, DownloadFits
<1>27. CASE AbortDownload
  BY <1>1, <1>27 DEF AbortDownload
<1>28. CASE UNCHANGED vars
  BY <1>1, <1>2, <1>28, IdleFits DEF vars, async, draw
<1> QED
  BY <1>3, <1>4, <1>5, <1>6, <1>7, <1>8, <1>9, <1>10, <1>11, <1>12, <1>13,
     <1>14, <1>15, <1>16, <1>17, <1>18, <1>19, <1>20, <1>21, <1>22, <1>23,
     <1>24, <1>25, <1>26, <1>27, <1>28 DEF Next, Gui, Loader, User

(* The cache fits until it is disturbed.                                   *)
THEOREM ArtInvariance == Spec => []ArtInv
<1>1. Init => (~disturbed => ArtFits)
  <2> SUFFICES ASSUME Init PROVE ArtFits
    OBVIOUS
  <2>1. gNetCache = <<>> /\ Len(<<>>) = 0 /\ Len(<<>>) \in Nat /\ \A i \in 1..0 : FALSE
    BY DEF Init
  <2>2. Held(<<>>) = 0
    BY <2>1, NothingHeld
  <2>3. TexturesFit /\ FillFits
    BY <2>1 DEF Init, TexturesFit, FillFits
  <2>4. LoadFits /\ ClearedBehind /\ ResultIsOfLoad
    BY DEF Init, LoadFits, ClearedBehind, ResultIsOfLoad, NoJob
  <2>5. NoTextureIsLost
    BY <2>1, <2>2 DEF Init, NoTextureIsLost
  <2> QED
    BY <2>3, <2>4, <2>5 DEF ArtFits
<1>2. ArtTypes /\ LoaderInv /\ (~disturbed => ArtFits) /\ [Next]_vars => (~disturbed => ArtFits)'
  BY ArtStep
<1> QED
  BY <1>1, <1>2, LoaderInvariance, ArtKeepsTypes, PTL DEF Spec, ArtInv

(* A texture that is shown belongs to the game and the place it is shown   *)
(* for, for every list of games and any number of events.                  *)
THEOREM CoverStaysOfGame == Spec => []CoverIsForGame
<1>1. ArtInv => CoverIsForGame
  BY DEF ArtInv, ArtFits, TexturesFit, CoverIsForGame, Slots
<1> QED
  BY <1>1, ArtInvariance, PTL

(* Every texture that was loaded is in the cache, waits to be taken over,  *)
(* or was given back, for every list of games and any number of events.    *)
THEOREM TexturesAreKept == Spec => []NoTextureIsLost
<1>1. ArtInv => NoTextureIsLost
  BY DEF ArtInv, ArtFits, NoTextureIsLost
<1> QED
  BY <1>1, ArtInvariance, PTL
=============================================================================
