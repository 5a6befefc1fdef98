------------------------------ MODULE ArtCache ------------------------------
(***************************************************************************)
(* The artwork of the carousel: gNetCache, its loader thread and its       *)
(* clearing, in src/src/themes.c and src/src/opl.c.                        *)
(*                                                                         *)
(* The GUI thread draws a frame, looks for artwork of the games it shows   *)
(* and hands one file at a time to a loader thread of its own priority,    *)
(* whose stack and result are static.  The result is taken over at the     *)
(* start of a later frame, unless the cache was cleared in between, which  *)
(* a generation number tells.  The thread that downloads covers has a      *)
(* lower priority and clears the cache too: the GUI thread preempts it.    *)
(*                                                                         *)
(* The GUI thread gives way when it waits: for the vertical blank between  *)
(* frames, and for a device inside triggerNetFetch.                        *)
(***************************************************************************)
EXTENDS Integers, Sequences, FiniteSets

CONSTANTS
    Cards,        \* the games, in the order of the list
    Startups,     \* the games whose startup file is known: their device is probed
    BuiltIn,      \* the games that have a cover in the program
    NULL,
    ShowLogo,     \* gPS5ShowGamesLogo
    MaxLoads,     \* PS5_MAX_TEXTURE_LOADS_PER_FRAME
    MaxEvents     \* bound on what the user, the devices and the other threads do

Games == {Cards[n] : n \in 1..Len(Cards)}
Kinds == {"cover", "logo"}

ASSUME ArtCacheAssumption ==
    /\ Startups \subseteq Games /\ BuiltIn \subseteq Games
    /\ Len(Cards) \in Nat \ {0}
    /\ ShowLogo \in BOOLEAN /\ MaxLoads \in Nat /\ MaxEvents \in Nat

VARIABLES
    gNetCache,            \* the entries, the first gNetCacheCount ones
    gPS5CacheGeneration,
    gPS5AsyncTexRunning, gPS5AsyncTexDone,
    job,                  \* index, kind, generation and path of the load
    gPS5AsyncTex,         \* the texture loaded, or NULL
    loaders,              \* the loader threads, each on the CPU or waiting for a device
    clearing,             \* where the download thread is in clearNetCache
    frame,                \* where the GUI thread is in drawPS5Launcher
    card, loads, fill,    \* its locals: card drawn, loads asked for, entry being filled
    selected, shown,      \* the selected game and the games on the screen
    settled,              \* the same game was selected for PS5_LOGO_LOAD_DELAY_FRAMES
    navigating,           \* gPS5CarouselNavInterrupt > 0
    connected,            \* the device is present
    bdmPending,           \* a device event is not settled yet
    gPS5ArtworkResolveDirty, relisted,   \* reasons to clear the cache
    events, allocated,
    disturbed             \* history: the cache was emptied without a new generation, a load
                          \* was asked for while the download thread cleared the cache, or
                          \* that thread was terminated in the middle of it

async == <<gPS5AsyncTexRunning, gPS5AsyncTexDone, job, gPS5AsyncTex, loaders>>
draw == <<card, loads, fill>>
user == <<selected, shown, settled, navigating>>
why == <<connected, bdmPending, gPS5ArtworkResolveDirty, relisted, events>>
vars == <<gNetCache, gPS5CacheGeneration, async, clearing, frame, draw, user, why, allocated, disturbed>>

Textures == Games \X Kinds
Paths == {"none", "device", "embedded"}
LOADING == -2

Entry == [game : Games, path : [Kinds -> Paths], has : [Kinds -> {0, 1, -1, LOADING}],
          tex : [Kinds -> Textures \cup {NULL}]]
NoJob == [index |-> 0, kind |-> "cover", generation |-> 0, path |-> NULL]
NoClearing == [at |-> 0, kind |-> "cover", freed |-> FALSE]
NoFill == [index |-> 0, game |-> NULL]

TypeOK ==
    /\ gNetCache \in Seq(Entry)
    /\ gPS5CacheGeneration \in Nat
    /\ {gPS5AsyncTexRunning, gPS5AsyncTexDone, settled, navigating, connected, bdmPending,
        gPS5ArtworkResolveDirty, relisted, disturbed} \subseteq BOOLEAN
    /\ job \in [index : Nat, kind : Kinds, generation : Nat, path : Textures \cup {NULL}]
    /\ gPS5AsyncTex \in Textures \cup {NULL}
    /\ loaders \in Seq({"cpu", "io"})
    /\ clearing \in [at : Nat, kind : Kinds, freed : BOOLEAN]
    /\ frame \in {"vsync", "clear", "select", "selectStat", "list", "cards", "cardStat"}
    /\ card \in 1..(Len(Cards) + 1) /\ loads \in 0..MaxLoads
    /\ fill \in [index : Nat, game : Games \cup {NULL}]
    /\ selected \in Games /\ shown \subseteq Games
    /\ events \in 0..MaxEvents /\ allocated \in Int

Init ==
    /\ gNetCache = <<>> /\ gPS5CacheGeneration = 1
    /\ gPS5AsyncTexRunning = FALSE /\ gPS5AsyncTexDone = FALSE
    /\ job = NoJob /\ gPS5AsyncTex = NULL /\ loaders = <<>>
    /\ clearing = NoClearing
    /\ frame = "vsync" /\ card = 1 /\ loads = 0 /\ fill = NoFill
    /\ selected = Cards[1] /\ shown = Games
    /\ settled = FALSE /\ navigating = FALSE
    /\ connected = TRUE /\ bdmPending = FALSE
    /\ gPS5ArtworkResolveDirty = FALSE /\ relisted = FALSE
    /\ events = 0 /\ allocated = 0 /\ disturbed = FALSE

----------------------------------------------------------------------------
(* Scheduling: the loader has the GUI thread's priority and runs when it   *)
(* waits; the download thread runs when both wait.                         *)
GuiWaits == frame \in {"vsync", "selectStat", "cardStat"}
LoaderWaits == \A n \in 1..Len(loaders) : loaders[n] = "io"

Index(g) == {i \in 1..Len(gNetCache) : gNetCache[i].game = g}
Found(g) == Index(g) # {}
FindEntry(g) == CHOOSE i \in Index(g) : \A j \in Index(g) : i <= j

(* The textures the cache holds, and those that unloading gives back.      *)
Slots(cache) == (1..Len(cache)) \X Kinds
Held(cache) == Cardinality({s \in Slots(cache) : cache[s[1]].tex[s[2]] # NULL})
Given(cache) == Cardinality({s \in Slots(cache) : cache[s[1]].has[s[2]] = 1 /\ cache[s[1]].tex[s[2]] # NULL})

(* clearNetCache, called by the GUI thread, which does not give way in it. *)
clearNetCache ==
    /\ gPS5CacheGeneration' = gPS5CacheGeneration + 1
    /\ allocated' = allocated - Given(gNetCache)
    /\ gNetCache' = <<>>

(* unloadPS5CoverTexture, unloadPS5LogoTexture for some kinds of an entry. *)
Unload(e, kinds) ==
    LET gone == {k \in kinds : e.has[k] = 1}
    IN  [e EXCEPT !.has = [k \in Kinds |-> IF k \in gone THEN 0 ELSE @[k]],
                  !.tex = [k \in Kinds |-> IF k \in gone THEN NULL ELSE @[k]]]

----------------------------------------------------------------------------
(* drawPS5Launcher, first part: ps5CompleteAsyncTextureLoad,               *)
(* ps5RecoverTimedOutTextureLoad.                                          *)
(* Mutant: the generation is not compared.                                 *)
StaleByIndex == job.index \notin 1..Len(gNetCache)

Stale == job.generation # gPS5CacheGeneration \/ job.index \notin 1..Len(gNetCache)

(* Mutant: a logo that cannot be loaded keeps its state.                   *)
InstallLogoOnly(e, k) ==
    IF gPS5AsyncTex # NULL
    THEN [e EXCEPT !.tex[k] = gPS5AsyncTex, !.has[k] = 1]
    ELSE IF k = "logo" THEN e ELSE [e EXCEPT !.has[k] = -1]

Install(e, k) ==
    IF gPS5AsyncTex # NULL
    THEN [e EXCEPT !.tex[k] = gPS5AsyncTex, !.has[k] = 1]
    ELSE IF k = "cover" /\ e.game \in BuiltIn /\ e.path["cover"] # "embedded"
         THEN [e EXCEPT !.path["cover"] = "embedded", !.has["cover"] = 0]
         ELSE [e EXCEPT !.has[k] = -1]

FrameStart ==
    /\ frame = "vsync"
    /\ frame' = "clear" /\ card' = 1 /\ loads' = 0
    /\ UNCHANGED <<clearing, fill, user, why, disturbed, gPS5CacheGeneration>>

(* Mutant: the texture of a dropped load is not given back.                *)
CompleteStaleKeep ==
    /\ FrameStart
    /\ gPS5AsyncTexDone /\ Stale
    /\ gPS5AsyncTex' = NULL /\ job' = NoJob
    /\ gPS5AsyncTexDone' = FALSE /\ gPS5AsyncTexRunning' = FALSE
    /\ UNCHANGED <<gNetCache, loaders, allocated>>

CompleteStale ==
    /\ FrameStart
    /\ gPS5AsyncTexDone /\ Stale
    /\ allocated' = allocated - (IF gPS5AsyncTex # NULL THEN 1 ELSE 0)
    /\ gPS5AsyncTex' = NULL /\ job' = NoJob
    /\ gPS5AsyncTexDone' = FALSE /\ gPS5AsyncTexRunning' = FALSE
    /\ UNCHANGED <<gNetCache, loaders>>

CompleteLoad ==
    /\ FrameStart
    /\ gPS5AsyncTexDone /\ ~Stale
    /\ gNetCache' = [gNetCache EXCEPT ![job.index] = Install(@, job.kind)]
    /\ gPS5AsyncTex' = NULL /\ job' = NoJob
    /\ gPS5AsyncTexDone' = FALSE /\ gPS5AsyncTexRunning' = FALSE
    /\ UNCHANGED <<loaders, allocated>>

(* Mutant: the load that took too long is given up, and its thread is not. *)
RecoverGivesUp ==
    /\ FrameStart
    /\ gPS5AsyncTexRunning /\ ~gPS5AsyncTexDone
    /\ gPS5AsyncTexRunning' = FALSE
    /\ gNetCache' = IF ~Stale /\ gNetCache[job.index].has[job.kind] = LOADING
                    THEN [gNetCache EXCEPT ![job.index].has[job.kind] = 0] ELSE gNetCache
    /\ UNCHANGED <<gPS5AsyncTexDone, job, gPS5AsyncTex, loaders, allocated>>

(* PS5_TEX_LOAD_TIMEOUT_FRAMES have passed: the entry may be asked for     *)
(* again, but the thread is waited for.                                    *)
RecoverTimedOut ==
    /\ FrameStart
    /\ gPS5AsyncTexRunning /\ ~gPS5AsyncTexDone
    /\ gNetCache' = IF ~Stale /\ gNetCache[job.index].has[job.kind] = LOADING
                    THEN [gNetCache EXCEPT ![job.index].has[job.kind] = 0] ELSE gNetCache
    /\ UNCHANGED <<async, allocated>>

NoLoadEnded ==
    /\ FrameStart
    /\ ~gPS5AsyncTexDone
    /\ UNCHANGED <<gNetCache, async, allocated>>

(* The cache is cleared when a startup file was resolved, and when the     *)
(* events of the devices have settled.                                     *)
ClearResolved ==
    /\ frame = "clear" /\ gPS5ArtworkResolveDirty
    /\ gPS5ArtworkResolveDirty' = FALSE
    /\ clearNetCache
    /\ UNCHANGED <<async, clearing, frame, draw, user, connected, bdmPending, relisted, events, disturbed>>

ClearSettled ==
    /\ frame = "clear" /\ ~gPS5ArtworkResolveDirty /\ bdmPending
    /\ bdmPending' = FALSE /\ frame' = "select"
    /\ clearNetCache
    /\ UNCHANGED <<async, clearing, draw, user, connected, gPS5ArtworkResolveDirty, relisted, events,
                   disturbed>>

ClearNothing ==
    /\ frame = "clear" /\ ~gPS5ArtworkResolveDirty
    /\ frame' = "select"
    /\ UNCHANGED <<gNetCache, gPS5CacheGeneration, async, clearing, draw, user, why, allocated, disturbed>>

----------------------------------------------------------------------------
(* triggerNetFetch, up to the first file it looks for, where it waits.     *)
Known(g) ==
    /\ Found(g)
    /\ LET e == gNetCache[FindEntry(g)]
       IN  /\ e.has["cover"] # 0
           /\ ~ShowLogo \/ e.path["logo"] # "none" \/ e.has["logo"] = -1

Empty(g) == [game |-> g, path |-> [k \in Kinds |-> "none"], has |-> [k \in Kinds |-> 0],
             tex |-> [k \in Kinds |-> NULL]]

FetchReset(g) ==
    /\ allocated' = allocated - (IF Found(g) THEN Given(<<gNetCache[FindEntry(g)]>>) ELSE 0)
    /\ gNetCache' =
          IF Found(g)
          THEN [gNetCache EXCEPT ![FindEntry(g)] =
                   [Unload(@, Kinds) EXCEPT !.path = [k \in Kinds |-> "none"], !.has = [k \in Kinds |-> 0]]]
          ELSE Append(gNetCache, Empty(g))
    /\ fill' = [index |-> IF Found(g) THEN FindEntry(g) ELSE Len(gNetCache) + 1, game |-> g]

(* The rest of it.  The entry it fills is gone if the download thread      *)
(* cleared the cache meanwhile.                                            *)
ArtPath(g, k) ==
    IF g \in Startups THEN "device" ELSE IF k = "cover" /\ g \in BuiltIn THEN "embedded" ELSE "none"

FetchFill ==
    /\ gNetCache' =
          IF fill.index \in 1..Len(gNetCache)
          THEN [gNetCache EXCEPT ![fill.index] =
                   [@ EXCEPT !.game = fill.game,
                             !.path = [k \in Kinds |-> ArtPath(fill.game, k)],
                             !.has = [k \in Kinds |-> IF ArtPath(fill.game, k) = "none" THEN -1 ELSE 0]]]
          ELSE gNetCache
    /\ fill' = NoFill

(* ps5QueueTextureLoad.  A thread that cannot be created leaves no trace.  *)
CanQueue(i, k) ==
    /\ ~gPS5AsyncTexRunning /\ ~gPS5AsyncTexDone
    /\ gNetCache[i].has[k] = 0 /\ gNetCache[i].path[k] # "none"

Queue(i, k) ==
    /\ CanQueue(i, k)
    /\ job' = [index |-> i, kind |-> k, generation |-> gPS5CacheGeneration,
               path |-> <<gNetCache[i].game, k>>]
    /\ gPS5AsyncTexRunning' = TRUE
    /\ loaders' = Append(loaders, IF gNetCache[i].path[k] = "embedded" THEN "cpu" ELSE "io")
    /\ gNetCache' = [gNetCache EXCEPT ![i].has[k] = LOADING]
    /\ disturbed' = (disturbed \/ clearing # NoClearing)
    /\ UNCHANGED <<gPS5AsyncTexDone, gPS5AsyncTex, events>>

ThreadFails(i, k) ==
    /\ CanQueue(i, k)
    /\ events < MaxEvents /\ events' = events + 1
    /\ UNCHANGED <<gNetCache, async, disturbed>>

QueueTextureLoad(i, k) ==
    \/ Queue(i, k)
    \/ ThreadFails(i, k)
    \/ ~CanQueue(i, k) /\ UNCHANGED <<gNetCache, async, disturbed, events>>

----------------------------------------------------------------------------
(* The selected game is looked for once the selection has settled.         *)
MayLoad == connected /\ ~navigating

SelectFetch ==
    /\ frame = "select"
    /\ MayLoad /\ ~bdmPending /\ settled /\ ~Known(selected)
    /\ FetchReset(selected)
    /\ frame' = "selectStat"
    /\ UNCHANGED <<gPS5CacheGeneration, async, clearing, card, loads, user, why, disturbed>>

SelectFill ==
    /\ frame = "selectStat"
    /\ FetchFill
    /\ frame' = "list"
    /\ UNCHANGED <<gPS5CacheGeneration, async, clearing, card, loads, user, why, allocated, disturbed>>

SelectNothing ==
    /\ frame = "select"
    /\ ~(MayLoad /\ ~bdmPending /\ settled) \/ Known(selected)
    /\ frame' = "list"
    /\ UNCHANGED <<gNetCache, gPS5CacheGeneration, async, clearing, draw, user, why, allocated, disturbed>>

(* The first game of the list is another one.                              *)
ClearRelisted ==
    /\ frame = "list" /\ relisted
    /\ relisted' = FALSE
    /\ clearNetCache
    /\ UNCHANGED <<async, clearing, frame, draw, user, connected, bdmPending, gPS5ArtworkResolveDirty,
                   events, disturbed>>

(* The logo of the selected game.                                          *)
WantsLogo ==
    /\ Found(selected) /\ MayLoad /\ settled /\ loads < MaxLoads
    /\ LET e == gNetCache[FindEntry(selected)] IN e.path["logo"] # "none" /\ e.has["logo"] = 0

DrawLogo ==
    /\ frame = "list" /\ ~relisted
    /\ WantsLogo
    /\ loads' = loads + 1
    /\ QueueTextureLoad(FindEntry(selected), "logo")
    /\ frame' = "cards"
    /\ UNCHANGED <<gPS5CacheGeneration, clearing, card, fill, user, connected, bdmPending,
                   gPS5ArtworkResolveDirty, relisted, allocated>>

DrawNoLogo ==
    /\ frame = "list" /\ ~relisted
    /\ ~WantsLogo
    /\ frame' = "cards"
    /\ UNCHANGED <<gNetCache, gPS5CacheGeneration, async, clearing, draw, user, why, allocated, disturbed>>

(* preparePS5CarouselCardMedia for the next card.                          *)
CardGame == Cards[card]
Drawing == frame = "cards" /\ card <= Len(Cards)
WantsCover ==
    /\ CardGame \in shown /\ Found(CardGame)
    /\ LET e == gNetCache[FindEntry(CardGame)] IN e.path["cover"] # "none" /\ e.has["cover"] = 0
WantsFetch == CardGame \in shown /\ ~Found(CardGame)

CardLoad ==
    /\ Drawing /\ WantsCover /\ MayLoad /\ loads < MaxLoads
    /\ loads' = loads + 1
    /\ QueueTextureLoad(FindEntry(CardGame), "cover")
    /\ card' = card + 1
    /\ UNCHANGED <<gPS5CacheGeneration, clearing, frame, fill, user, connected, bdmPending,
                   gPS5ArtworkResolveDirty, relisted, allocated>>

CardFetch ==
    /\ Drawing /\ WantsFetch /\ MayLoad /\ loads < MaxLoads
    /\ loads' = loads + 1
    /\ FetchReset(CardGame)
    /\ frame' = "cardStat"
    /\ UNCHANGED <<gPS5CacheGeneration, async, clearing, card, user, why, disturbed>>

CardFill ==
    /\ frame = "cardStat"
    /\ FetchFill
    /\ frame' = "cards" /\ card' = card + 1
    /\ UNCHANGED <<gPS5CacheGeneration, async, clearing, loads, user, why, allocated, disturbed>>

CardNothing ==
    /\ Drawing /\ ~((WantsCover \/ WantsFetch) /\ MayLoad /\ loads < MaxLoads)
    /\ card' = card + 1
    /\ UNCHANGED <<gNetCache, gPS5CacheGeneration, async, clearing, frame, loads, fill, user, why, allocated,
                   disturbed>>

(* The end of the frame.  Every 30 frames sweepPS5TextureCache unloads     *)
(* what was not shown for PS5_TEXTURE_KEEP_FRAMES.                         *)
Unseen(e) == {k \in Kinds : e.game \notin (IF k = "cover" THEN shown ELSE {selected})}

FrameEnd(settle, sweep) ==
    /\ frame = "cards" /\ card > Len(Cards)
    /\ settled' = (settled \/ settle)
    /\ navigating' = (navigating /\ ~settle)
    /\ LET kept == [i \in 1..Len(gNetCache) |->
                       IF sweep THEN Unload(gNetCache[i], Unseen(gNetCache[i])) ELSE gNetCache[i]]
       IN  gNetCache' = kept /\ allocated' = allocated - (Held(gNetCache) - Held(kept))
    /\ frame' = "vsync" /\ card' = 1 /\ loads' = 0
    /\ UNCHANGED <<gPS5CacheGeneration, async, clearing, fill, selected, shown, why, disturbed>>

----------------------------------------------------------------------------
(* ps5LoadTextureThread.  What it does after the file was read does not    *)
(* wait, so the GUI thread sees it done as a whole.                        *)
LoaderEnds(n, texture) ==
    /\ GuiWaits /\ n \in 1..Len(loaders)
    /\ gPS5AsyncTex' = texture
    /\ allocated' = allocated + (IF texture # NULL THEN 1 ELSE 0)
    /\ gPS5AsyncTexDone' = TRUE /\ gPS5AsyncTexRunning' = FALSE
    /\ loaders' = [m \in 1..(Len(loaders) - 1) |-> loaders[IF m < n THEN m ELSE m + 1]]
    /\ UNCHANGED <<gNetCache, gPS5CacheGeneration, job, clearing, frame, draw, user, why, disturbed>>

(* ps5ClearCoverCache, called by the download thread after it has saved    *)
(* covers: clearNetCache step by step.                                     *)
DownloadRuns == GuiWaits /\ LoaderWaits
Advance == IF clearing.kind = "cover" THEN [clearing EXCEPT !.kind = "logo", !.freed = FALSE]
           ELSE [at |-> clearing.at + 1, kind |-> "cover", freed |-> FALSE]

ClearStarts ==
    /\ DownloadRuns /\ clearing = NoClearing
    /\ events < MaxEvents /\ events' = events + 1
    /\ gPS5CacheGeneration' = gPS5CacheGeneration + 1
    /\ clearing' = [NoClearing EXCEPT !.at = 1]
    /\ UNCHANGED <<gNetCache, async, frame, draw, user, connected, bdmPending, gPS5ArtworkResolveDirty,
                   relisted, allocated, disturbed>>

ClearFrees ==
    /\ DownloadRuns /\ clearing.at \in 1..Len(gNetCache) /\ ~clearing.freed
    /\ IF gNetCache[clearing.at].has[clearing.kind] = 1
       THEN /\ clearing' = [clearing EXCEPT !.freed = TRUE]
            /\ gNetCache' = [gNetCache EXCEPT ![clearing.at].tex[clearing.kind] = NULL]
            /\ allocated' = allocated - (IF gNetCache[clearing.at].tex[clearing.kind] # NULL THEN 1 ELSE 0)
       ELSE clearing' = Advance /\ UNCHANGED <<gNetCache, allocated>>
    /\ UNCHANGED <<gPS5CacheGeneration, async, frame, draw, user, why, disturbed>>

ClearMarks ==
    /\ DownloadRuns /\ clearing.freed
    /\ gNetCache' = IF clearing.at \in 1..Len(gNetCache)
                    THEN [gNetCache EXCEPT ![clearing.at].has[clearing.kind] = 0] ELSE gNetCache
    /\ clearing' = Advance
    /\ UNCHANGED <<gPS5CacheGeneration, async, frame, draw, user, why, allocated, disturbed>>

ClearEnds ==
    /\ DownloadRuns /\ clearing.at > Len(gNetCache) /\ ~clearing.freed
    /\ gNetCache' = <<>>
    /\ clearing' = NoClearing
    /\ UNCHANGED <<gPS5CacheGeneration, async, frame, draw, user, why, allocated, disturbed>>

(* oplAbortGameCoverDownload terminates the thread wherever it is; the     *)
(* download is in progress until the cache is cleared.                     *)
AbortDownload ==
    /\ frame = "vsync" /\ clearing # NoClearing
    /\ events < MaxEvents /\ events' = events + 1
    /\ clearing' = NoClearing
    /\ disturbed' = TRUE
    /\ UNCHANGED <<gNetCache, gPS5CacheGeneration, async, frame, draw, user, connected, bdmPending,
                   gPS5ArtworkResolveDirty, relisted, allocated>>

----------------------------------------------------------------------------
(* What happens between two frames, or to the devices.                     *)
Event == events < MaxEvents /\ events' = events + 1

(* The user moves in the carousel.                                         *)
Navigate(g, window) ==
    /\ frame = "vsync" /\ Event
    /\ g # selected /\ g \in window
    /\ selected' = g /\ shown' = window
    /\ settled' = FALSE /\ navigating' = TRUE
    /\ UNCHANGED <<gNetCache, gPS5CacheGeneration, async, clearing, frame, draw, connected, bdmPending,
                   gPS5ArtworkResolveDirty, relisted, allocated, disturbed>>

(* ps5RetryMissingCoverCache, on a refresh without a network.              *)
RetryMissing ==
    /\ frame = "vsync" /\ Event
    /\ gNetCache' = [i \in 1..Len(gNetCache) |-> [gNetCache[i] EXCEPT !.has =
            [k \in Kinds |-> IF gNetCache[i].path[k] # "none" /\ @[k] # 1 THEN 0 ELSE @[k]]]]
    /\ UNCHANGED <<gPS5CacheGeneration, async, clearing, frame, draw, user, connected, bdmPending,
                   gPS5ArtworkResolveDirty, relisted, allocated, disturbed>>

(* thmFree empties the cache and leaves its generation.                    *)
thmFree ==
    /\ frame = "vsync" /\ Event
    /\ gNetCache' = <<>> /\ allocated' = allocated - Given(gNetCache)
    /\ disturbed' = (disturbed \/ job # NoJob)
    /\ UNCHANGED <<gPS5CacheGeneration, async, clearing, frame, draw, user, connected, bdmPending,
                   gPS5ArtworkResolveDirty, relisted>>

(* A device event; a startup file resolved by the I/O worker; a rebuilt    *)
(* list that begins with another game.  They only raise flags that a frame *)
(* looks at once, so it is enough to let them come while it waits.         *)
Outside ==
    /\ GuiWaits /\ Event
    /\ \/ bdmPending' = TRUE /\ connected' \in BOOLEAN /\ UNCHANGED <<gPS5ArtworkResolveDirty, relisted>>
       \/ gPS5ArtworkResolveDirty' = TRUE /\ UNCHANGED <<connected, bdmPending, relisted>>
       \/ relisted' = TRUE /\ UNCHANGED <<connected, bdmPending, gPS5ArtworkResolveDirty>>
    /\ UNCHANGED <<gNetCache, gPS5CacheGeneration, async, clearing, frame, draw, user, allocated, disturbed>>

----------------------------------------------------------------------------
Gui ==
    \/ CompleteStale \/ CompleteLoad \/ RecoverTimedOut \/ NoLoadEnded
    \/ ClearResolved \/ ClearSettled \/ ClearNothing
    \/ SelectFetch \/ SelectFill \/ SelectNothing \/ ClearRelisted \/ DrawLogo \/ DrawNoLogo
    \/ CardLoad \/ CardFetch \/ CardFill \/ CardNothing
    \/ \E settle, sweep \in BOOLEAN : FrameEnd(settle, sweep)
Loader == \E n \in 1..Len(loaders), texture \in {job.path, NULL} : LoaderEnds(n, texture)
Clearing == ClearFrees \/ ClearMarks \/ ClearEnds
Download == ClearStarts \/ Clearing
User == AbortDownload \/ RetryMissing \/ thmFree \/ \E g \in Games, window \in SUBSET Games : Navigate(g, window)
Next == Gui \/ Loader \/ Download \/ User \/ Outside
Spec == Init /\ [][Next]_vars

(* Frames are drawn one after the other; a file is read or is not; the     *)
(* loader and the download thread get the CPU while others wait; a         *)
(* selection that stays settles, and so do the events of the devices.      *)
FairSpec ==
    /\ Spec
    /\ WF_vars(Gui) /\ SF_vars(Loader)
    /\ SF_vars(\E sweep \in BOOLEAN : FrameEnd(TRUE, sweep)) /\ SF_vars(ClearSettled) /\ SF_vars(Clearing)

----------------------------------------------------------------------------
(* The loader's stack and result are static: a second thread is never      *)
(* started while one is at work, whatever timed out or was cleared.        *)
OneLoader == Len(loaders) <= 1

(* A texture that is shown belongs to the game and the place it is shown   *)
(* for: a load that ends after the cache was cleared is dropped.  (Not so  *)
(* after thmFree during a load, a load that was started while the download *)
(* thread cleared the cache, or the termination of that thread.)           *)
CoverIsForGame ==
    disturbed \/ \A s \in Slots(gNetCache) :
        LET e == gNetCache[s[1]] IN e.tex[s[2]] \in {NULL, <<e.game, s[2]>>}

(* Every texture that was loaded is in the cache, waits to be taken over,  *)
(* or was given back: the memory of the console is not used up by          *)
(* browsing.  (With the same exceptions.)                                  *)
NoTextureIsLost ==
    disturbed \/ allocated = Held(gNetCache) + (IF gPS5AsyncTex # NULL THEN 1 ELSE 0)

(* No entry stays in the state PS5_TEX_LOADING, in which it is not asked   *)
(* for again.  (With the same exceptions.)                                 *)
Loading == \E s \in Slots(gNetCache) : gNetCache[s[1]].has[s[2]] = LOADING
LoadingEnds == []<>(disturbed \/ ~Loading)
=============================================================================
