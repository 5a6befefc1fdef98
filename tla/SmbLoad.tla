------------------------------ MODULE SmbLoad ------------------------------
(***************************************************************************)
(* Games on a network share: the loading of the list and the check of the  *)
(* connection (src/src/menusys.c 3051-3415), with the network start of     *)
(* src/src/ethsupport.c that both run on the worker of the I/O manager,    *)
(* and the rebuilds of the merged menu they ask for.                       *)
(*                                                                         *)
(* A request is at the head of the queue while it is served, so            *)
(* ioHasPendingRequests is "the queue is not empty".  The worker preempts  *)
(* the GUI thread, which runs while the worker waits for the network, for  *)
(* a device or for a request.  gNetworkStartup is kept as the class of its *)
(* codes that the code tells apart: "ok" (0), "notStarted" (100), "module" *)
(* (200, 201), "smb" (300 and above) and "link" (ERROR_ETH_LINK_FAIL).     *)
(* The network is enabled and the name of the share is not empty.          *)
(***************************************************************************)
EXTENDS Naturals, Sequences, SequencesExt

CONSTANTS
    Servers,     \* the settings of the connection
    GoodServer,  \* those of a server that answers
    ShareGames,  \* the games on its share
    NoServer,    \* no session
    MaxFaults    \* bound on the changes of the network and the failures of modules

ASSUME SmbLoadAssumption ==
    /\ GoodServer \in Servers /\ NoServer \notin Servers /\ MaxFaults \in Nat

VARIABLES
    net,         \* [link, server, faults]: the cable, the server and what changed so far
    eth,         \* [enabled, loaded]: ethGameList.enabled, ethModulesLoaded
    gNetworkStartup,
    ethGames,    \* the list of games in memory
    session,     \* the settings the session with the server was opened with, or NoServer
    rqs,         \* the queue of the I/O manager
    at,          \* what the worker waits for: "idle", the request it serves, or "read"
    forced,      \* ps5MergedForceRebuildPending
    listing,     \* the worker rebuilds the merged menu
    menuGames,   \* the games of the share in the merged menu
    smb,         \* [prompt, status, queued, loading, had]: gPS5SmbPromptState, LoadStatus,
                 \* RefreshQueued, UiLoading, HadGamesBeforeLoad
    check,       \* gPS5SmbCheckDialogState
    tab,         \* gPS5ActiveTab: "games" or "settings"
    live, temp   \* the settings of the connection, and those of the settings screen

smbNet == <<net, eth, gNetworkStartup, ethGames, session>>
smbIo == <<rqs, at, forced, listing, menuGames>>
smbUi == <<smb, check, tab, live, temp>>
smbVars == <<smbNet, smbIo, smbUi>>

(* A request is never queued twice.                                        *)
SmbTypeOK ==
    /\ net \in [link: BOOLEAN, server: BOOLEAN, faults: 0..MaxFaults]
    /\ eth \in [enabled: BOOLEAN, loaded: BOOLEAN]
    /\ gNetworkStartup \in {"ok", "notStarted", "module", "smb", "link"}
    /\ ethGames \in SUBSET ShareGames /\ menuGames \in SUBSET ShareGames
    /\ session \in Servers \cup {NoServer}
    /\ rqs \in Seq({"load", "modules", "connect", "check", "merged"}) /\ IsInjective(rqs)
    /\ at \in {"idle", "load", "modules", "connect", "read", "check", "merged"}
    /\ {forced, listing} \subseteq BOOLEAN
    /\ smb \in [prompt: 0..2, status: 0..2, queued: BOOLEAN, loading: BOOLEAN, had: BOOLEAN]
    /\ check \in 0..3 /\ tab \in {"games", "settings"} /\ {live, temp} \subseteq Servers

SmbInit ==
    /\ net = [link |-> TRUE, server |-> TRUE, faults |-> 0]
    /\ eth = [enabled |-> FALSE, loaded |-> FALSE]
    /\ gNetworkStartup = "notStarted" /\ ethGames = {} /\ session = NoServer
    /\ rqs = <<>> /\ at = "idle" /\ forced = FALSE /\ listing = FALSE /\ menuGames = {}
    /\ smb = [prompt |-> 0, status |-> 0, queued |-> FALSE, loading |-> FALSE, had |-> FALSE]
    /\ check = 0 /\ tab = "games" /\ live \in Servers /\ temp = live

----------------------------------------------------------------------------
(* ioPutRequest; an update of the menu is queued once.                     *)
PutRq(q, r) == IF r = "merged" /\ Contains(q, r) THEN q ELSE Append(q, r)

(* ethIsNetworkLinkUp.                                                     *)
LinkUp == eth.loaded /\ net.link

Serving(r) == at = r /\ rqs # <<>>
Begin(r) == at = "idle" /\ rqs # <<>> /\ Head(rqs) = r
(* The worker waits, and the GUI thread runs.                              *)
WorkerWaits == at # "idle" \/ rqs = <<>>

(* ethInit: which request it puts, and the code it leaves.                 *)
Restarts == gNetworkStartup \in {"smb", "link"}

EthInit(q) ==
    /\ rqs' = Append(q, IF Restarts THEN "connect" ELSE "modules")
    /\ ethGames' = {} /\ eth' = [eth EXCEPT !.enabled = TRUE]
    /\ gNetworkStartup' = IF Restarts THEN gNetworkStartup ELSE "notStarted"

(* ps5LoadSmbGamesTask.  The state of the link is asked of the IOP twice.  *)
LoadBegin ==
    /\ Begin("load")
    /\ IF eth.enabled /\ ~LinkUp
         THEN /\ ethGames' = {} /\ gNetworkStartup' = "link"
              /\ smb' = [smb EXCEPT !.status = 2]
              /\ rqs' = Tail(rqs) /\ UNCHANGED <<eth, at>>
         ELSE /\ at' = "load" /\ UNCHANGED smb
              /\ IF ~eth.enabled \/ gNetworkStartup # "ok"
                   THEN EthInit(rqs)
                   ELSE UNCHANGED <<rqs, eth, ethGames, gNetworkStartup>>
    /\ UNCHANGED <<net, session, forced, listing, menuGames, check, tab, live, temp>>

(* ethUpdateGameList; it reads nothing unless the network has started.     *)
UpdateList ==
    /\ ethGames' = IF gNetworkStartup # "ok" THEN ethGames
                   ELSE IF net.link /\ net.server THEN ShareGames ELSE {}
    /\ UNCHANGED gNetworkStartup

LoadEnd ==
    /\ Serving("load")
    /\ IF LinkUp THEN UpdateList ELSE ethGames' = {} /\ gNetworkStartup' = "link"
    /\ smb' = [smb EXCEPT !.status = 2]
    /\ at' = "idle" /\ rqs' = Tail(rqs)
    /\ UNCHANGED <<net, eth, session, forced, listing, menuGames, check, tab, live, temp>>

(* smbLoadModules; a module may fail to load.                              *)
ModulesBegin ==
    /\ Begin("modules") /\ at' = "modules"
    /\ UNCHANGED <<smbNet, rqs, forced, listing, menuGames, smbUi>>

ModulesFail ==
    /\ Serving("modules") /\ net.faults < MaxFaults
    /\ net' = [net EXCEPT !.faults = @ + 1]
    /\ \E loaded \in {TRUE, eth.loaded} : eth' = [eth EXCEPT !.loaded = loaded]
    /\ gNetworkStartup' = "module"
    /\ at' = "idle" /\ rqs' = Tail(rqs)
    /\ UNCHANGED <<ethGames, session, forced, listing, menuGames, smbUi>>

ModulesLoaded ==
    /\ Serving("modules")
    /\ eth' = [eth EXCEPT !.loaded = TRUE] /\ gNetworkStartup' = "module"
    /\ at' = "connect"
    /\ UNCHANGED <<net, ethGames, session, rqs, forced, listing, menuGames, smbUi>>

ConnectBegin ==
    /\ Begin("connect") /\ at' = "connect"
    /\ UNCHANGED <<smbNet, rqs, forced, listing, menuGames, smbUi>>

(* ethInitSMB: ethInitApplyConfig waits for the link at most 30 seconds,   *)
(* then ethSMBConnect logs on and opens the share.                         *)
Connect ==
    /\ Serving("connect")
    /\ gNetworkStartup' = IF ~net.link THEN "link"
                          ELSE IF net.server /\ live = GoodServer THEN "ok" ELSE "smb"
    /\ session' = IF gNetworkStartup' = "ok" THEN live ELSE session
    /\ at' = IF gNetworkStartup' = "ok" THEN "read" ELSE "idle"
    /\ rqs' = IF gNetworkStartup' = "ok" THEN rqs ELSE Tail(rqs)
    /\ UNCHANGED <<net, eth, ethGames, forced, listing, menuGames, smbUi>>

(* The list is read by ethInitSMB.                                         *)
ReadList ==
    /\ Serving("read") /\ UpdateList
    /\ at' = "idle" /\ rqs' = Tail(rqs)
    /\ UNCHANGED <<net, eth, session, forced, listing, menuGames, smbUi>>

(* ps5CheckSmbConnectionTask: ethCleanUp frees the list and closes the     *)
(* session, ethDeinitModules, then ethInit.                                *)
CheckBegin ==
    /\ Begin("check") /\ at' = "check"
    /\ ethGames' = IF eth.enabled THEN {} ELSE ethGames
    /\ session' = NoServer
    /\ UNCHANGED <<net, eth, gNetworkStartup, rqs, forced, listing, menuGames, smbUi>>

CheckEnd ==
    /\ Serving("check")
    /\ eth' = [enabled |-> TRUE, loaded |-> FALSE]
    /\ ethGames' = {} /\ gNetworkStartup' = "notStarted"
    /\ rqs' = Append(Tail(rqs), "modules") /\ at' = "idle"
    /\ UNCHANGED <<net, session, forced, listing, menuGames, smbUi>>

(* menuDeferredUpdate for the merged menu, which is skipped while the      *)
(* settings are open; another source may need an update as well.  In the   *)
(* end the pending rebuild is forgotten.                                   *)
MergedBegin ==
    /\ Begin("merged")
    /\ IF tab = "settings" THEN rqs' = Tail(rqs) /\ UNCHANGED at
                           ELSE at' = "merged" /\ UNCHANGED rqs
    /\ UNCHANGED <<smbNet, forced, listing, menuGames, smbUi>>

MergedRebuild ==
    /\ Serving("merged") /\ ~listing
    /\ \E other \in BOOLEAN : listing' = (forced \/ other)
    /\ menuGames' = IF listing' THEN (IF eth.enabled THEN ethGames ELSE {}) ELSE menuGames
    /\ IF listing' THEN UNCHANGED <<at, rqs, forced>>
                   ELSE at' = "idle" /\ rqs' = Tail(rqs) /\ forced' = FALSE
    /\ UNCHANGED <<smbNet, smbUi>>

MergedEnd ==
    /\ Serving("merged") /\ listing
    /\ listing' = FALSE /\ forced' = FALSE
    /\ at' = "idle" /\ rqs' = Tail(rqs)
    /\ UNCHANGED <<smbNet, menuGames, smbUi>>

SmbWorker ==
    \/ LoadBegin \/ LoadEnd \/ ModulesBegin \/ ModulesFail \/ ModulesLoaded \/ ConnectBegin \/ Connect
    \/ ReadList \/ CheckBegin \/ CheckEnd \/ MergedBegin \/ MergedRebuild \/ MergedEnd

----------------------------------------------------------------------------
Pending == rqs # <<>>

(* ps5SmbOperationActive: the keys are ignored, as they are under the      *)
(* dialog of a check.                                                      *)
OperationActive == smb.prompt = 2 \/ smb.status = 1 \/ smb.queued \/ smb.loading
Keys == WorkerWaits /\ ~OperationActive /\ check = 0

QueuedLoad == [prompt |-> 2, status |-> 1, queued |-> FALSE, loading |-> TRUE, had |-> ethGames # {}]
NoLoad == [prompt |-> 1, status |-> 0, queued |-> FALSE, loading |-> FALSE, had |-> FALSE]

(* ps5QueueSmbLoad.                                                        *)
QueueSmbLoad(q) ==
    /\ gNetworkStartup' = IF gNetworkStartup = "ok" THEN "smb" ELSE gNetworkStartup
    /\ smb' = QueuedLoad
    /\ rqs' = Append(q, "load")

AutoLoad ==
    /\ Keys /\ tab = "games" /\ smb.prompt = 0 /\ ~Pending
    /\ ~eth.enabled \/ gNetworkStartup # "ok"
    /\ QueueSmbLoad(rqs)
    /\ UNCHANGED <<net, eth, ethGames, session, at, forced, listing, menuGames, check, tab, live, temp>>

(* Square on the list of games: oplRefreshMergedGameList, and a load       *)
(* unless the link is known to be down (ps5SmbKnownLinkDown).              *)
Refresh ==
    /\ Keys /\ tab = "games" /\ ~Pending
    /\ IF eth.enabled /\ gNetworkStartup = "link" /\ ~LinkUp
         THEN smb' = NoLoad /\ UNCHANGED <<gNetworkStartup, rqs, forced>>
         ELSE QueueSmbLoad(<<"merged">>) /\ forced' = TRUE
    /\ UNCHANGED <<net, eth, ethGames, session, at, listing, menuGames, check, tab, live, temp>>

(* ps5UpdateSmbDialog, in every frame: the menu is rebuilt when games were *)
(* or are listed, and the load ends when the queue is empty.               *)
UpdateSmbDialog ==
    /\ WorkerWaits /\ smb.prompt = 2 /\ smb.status # 1
    /\ LET rebuild == ~smb.queued /\ smb.status = 2
                      /\ (gNetworkStartup = "ok" \/ (smb.had /\ ~Pending))
       IN \/ /\ rebuild
             /\ rqs' = PutRq(rqs, "merged") /\ forced' = TRUE /\ smb' = [smb EXCEPT !.queued = TRUE]
          \/ /\ ~rebuild /\ ~Pending
             /\ smb' = NoLoad /\ UNCHANGED <<rqs, forced>>
    /\ UNCHANGED <<smbNet, at, listing, menuGames, check, tab, live, temp>>

(* menuUpdateHook.                                                         *)
Hook ==
    /\ WorkerWaits /\ tab = "games" /\ ~Contains(rqs, "merged")
    /\ rqs' = Append(rqs, "merged")
    /\ UNCHANGED <<smbNet, at, forced, listing, menuGames, smbUi>>

(* The settings screen: R1 copies the settings (ps5CopySmbSettingsToTemp), *)
(* L1 leaves it.                                                           *)
SwitchTab ==
    /\ Keys
    /\ tab' = IF tab = "games" THEN "settings" ELSE "games"
    /\ temp' = IF tab = "games" THEN live ELSE temp
    /\ UNCHANGED <<smbNet, smbIo, smb, check, live>>

EditServer ==
    /\ Keys /\ tab = "settings" /\ temp' \in Servers \ {temp}
    /\ UNCHANGED <<smbNet, smbIo, smb, check, tab, live>>

(* ps5StartSmbConnectionCheck applies the settings.                        *)
StartCheck ==
    /\ Keys /\ tab = "settings"
    /\ live' = temp /\ check' = 1 /\ rqs' = Append(rqs, "check")
    /\ UNCHANGED <<smbNet, at, forced, listing, menuGames, smb, tab, temp>>

(* A mutant of UpdateCheckDialog: the result is read while requests wait.*)
UpdateCheckDialogNoWait ==
    /\ WorkerWaits /\ check = 1
    /\ check' = IF gNetworkStartup = "ok" THEN 2 ELSE 3
    /\ UNCHANGED <<smbNet, smbIo, smb, tab, live, temp>>

(* ps5UpdateSmbCheckDialog.                                                *)
UpdateCheckDialog ==
    /\ WorkerWaits /\ check = 1 /\ ~Pending
    /\ check' = IF gNetworkStartup = "ok" THEN 2 ELSE 3
    /\ UNCHANGED <<smbNet, smbIo, smb, tab, live, temp>>

(* A mutant of CloseCheck: the list is not read again.                   *)
CloseCheckNoRefresh ==
    /\ WorkerWaits /\ check \in {2, 3}
    /\ check' = 0
    /\ UNCHANGED <<smbNet, smbIo, smb, tab, live, temp>>

CloseCheck ==
    /\ WorkerWaits /\ check \in {2, 3}
    /\ check' = 0
    /\ rqs' = PutRq(rqs, "merged") /\ forced' = TRUE
    /\ UNCHANGED <<smbNet, at, listing, menuGames, smb, tab, live, temp>>

(* ps5SaveSettings, as far as the network goes.                            *)
SaveServer ==
    /\ Keys /\ tab = "settings"
    /\ live' = temp /\ smb' = NoLoad
    /\ UNCHANGED <<smbNet, smbIo, check, tab, temp>>

SmbFrame == UpdateSmbDialog \/ UpdateCheckDialog \/ Hook
SmbUser == AutoLoad \/ Refresh \/ SwitchTab \/ EditServer \/ StartCheck \/ CloseCheck \/ SaveServer

(* The cable and the server.                                               *)
NetChanges ==
    /\ net.faults < MaxFaults
    /\ \/ net' = [net EXCEPT !.faults = @ + 1, !.link = ~@]
       \/ net' = [net EXCEPT !.faults = @ + 1, !.server = ~@]
    /\ UNCHANGED <<eth, gNetworkStartup, ethGames, session, smbIo, smbUi>>

SmbNext == SmbWorker \/ SmbFrame \/ SmbUser \/ NetChanges

(* The worker is scheduled and the calls of the network return; a frame    *)
(* looks at the dialogs again and again, whatever the user does between,   *)
(* and at the list when its turn comes.                                    *)
SmbFair ==
    /\ WF_smbVars(SmbWorker) /\ WF_smbVars(Hook)
    /\ SF_smbVars(UpdateSmbDialog) /\ SF_smbVars(UpdateCheckDialog)
SmbSpec == SmbInit /\ [][SmbNext]_smbVars /\ SmbFair

----------------------------------------------------------------------------
(* "Connection successful!" is about the settings that are in use: the     *)
(* session was opened with them by this check, and not by an earlier one   *)
(* (menusys.c:3219-3230).                                                  *)
CheckTellsItsResult == check = 2 => session = live

(* The loading of the share ends, whatever the network does: until then    *)
(* every key is ignored (menusys.c:3130, 4057).                            *)
LoadingEnds == smb.loading ~> ~smb.loading

(* The dialog of a check gets its answer.                                  *)
CheckEnds == check = 1 ~> check # 1

NetworkIsGood == net.link /\ net.server /\ net.faults = MaxFaults /\ live = GoodServer

(* A load over a network that works connects, however the attempts before  *)
(* it failed, unless the modules could not be loaded (menusys.c:3056).     *)
LoadConnects ==
    smb.status = 1 /\ at # "load" /\ NetworkIsGood /\ eth.loaded
      ~> gNetworkStartup = "ok" \/ ~NetworkIsGood \/ ~eth.loaded

(* The menu follows the list of the share: a rebuild asked for while the   *)
(* settings are open, or while another one runs, is not lost.              *)
MenuFollowsShare ==
    \A g \in SUBSET ShareGames : <>[](ethGames = g /\ tab = "games") => <>[](menuGames = g)

(* The share gets into the menu, however often the network failed before.  *)
ShareIsReached == LoadConnects /\ MenuFollowsShare
=============================================================================
