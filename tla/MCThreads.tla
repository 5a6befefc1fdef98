------------------------------ MODULE MCThreads ------------------------------
(***************************************************************************)
(* Small instances of three models of the threads of the launcher: the     *)
(* list of deferred operations between the worker and the GUI thread, the  *)
(* merged list of games that the operations build, and the background      *)
(* music.  MenuUpdate has its own, coarser, list of operations, so they    *)
(* share no state: a behaviour chooses one, and the others stay as they    *)
(* were at the start.                                                      *)
(***************************************************************************)
EXTENDS GuiOps, MenuUpdate, Bgm

CONSTANTS u1, h1

VARIABLE part   \* the part that runs

threadsVars == <<part, opsVars, vars, bgmVars>>

ThreadsInit == 
    /\ part \in {"ops", "menu", "music"}
    /\ OpsInit /\ Init /\ BgmInit
    /\ part = "music" \/ ~gEnableBGM

ThreadsNext ==
    \/ part = "ops" /\ OpsNext /\ UNCHANGED <<part, vars, bgmVars>>
    \/ part = "menu" /\ Next /\ UNCHANGED <<part, opsVars, bgmVars>>
    \/ part = "music" /\ BgmNext /\ UNCHANGED <<part, opsVars, vars>>

(* The fairness of OpsFairSpec, FairSpec and BgmSpec, each while its part   *)
(* runs.                                                                   *)
ThreadsFair ==
    /\ WF_opsVars(part = "ops" /\ Drain)
    /\ \A t \in Threads : WF_opsVars(part = "ops" /\ Finish(t))
    /\ WF_vars(part = "menu" /\ Gui) /\ WF_vars(part = "menu" /\ Worker)
    /\ SF_vars(part = "menu" /\ InputDone /\ queue' = Put(queue, "merged"))
    /\ WF_bgmVars(part = "music" /\ Player) /\ WF_bgmVars(part = "music" /\ Reader)
    /\ WF_bgmVars(part = "music" /\ GuiWorks)

ThreadsSpec == ThreadsInit /\ [][ThreadsNext]_threadsVars /\ ThreadsFair

(* ListsFollowDevices, of the behaviours in which the menu runs: a device  *)
(* that changes is followed by its list of games.                          *)
MenuFollowsDevices == part = "menu" => ListsFollowDevices
=============================================================================
