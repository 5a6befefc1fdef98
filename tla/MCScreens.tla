----------------------------- MODULE MCScreens -----------------------------
(***************************************************************************)
(* Small instances of the three screens that wait for the worker of the    *)
(* I/O manager: the settings of a game, the Apps tab and the SMB load.     *)
(* They are modelled without common state, so a behaviour chooses one of   *)
(* them and the others stay as they were at the start: the states are the  *)
(* sum of theirs, not the product.                                         *)
(***************************************************************************)
EXTENDS GameConfig, AppsScan, SmbLoad

VARIABLE part   \* the part that runs

screensVars == <<part, gcVars, appsVars, smbVars>>

(* A part that does not run has one initial state.                         *)
ScreensInit ==
    /\ part \in {"config", "apps", "smb"}
    /\ GcInit /\ AppsInit /\ SmbInit
    /\ part = "config" \/ current = CHOOSE g \in GcGames : TRUE
    /\ part = "apps" \/ \A r \in DOMAIN onDevice : onDevice[r] = {}
    /\ part = "smb" \/ live = GoodServer

ScreensNext ==
    \/ part = "config" /\ GcNext /\ UNCHANGED <<part, appsVars, smbVars>>
    \/ part = "apps" /\ AppsNext /\ UNCHANGED <<part, gcVars, smbVars>>
    \/ part = "smb" /\ SmbNext /\ UNCHANGED <<part, gcVars, appsVars>>

(* The fairness of each part (GcFair, AppsFair and SmbFair), while it runs. *)
ScreensFair ==
    /\ WF_gcVars(part = "config" /\ Worker)
    /\ WF_gcVars(part = "config" /\ GuiRuns)
    /\ WF_gcVars(part = "config" /\ FrameRequests)
    /\ WF_appsVars(part = "apps" /\ AppsWorker)
    /\ WF_smbVars(part = "smb" /\ SmbWorker)
    /\ WF_smbVars(part = "smb" /\ Hook)
    /\ SF_smbVars(part = "smb" /\ UpdateSmbDialog)
    /\ SF_smbVars(part = "smb" /\ UpdateCheckDialog)

ScreensSpec == ScreensInit /\ [][ScreensNext]_screensVars /\ ScreensFair

(* The variables of the three parts have their types.                      *)
ScreensTypeOK == GcTypeOK /\ AppsTypeOK /\ SmbTypeOK

(* Every screen that waits for the worker gets out of it: the options of a *)
(* game (guiHandleDeferedIO), the scan of the applications, the dialogs of *)
(* the SMB load and check.  The exceptions are those of the parts.         *)
WaitsEnd == LoadWaitEnds /\ SaveWaitEnds /\ AppsScanEnds /\ LoadingEnds /\ CheckEnds
=============================================================================
