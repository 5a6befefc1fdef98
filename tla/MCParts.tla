------------------------------ MODULE MCParts ------------------------------
(***************************************************************************)
(* Small instances of five parts of the launcher that only safety is asked *)
(* of: wireless controllers, the carousel, the launcher's settings, the    *)
(* list of games of a device and the creation of virtual memory cards.     *)
(* They share no state, so a behaviour chooses one of them and the others  *)
(* stay as they were at the start: the states are the sum of theirs, not   *)
(* the product.                                                            *)
(***************************************************************************)
EXTENDS MCSettings, Ds34Bt, Carousel, GameList, GenVmc

VARIABLE part   \* the part that runs

partsVars == <<part, btVars, caVars, stVars, glVars, vmcVars>>

(* Two entries are copies of one game, the second one's title has an       *)
(* article, the last one's begins with a digit.                            *)
MCStartup == <<"s1", "s2", "s3", "s1">>
MCFirstLetter == <<3, 4, 4, 0>>
MCSortLetter == <<3, 3, 4, 0>>

(* Two names in the directory of CDs, one of them in both forms.           *)
MCGlDirs == <<"CD", "DVD">>
MCGlFiles == [CD |-> [id : {"none"}, name : {"a", "b"}] \cup [id : {"s"}, name : {"a"}],
              DVD |-> [id : {"none"}, name : {"a"}]]
MCGlHeld == [a |-> {"t", "bad"}, b |-> {"u"}]

(* A part that does not run has one initial state.                         *)
PartsInit ==
    /\ part \in {"ds34bt", "carousel", "settings", "gamelist", "genvmc"}
    /\ BtInit /\ CaInit /\ StInit /\ GlInit /\ VmcInit
    /\ part = "carousel" \/ (file.last = NoStartup /\ sortMode = 1)
    /\ part = "settings" \/ legacyOn = {}
    /\ part = "gamelist" \/ ~smb
    /\ part = "genvmc" \/ vmcFile = NoVmc

PartsNext ==
    \/ part = "ds34bt" /\ BtNext /\ UNCHANGED <<part, caVars, stVars, glVars, vmcVars>>
    \/ part = "carousel" /\ CaNext /\ UNCHANGED <<part, btVars, stVars, glVars, vmcVars>>
    \/ part = "settings" /\ StNext /\ UNCHANGED <<part, btVars, caVars, glVars, vmcVars>>
    \/ part = "gamelist" /\ GlNext /\ UNCHANGED <<part, btVars, caVars, stVars, vmcVars>>
    \/ part = "genvmc" /\ VmcNext /\ UNCHANGED <<part, btVars, caVars, stVars, glVars>>

PartsSpec == PartsInit /\ [][PartsNext]_partsVars

(* The variables of the five parts have their types.                       *)
PartsTypeOK ==
    BtTypeOK /\ CaTypeOK /\ StTypeOK /\ GlTypeOK /\ VmcTypeOK
=============================================================================
