------------------------------ MODULE MCInGame ------------------------------
(***************************************************************************)
(* Small instances of what runs on the I/O processor while a game does:    *)
(* the drive and its stream, reads by remote procedure, compressed images  *)
(* and virtual memory cards.  Their models share no state, so a behaviour  *)
(* chooses one of them and the others stay as they were at the start.      *)
(***************************************************************************)
EXTENDS CdStream, CdReadEE, ZsoRead, McEmu

VARIABLE module   \* the part that runs

inGameVars == <<module, vars, eeVars, zVars, mcVars>>

(* A part that does not run has one initial state.                         *)
InGameInit ==
    /\ module \in {"stream", "readee", "zso", "mcemu"}
    /\ Init /\ EeInit /\ ZInit /\ McInit
    /\ module = "stream" \/ ~user_cb
    /\ module = "zso" \/ \A b \in 1..ZBlocks : zIndex[b] = zIndex[b - 1] + ZSector

InGameNext ==
    \/ module = "stream" /\ Next /\ UNCHANGED <<module, eeVars, zVars, mcVars>>
    \/ module = "readee" /\ EeNext /\ UNCHANGED <<module, vars, zVars, mcVars>>
    \/ module = "zso" /\ ZNext /\ UNCHANGED <<module, vars, eeVars, mcVars>>
    \/ module = "mcemu" /\ McNext /\ UNCHANGED <<module, vars, eeVars, zVars>>

InGameSpec == InGameInit /\ [][InGameNext]_inGameVars
=============================================================================
