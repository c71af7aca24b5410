---------------------------- MODULE MCServiceFiles ----------------------------
(***************************************************************************)
(* An instance of the two looks that the main loop takes at the disk, the  *)
(* check of local.conf and the scan of moons.d, for TLC.  Neither touches  *)
(* the state of the other, so a behaviour has only one of them.            *)
(***************************************************************************)
EXTENDS MoonsDir, ConfWatch

CONSTANTS m1, m2

VARIABLE busy    \* the one that this behaviour has, fixed at the start

FilesInit ==
    /\ Init /\ ConfInit
    /\ \/ busy = "moons.d" /\ now = 0
       \/ busy = "local.conf" /\ others = {} /\ Files = {}

FilesNext ==
    /\ UNCHANGED busy
    /\ \/ busy = "moons.d" /\ Next /\ UNCHANGED confVars
       \/ busy = "local.conf" /\ ConfNext /\ UNCHANGED vars

(* The fairness of MoonsDir, where there is a moons.d *)
FilesFairness ==
    /\ WF_vars(busy = "moons.d" /\ Scan)
    /\ \A m \in Moon : WF_vars(busy = "moons.d" /\ FinishCopy(m))

FilesSpec == FilesInit /\ [][FilesNext]_<<vars, confVars, busy>> /\ FilesFairness
=============================================================================
