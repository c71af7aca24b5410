------------------------------ MODULE MoonsDir ------------------------------
(***************************************************************************)
(* service/OneService.cpp: the moons.d watcher.  The main loop lists the   *)
(* directory every ten seconds, orbits the moons it did not know and       *)
(* deorbits those it knew whose file is gone, while an operator drops and  *)
(* removes files, the control API orbits and deorbits, and the topology    *)
(* saves the moons it follows into the same directory.                     *)
(***************************************************************************)
EXTENDS Naturals

CONSTANTS
    Moon,
    MaxEdits     \* bound on what operator, API and topology do

ASSUME MoonsDirConstants == MaxEdits \in Nat

(* What somebody besides the watcher may do in a behaviour: copy files in  *)
(* place rather than rename them into the directory, drop a moon again     *)
(* that was taken out, save moons (refreshes, in-band updates), orbit and  *)
(* deorbit over the control API.                                           *)
Habit == {"copy", "return", "save", "api"}

VARIABLES
    file,        \* moons.d: "none", "part" or "whole" for each moon
    orbits,      \* Topology::_moons
    known,       \* _zgalaxyKnownMoons
    scan,        \* where the scan is
    present,     \* the listing it works from
    inHand,      \* the moon that orbit has read from its file, not yet joined
    wanted,      \* history: the moons the operator last asked for
    removed,     \* history: those it ever took out
    revived,     \* history: those whose file the watcher put back since then
    edits,
    others       \* what the others do: a subset of Habit, fixed at the start

asked == <<wanted, removed, revived>>
vars == <<file, orbits, known, scan, present, inHand, asked, edits, others>>

Files == { m \in Moon : file[m] # "none" }

------------------------------------------------------------------------------
(* The scan *)

List ==
    /\ scan = "idle"
    /\ present' = Files
    /\ scan' = "orbit"
    /\ UNCHANGED <<file, orbits, known, inHand, asked, edits, others>>

OrbitNewForgotten(m) ==
    /\ scan = "orbit"
    /\ m \in present \ known
    /\ inHand = {}
    /\ known' = known \cup {m}
    /\ UNCHANGED <<file, orbits, scan, present, inHand, asked, edits, others>>

(* A moon is known from now on, whether or not addMoon can read its file.  *)
OrbitNew(m) ==
    /\ scan = "orbit"
    /\ m \in present \ known
    /\ inHand = {}
    /\ known' = known \cup {m}
    /\ inHand' = IF file[m] = "whole" THEN {m} ELSE {}
    /\ UNCHANGED <<file, orbits, scan, present, asked, edits, others>>

(* addMoon hands what it read to addWorld, which saves a moon that is new  *)
(* or newer into the directory: also one whose file went in between.       *)
JoinRead(m) ==
    /\ m \in inHand
    /\ inHand' = {}
    /\ orbits' = orbits \cup {m}
    /\ \/ file' = [file EXCEPT ![m] = "whole"]
       \/ m \in orbits /\ UNCHANGED file
    /\ revived' = IF file[m] = "none" /\ file' # file THEN revived \cup {m} ELSE revived
    /\ UNCHANGED <<known, scan, present, wanted, removed, edits, others>>

OrbitedAll ==
    /\ scan = "orbit"
    /\ present \subseteq known
    /\ inHand = {}
    /\ scan' = "deorbit"
    /\ UNCHANGED <<file, orbits, known, present, inHand, asked, edits, others>>

(* Topology::removeMoon deletes the file of a moon it follows. *)
Removed(m) == [file EXCEPT ![m] = IF m \in orbits THEN "none" ELSE @]

DeorbitGoneForgotten(m) ==
    /\ scan = "deorbit"
    /\ m \in known \ present
    /\ known' = known \ {m}
    /\ UNCHANGED <<file, orbits, scan, present, inHand, asked, edits, others>>

DeorbitGone(m) ==
    /\ scan = "deorbit"
    /\ m \in known \ present
    /\ orbits' = orbits \ {m}
    /\ file' = Removed(m)
    /\ known' = known \ {m}
    /\ UNCHANGED <<scan, present, inHand, asked, edits, others>>

EndScan ==
    /\ scan = "deorbit"
    /\ known \subseteq present
    /\ scan' = "idle"
    /\ UNCHANGED <<file, orbits, known, present, inHand, asked, edits, others>>

Scan ==
    \/ List \/ OrbitedAll \/ EndScan
    \/ \E m \in Moon : OrbitNew(m) \/ JoinRead(m) \/ DeorbitGone(m)

------------------------------------------------------------------------------
(* Everybody else *)

Edit ==
    /\ edits < MaxEdits
    /\ edits' = edits + 1
    /\ UNCHANGED <<known, scan, present, inHand, others>>

DropFile(m) ==
    /\ Edit
    /\ file[m] = "none"
    /\ "return" \in others \/ m \notin removed
    /\ file' = [file EXCEPT ![m] = IF "copy" \in others THEN "part" ELSE "whole"]
    /\ wanted' = wanted \cup {m}
    /\ UNCHANGED <<orbits, removed, revived>>

FinishCopy(m) ==
    /\ file[m] = "part"
    /\ file' = [file EXCEPT ![m] = "whole"]
    /\ UNCHANGED <<orbits, known, scan, present, inHand, asked, edits, others>>

DeleteFile(m) ==
    /\ Edit
    /\ file[m] # "none"
    /\ file' = [file EXCEPT ![m] = "none"]
    /\ wanted' = wanted \ {m}
    /\ removed' = removed \cup {m}
    /\ revived' = revived \ {m}
    /\ UNCHANGED orbits

(* addWorld or setMoonEndpoints saves a moon. *)
SaveMoon(m) ==
    /\ "save" \in others
    /\ Edit
    /\ m \in orbits
    /\ file' = [file EXCEPT ![m] = "whole"]
    /\ UNCHANGED <<orbits, asked>>

(* POST /moon/<id> with a seed, once the moon has come from it *)
ApiOrbit(m) ==
    /\ "api" \in others
    /\ Edit
    /\ orbits' = orbits \cup {m}
    /\ file' = [file EXCEPT ![m] = "whole"]
    /\ wanted' = wanted \cup {m}
    /\ UNCHANGED <<removed, revived>>

(* DELETE /moon/<id> *)
ApiDeorbit(m) ==
    /\ "api" \in others
    /\ Edit
    /\ orbits' = orbits \ {m}
    /\ file' = Removed(m)
    /\ wanted' = wanted \ {m}
    /\ removed' = removed \cup {m}
    /\ UNCHANGED revived

(* run() orbits every file that can be read and knows what it orbits. *)
Init ==
    /\ others \in SUBSET Habit
    /\ file \in [Moon -> {"none", "whole"} \cup IF "copy" \in others THEN {"part"} ELSE {}]
    /\ orbits = { m \in Moon : file[m] = "whole" }
    /\ known = orbits
    /\ scan = "idle"
    /\ present = {}
    /\ inHand = {}
    /\ wanted = Files
    /\ removed = {}
    /\ revived = {}
    /\ edits = 0

Next ==
    \/ Scan
    \/ \E m \in Moon :
          DropFile(m) \/ FinishCopy(m) \/ DeleteFile(m) \/ SaveMoon(m) \/ ApiOrbit(m) \/ ApiDeorbit(m)

(* The main loop scans again and again; a copy that was begun ends.        *)
Spec ==
    /\ Init
    /\ [][Next]_vars
    /\ WF_vars(Scan)
    /\ \A m \in Moon : WF_vars(FinishCopy(m))

------------------------------------------------------------------------------
(* Properties *)

(* The client orbits newly added .moon files: a moon whose file stays is   *)
(* followed in the end, unless orbit could find the file half copied or    *)
(* gone since the listing, or the API deorbited it behind the watcher.     *)
NewMoonsOrbited ==
    others \cap {"copy", "return", "api"} = {} =>
        \A m \in Moon : <>[](file[m] = "whole") => <>[](m \in orbits)

(* It deorbits removed ones: unless somebody else writes moon files, one   *)
(* that the operator took out is not followed any more in the end, whether *)
(* the removal falls between listing and orbiting or between listing and   *)
(* deorbiting.  The exception is a removal inside orbit itself, after      *)
(* addMoon read the file and before addWorld saves the moon: that puts the *)
(* file back, and the moon is followed until it is removed again.          *)
RemovedMoonsDeorbited ==
    others \cap {"save", "api"} = {} =>
        \A m \in Moon : <>[](m \notin wanted \cup revived) => <>[](m \notin orbits)
=============================================================================
