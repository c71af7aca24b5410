----------------------------- MODULE ConfWatch -----------------------------
(***************************************************************************)
(* service/OneService.cpp, run(): the main loop looks at local.conf every  *)
(* ZT_LOCAL_CONF_FILE_CHECK_INTERVAL and reads it again if it was modified *)
(* within the interval before.  The time of the last modification has a    *)
(* resolution of a second, and the loop comes round when it can.           *)
(***************************************************************************)
EXTENDS Integers

CONSTANTS
    Interval,    \* ZT_LOCAL_CONF_FILE_CHECK_INTERVAL, in clock units
    Second,      \* the units in a second: st_mtime * 1000
    Delay,       \* the longest an iteration of the loop is late
    MaxTime      \* bound on the clock

ASSUME ConfWatchConstants ==
    /\ Interval \in Nat /\ Second \in Nat \ {0} /\ Delay \in Nat
    /\ MaxTime \in Nat

VARIABLES
    now,
    last,        \* lastLocalConfFileCheck
    mtime,       \* st_mtime of local.conf
    written,     \* history: when it was last written
    prev,        \* history: the check before the last one
    read         \* history: whether what was last written was read

confVars == <<now, last, mtime, written, prev, read>>

ConfTypeOK ==
    /\ now \in Nat /\ last \in Nat /\ written \in Nat /\ mtime \in Nat
    /\ prev \in Int
    /\ read \in BOOLEAN

Stamp(t) == t - (t % Second)

Tick ==
    /\ now < MaxTime
    /\ now < last + Interval + Delay
    /\ now' = now + 1
    /\ UNCHANGED <<last, mtime, written, prev, read>>

RecentStrictly(t) == now - t < Interval

Recent(t) == now - t <= Interval

Check ==
    /\ now - last >= Interval
    /\ last' = now
    /\ prev' = last
    /\ read' = (read \/ Recent(mtime))
    /\ UNCHANGED <<now, mtime, written>>

Write ==
    /\ written' = now
    /\ mtime' = Stamp(now)
    /\ read' = FALSE
    /\ UNCHANGED <<now, last, prev>>

(* local.conf was read at startup. *)
ConfInit ==
    /\ now \in 0..Second
    /\ last = now
    /\ prev = now - Interval
    /\ written = now
    /\ mtime = Stamp(now)
    /\ read = TRUE

ConfNext == Tick \/ Check \/ Write

ConfSpec == ConfInit /\ [][ConfNext]_confVars

(* A change of local.conf is read by the next check, if it was made late   *)
(* enough after the check before: a second and the delay of the loop bound *)
(* the window in which changes go unnoticed.                               *)
LateEditsRead == (written < last /\ written >= prev + Delay + Second - 1) => read
=============================================================================
