------------------------------ MODULE DateTime ------------------------------
(***************************************************************************)
(* The class DateTime of src/src/Utilities.cpp as several threads use one  *)
(* object: an atomic time_t, and its broken-down form tm, which SetTM      *)
(* writes under the lock tmux.  GetTM takes the lock too, but only to copy *)
(* the pointer: the getters and strftime read the fields without it.       *)
(*                                                                         *)
(* A broken-down time is abstracted to the time_t each field is of, and    *)
(* the memset leaves Cleared in it.                                        *)
(***************************************************************************)
EXTENDS Naturals, FiniteSets

CONSTANTS
    Clients,    \* threads that share the object
    Times,      \* the values of a time_t
    Fields,     \* the members of struct tm that are read
    Cleared     \* the value of a member after memset

ASSUME DateTimeAssumption == Cleared \notin Times /\ Times # {} /\ Fields # {}

VARIABLES
    TheTime,
    tm,         \* field -> the time it is of
    tmux,       \* the threads that hold it: one writer, as readers do not wait in it
    doing,      \* thread -> "idle", "set", "load", "copy" or "read"
    local,      \* thread -> SetTM's t, or what SetTime was called with before it
    left,       \* thread -> fields still to be copied or read
    got,        \* thread -> the times of the fields it has read
    overlapped  \* history: readers that a writer has taken the lock from since GetTM

DateTimeVars == <<TheTime, tm, tmux, doing, local, left, got, overlapped>>

(* The object is constructed, with any time. *)
DateTimeInit ==
    /\ TheTime = CHOOSE time \in Times : TRUE
    /\ tm = [f \in Fields |-> TheTime]
    /\ tmux = {}
    /\ doing = [t \in Clients |-> "idle"]
    /\ local = [t \in Clients |-> Cleared]
    /\ left = [t \in Clients |-> {}]
    /\ got = [t \in Clients |-> {}]
    /\ overlapped = {}

Become(t, what) == doing' = [doing EXCEPT ![t] = what]

(* SetTime, which strptime and operator= also end in: TheTime.store(time). *)
SetTime(t, time) ==
    /\ doing[t] = "idle"
    /\ TheTime' = time
    /\ local' = [local EXCEPT ![t] = time]
    /\ Become(t, "set")
    /\ UNCHANGED <<tm, tmux, left, got, overlapped>>

(* SetTM: the lock and the memset. *)
LockAndClear(t) ==
    /\ doing[t] = "set" /\ tmux = {}
    /\ tmux' = {t}
    /\ tm' = [f \in Fields |-> Cleared]
    /\ left' = [left EXCEPT ![t] = Fields]
    /\ overlapped' = overlapped \cup {r \in Clients : doing[r] = "read"}
    /\ Become(t, "load")
    /\ UNCHANGED <<TheTime, local, got>>

(* Faulty variant: breaks down the time the setter was given. *)
LoadArgument(t) ==
    /\ doing[t] = "load"
    /\ Become(t, "copy")
    /\ UNCHANGED <<TheTime, tm, tmux, local, left, got, overlapped>>

(* t = GetTime(): another thread may have set the time since. *)
LoadTime(t) ==
    /\ doing[t] = "load"
    /\ local' = [local EXCEPT ![t] = TheTime]
    /\ Become(t, "copy")
    /\ UNCHANGED <<TheTime, tm, tmux, left, got, overlapped>>

(* The memcpy of localtime_r's result, in any order. *)
CopyField(t, f) ==
    /\ doing[t] = "copy" /\ f \in left[t]
    /\ tm' = [tm EXCEPT ![f] = local[t]]
    /\ left' = [left EXCEPT ![t] = @ \ {f}]
    /\ UNCHANGED <<TheTime, tmux, doing, local, got, overlapped>>

UnlockTM(t) ==
    /\ doing[t] = "copy" /\ left[t] = {}
    /\ tmux' = {}
    /\ local' = [local EXCEPT ![t] = Cleared]
    /\ Become(t, "idle")
    /\ UNCHANGED <<TheTime, tm, left, got, overlapped>>

(* strftime, or getters in a row: GetTM, with its shared lock held for     *)
(* one step, and then the fields one by one.                               *)
GetTM(t) ==
    /\ doing[t] = "idle" /\ tmux = {}
    /\ left' = [left EXCEPT ![t] = Fields]
    /\ got' = [got EXCEPT ![t] = {}]
    /\ overlapped' = overlapped \ {t}
    /\ Become(t, "read")
    /\ UNCHANGED <<TheTime, tm, tmux, local>>

ReadField(t, f) ==
    /\ doing[t] = "read" /\ f \in left[t]
    /\ got' = [got EXCEPT ![t] = @ \cup {tm[f]}]
    /\ left' = [left EXCEPT ![t] = @ \ {f}]
    /\ Become(t, IF left'[t] = {} THEN "idle" ELSE "read")
    /\ UNCHANGED <<TheTime, tm, tmux, local, overlapped>>

DateTimeNext ==
    \E t \in Clients :
       \/ \E time \in Times : SetTime(t, time)
       \/ LockAndClear(t) \/ LoadTime(t) \/ UnlockTM(t) \/ GetTM(t)
       \/ \E f \in Fields : CopyField(t, f) \/ ReadField(t, f)

DateTimeSpec == DateTimeInit /\ [][DateTimeNext]_DateTimeVars

-----------------------------------------------------------------------------
(* Although threads store the time before they lock and the last to lock   *)
(* need not be the last to store, tm is the broken-down TheTime whenever   *)
(* no SetTime is under way; and a reader that no writer has overtaken gets *)
(* the fields of one moment.  (Utilities.cpp:128-157)                      *)
TimeConsistent ==
    /\ (\A t \in Clients : doing[t] \in {"idle", "read"}) =>
          tm = [f \in Fields |-> TheTime]
    /\ \A t \in Clients :
          t \notin overlapped => Cardinality(got[t]) <= 1 /\ Cleared \notin got[t]

=============================================================================
