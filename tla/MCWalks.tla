------------------------------ MODULE MCWalks ------------------------------
(***************************************************************************)
(* The two lists that callbacks change while they are walked, the message  *)
(* listeners and the timers, for TLC.  They share no state: a behaviour is *)
(* one of the list it chooses at the start, and the other stays in its     *)
(* initial state.  The unqualified names are those of MessageChannel.      *)
(***************************************************************************)
EXTENDS MessageChannel

CONSTANTS Timers, NoTimer, Timeouts, MaxTime

VARIABLES slots, len, alive, TimeOut, RepeatInterval, Repeat, now, pc, thetime,
          cur, last, it, moved, due, ticked, expired, meddled

T == INSTANCE TimerHandler

timerVars == <<slots, len, alive, TimeOut, RepeatInterval, Repeat, now, pc,
               thetime, cur, last, it, moved, due, ticked, expired, meddled>>

VARIABLE list

WalksInit == list \in {"listeners", "timers"} /\ Init /\ T!Init

WalksNext ==
    \/ list = "listeners" /\ Next /\ UNCHANGED <<list, timerVars>>
    \/ list = "timers" /\ T!Next /\ UNCHANGED <<list, vars>>

(* The fairness of the timers, where they are what is walked. *)
TimerFairness ==
    /\ WF_timerVars(list = "timers" /\ (T!TickTimers \/ T!WalkStep))
    /\ SF_timerVars(list = "timers" /\ (T!Rearm \/ T!Expire))

WalksSpec ==
    WalksInit /\ [][WalksNext]_<<list, vars, timerVars>> /\ Fairness /\ TimerFairness

(* Of the timers: one that is due is ticked or deleted in some later walk, *)
(* even if the walk that should have ticked it passed over it.             *)
DueIsTicked == T!DueIsTicked
=============================================================================
