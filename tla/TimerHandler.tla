---------------------------- MODULE TimerHandler ----------------------------
(***************************************************************************)
(* The timers of src/src/Timer.cpp: a std::vector of Timer pointers that   *)
(* TickTimers walks with a range-for, that is with a begin and an end      *)
(* fetched once, while the bodies of the walk delete timers, which erases  *)
(* elements of the vector, and call Tick, which may construct and delete   *)
(* timers itself.                                                          *)
(*                                                                         *)
(* `slots' is the buffer of the vector up to its capacity and `len' its    *)
(* size: erase moves the later elements down and leaves the last slot as   *)
(* it was; push_back beyond the capacity moves the elements to a buffer of *)
(* twice the size, and a walk over the old one is `moved'.  A timer is its *)
(* address: the allocator may hand out a freed one again.                  *)
(*                                                                         *)
(* Timer::Timer takes any time_t, and so does Construct: an interval that  *)
(* is zero or negative makes a repeating timer that is always due.  Two    *)
(* things are assumed: time(NULL) is not set back while the process runs,  *)
(* and TickTimers is not called from within Tick.                          *)
(***************************************************************************)
EXTENDS Integers, Sequences, FiniteSets

CONSTANTS
    Timers,     \* the addresses timers are allocated at
    NoTimer,    \* a slot nothing was written to
    Timeouts,   \* the time_t values given to constructors
    MaxTime     \* bound: the clock stops there

ASSUME TimersAssumption == NoTimer \notin Timers /\ IsFiniteSet(Timers)
ASSUME TimeAssumption == MaxTime \in Nat /\ Timeouts \subseteq Int

VARIABLES
    slots,           \* the buffer of the vector `timers'
    len,             \* its size()
    alive,           \* the timers that are constructed
    TimeOut,         \* timer -> when it is due
    RepeatInterval,  \* timer -> the interval of a repeating timer, else 0
    Repeat,          \* timer -> whether it repeats
    now,             \* time(NULL), which is not set back
    pc,              \* "idle", "walk", "tick" or "undefined"
    thetime,         \* local of TickTimers
    cur, last,       \* the range-for's position and the last one it will visit
    it,              \* the pointer the body works on
    moved,           \* whether the buffer under the walk was reallocated
    due,             \* timers due when this walk began that still exist
    ticked,          \* timers ticked by this walk
    expired,         \* timers TickTimers itself has deleted in this walk
    meddled          \* whether a Tick deleted a timer or moved the buffer

vector == <<slots, len>>
fields == <<TimeOut, RepeatInterval, Repeat>>
walk == <<thetime, cur, last, it>>
history == <<due, ticked, expired, meddled>>
vars == <<vector, alive, fields, now, pc, walk, moved, history>>

Init ==
    /\ slots = <<>>
    /\ len = 0
    /\ alive = {}
    /\ TimeOut = [t \in Timers |-> 0]
    /\ RepeatInterval = [t \in Timers |-> 0]
    /\ Repeat = [t \in Timers |-> FALSE]
    /\ now = 0
    /\ pc = "idle"
    /\ thetime = 0 /\ cur = 1 /\ last = 0 /\ it = NoTimer
    /\ moved = FALSE
    /\ due = {} /\ ticked = {} /\ expired = 0 /\ meddled = FALSE

-----------------------------------------------------------------------------
(* Faulty variant: appends to a full buffer without growing it. *)
RegisterUnchecked(t) ==
    /\ len' = len + 1
    /\ slots' = IF slots = <<>> THEN <<t>> ELSE [slots EXCEPT ![len + 1] = t]
    /\ UNCHANGED <<moved, meddled>>

(* RegisterTimer: timers.push_back(t). *)
RegisterTimer(t) ==
    LET grown == IF len = 0 THEN 1 ELSE 2 * len
        full == len = Len(slots)
    IN  /\ len' = len + 1
        /\ slots' = IF full
                      THEN [i \in 1 .. grown |-> IF i <= len THEN slots[i]
                                                 ELSE IF i = len + 1 THEN t
                                                 ELSE NoTimer]
                      ELSE [slots EXCEPT ![len + 1] = t]
        /\ moved' = (moved \/ (full /\ pc = "tick"))
        /\ meddled' = (meddled \/ (full /\ pc = "tick"))

(* Faulty variant: overwrites the element with the last one, which stays. *)
DelistKeepsSize(t) ==
    \E k \in 1 .. len :
        /\ slots[k] = t
        /\ slots' = [slots EXCEPT ![k] = slots[len]]
        /\ len' = len

(* DelistTimer: timers.erase(find(t)); the slot past the new end is not    *)
(* written to.                                                             *)
DelistTimer(t) ==
    \E k \in 1 .. len :
        /\ slots[k] = t
        /\ slots' = [i \in DOMAIN slots |->
                        IF k <= i /\ i < len THEN slots[i + 1] ELSE slots[i]]
        /\ len' = len - 1

(* Timer::Timer, from the application or from a Tick.  A one-shot timer    *)
(* is given the time it is due, a repeating one its interval.              *)
Construct(t, timeout, repeat) ==
    /\ pc \in {"idle", "tick"}
    /\ t \notin alive
    /\ alive' = alive \cup {t}
    /\ TimeOut' = [TimeOut EXCEPT ![t] = IF repeat THEN now + timeout ELSE timeout]
    /\ RepeatInterval' = [RepeatInterval EXCEPT ![t] = IF repeat THEN timeout ELSE 0]
    /\ Repeat' = [Repeat EXCEPT ![t] = repeat]
    /\ RegisterTimer(t)
    /\ UNCHANGED <<now, pc, walk, due, ticked, expired>>

(* delete, by the application or by a Tick: Timer::~Timer. *)
Delete(t) ==
    /\ pc \in {"idle", "tick"}
    /\ t \in alive
    /\ alive' = alive \ {t}
    /\ DelistTimer(t)
    /\ due' = due \ {t}
    /\ meddled' = (meddled \/ pc = "tick")
    /\ UNCHANGED <<fields, now, pc, walk, moved, ticked, expired>>

-----------------------------------------------------------------------------
(* TimerHandler::TickTimers. *)

(* Faulty variant: stops one short of the end. *)
TickAllButLast ==
    /\ pc = "idle"
    /\ thetime' = now
    /\ cur' = 1
    /\ last' = IF len = 0 THEN 0 ELSE len - 1
    /\ pc' = "walk"
    /\ due' = {t \in alive : TimeOut[t] <= now}
    /\ UNCHANGED <<vector, alive, fields, now, it, moved, ticked, expired, meddled>>

TickTimers ==
    /\ pc = "idle"
    /\ thetime' = now
    /\ cur' = 1
    /\ last' = len
    /\ pc' = "walk"
    /\ due' = {t \in alive : TimeOut[t] <= now}
    /\ UNCHANGED <<vector, alive, fields, now, it, moved, ticked, expired, meddled>>

(* The walk is at a slot that it may read and whose timer exists. *)
AtTimer(t) ==
    /\ pc = "walk"
    /\ cur <= last
    /\ ~moved
    /\ slots[cur] = t
    /\ t \in alive

SkipTimer(t) ==
    /\ AtTimer(t)
    /\ TimeOut[t] > thetime
    /\ cur' = cur + 1
    /\ it' = t
    /\ UNCHANGED <<vector, alive, fields, now, pc, thetime, last, moved, history>>

CallTick(t) ==
    /\ AtTimer(t)
    /\ TimeOut[t] <= thetime
    /\ it' = t
    /\ pc' = "tick"
    /\ ticked' = ticked \cup {t}
    /\ UNCHANGED <<vector, alive, fields, now, thetime, cur, last, moved, due,
                   expired, meddled>>

(* Faulty variant: re-arms a repeating timer relative to its old deadline  *)
(* and stays at its slot.                                                  *)
RearmInPlace ==
    /\ pc = "tick"
    /\ it \in alive
    /\ Repeat[it]
    /\ TimeOut' = [TimeOut EXCEPT ![it] = @ + RepeatInterval[it]]
    /\ pc' = "walk"
    /\ UNCHANGED <<vector, alive, RepeatInterval, Repeat, now, walk, moved, history>>

(* Tick returns: a repeating timer is re-armed from the time it is now. *)
Rearm ==
    /\ pc = "tick"
    /\ it \in alive
    /\ Repeat[it]
    /\ TimeOut' = [TimeOut EXCEPT ![it] = now + RepeatInterval[it]]
    /\ cur' = cur + 1
    /\ pc' = "walk"
    /\ UNCHANGED <<vector, alive, RepeatInterval, Repeat, now, thetime, last, it,
                   moved, history>>

(* Faulty variant: an erase by swapping with the last element. *)
ExpireBySwap ==
    /\ pc = "tick"
    /\ it \in alive
    /\ ~Repeat[it]
    /\ alive' = alive \ {it}
    /\ \E k \in 1 .. len :
          /\ slots[k] = it
          /\ slots' = [slots EXCEPT ![k] = slots[len], ![len] = NoTimer]
          /\ len' = len - 1
    /\ due' = due \ {it}
    /\ expired' = expired + 1
    /\ cur' = cur + 1
    /\ pc' = "walk"
    /\ UNCHANGED <<fields, now, thetime, last, it, moved, ticked, meddled>>

(* Tick returns: a one-shot timer is deleted under the walk. *)
Expire ==
    /\ pc = "tick"
    /\ it \in alive
    /\ ~Repeat[it]
    /\ alive' = alive \ {it}
    /\ DelistTimer(it)
    /\ due' = due \ {it}
    /\ expired' = expired + 1
    /\ cur' = cur + 1
    /\ pc' = "walk"
    /\ UNCHANGED <<fields, now, thetime, last, it, moved, ticked, meddled>>

(* The locals of TickTimers go out of scope. *)
EndWalk ==
    /\ pc = "walk"
    /\ cur > last
    /\ pc' = "idle"
    /\ thetime' = 0 /\ cur' = 1 /\ last' = 0 /\ it' = NoTimer
    /\ moved' = FALSE
    /\ due' = {} /\ ticked' = {} /\ expired' = 0 /\ meddled' = FALSE
    /\ UNCHANGED <<vector, alive, fields, now>>

(* The walk is about to use memory it does not own: a freed buffer or a    *)
(* freed timer.                                                            *)
UsesFreed ==
    \/ pc = "walk" /\ cur <= last /\ (moved \/ slots[cur] \notin alive)
    \/ pc = "tick" /\ it \notin alive

(* What was there may read as a timer that is not due (or, after a Tick,   *)
(* as one that repeats), or lead anywhere.                                 *)
UseFreed ==
    /\ UsesFreed
    /\ \/ pc' = "walk" /\ cur' = cur + 1
       \/ pc' = "undefined" /\ UNCHANGED cur
    /\ UNCHANGED <<vector, alive, fields, now, thetime, last, it, moved, history>>

(* The clock, also while a Tick runs. *)
Advance ==
    /\ pc # "undefined"
    /\ now < MaxTime
    /\ now' = now + 1
    /\ UNCHANGED <<vector, alive, fields, pc, walk, moved, history>>

-----------------------------------------------------------------------------
WalkStep ==
    \/ \E t \in Timers : SkipTimer(t) \/ CallTick(t)
    \/ Rearm
    \/ Expire
    \/ EndWalk
    \/ UseFreed

Application ==
    \/ \E t \in Timers, timeout \in Timeouts, repeat \in BOOLEAN :
          Construct(t, timeout, repeat)
    \/ \E t \in Timers : Delete(t)

Next == WalkStep \/ TickTimers \/ Application \/ Advance

Spec == Init /\ [][Next]_vars

(* The same with Ticks that neither construct nor delete a timer. *)
NoCallbackSpec == Init /\ [][Next /\ (Application => pc = "idle")]_vars

(* The application's main loop calls TickTimers again and again, and every *)
(* Tick returns, whatever it constructs and deletes before that; both are  *)
(* up to the application.                                                  *)
Fairness == WF_vars(TickTimers \/ WalkStep) /\ SF_vars(Rearm \/ Expire)

FairSpec == Spec /\ Fairness

-----------------------------------------------------------------------------
TypeOK ==
    /\ slots \in Seq(Timers \cup {NoTimer})
    /\ len \in 0 .. Len(slots)
    /\ alive \subseteq Timers
    /\ TimeOut \in [Timers -> Int]
    /\ RepeatInterval \in [Timers -> Int]
    /\ Repeat \in [Timers -> BOOLEAN]
    /\ now \in 0 .. MaxTime
    /\ thetime \in 0 .. now
    /\ pc \in {"idle", "walk", "tick", "undefined"}
    /\ cur \in Nat \ {0} /\ last \in Nat
    /\ it \in Timers \cup {NoTimer}
    /\ moved \in BOOLEAN /\ meddled \in BOOLEAN
    /\ due \subseteq alive /\ ticked \subseteq Timers
    /\ expired \in Nat

(* The vector holds every timer that exists, once, and nothing else,       *)
(* whatever is deleted or constructed under a walk.                        *)
ListExact ==
    /\ {slots[i] : i \in 1 .. len} = alive
    /\ Cardinality(alive) = len

(* The walk touches freed memory only if a Tick deleted a timer or made    *)
(* the vector grow, or if TickTimers itself deleted two timers or more:    *)
(* one expiry leaves a stale slot that still names a timer that exists.    *)
UseAfterFreeCause == UsesFreed => meddled \/ expired >= 2

(* Each timer a walk deletes makes it pass over at most one other timer    *)
(* that was due; when it deletes none, every due timer is ticked.          *)
SkipBound ==
    pc = "walk" /\ cur > last /\ ~meddled => Cardinality(due \ ticked) <= expired

(* What it takes for a walk to tick a repeating timer twice: it is always  *)
(* due, its interval being zero or negative, and the vector changed under  *)
(* the walk, which then meets it again at the slot a deletion left behind  *)
(* or as a new timer at the address of a deleted one.  A timer with a      *)
(* positive interval is ticked once whatever the Ticks construct and       *)
(* delete, and any timer is when nothing was deleted and the buffer stayed *)
(* where it was.                                                           *)
TickedOnce ==
    [][\A t \in Timers :
          CallTick(t) /\ t \in ticked /\ Repeat[t]
              => RepeatInterval[t] <= 0 /\ (expired > 0 \/ meddled)]_vars

(* A due timer is ticked or deleted in some later walk, even if the walk   *)
(* that should have ticked it passed over it.                              *)
DueIsTicked ==
    \A t \in Timers :
        (t \in alive /\ TimeOut[t] <= now)
            ~> (t \notin alive \/ t \in ticked \/ pc = "undefined")

(* Timer.cpp:44-46, "We found a timer to tick": what the walk dereferences *)
(* is a timer.                                                             *)
FoundTimerExists == ~UsesFreed

=============================================================================
