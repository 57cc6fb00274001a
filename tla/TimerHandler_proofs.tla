------------------------ MODULE TimerHandler_proofs ------------------------
(***************************************************************************)
(* What TickTimers (Timer.cpp:38-60) guarantees for any set of addresses,  *)
(* any times given to constructors, zero and negative ones included, and   *)
(* any clock that is not set back, though the vector changes under its     *)
(* walk: TimerInv is inductive and implies TypeOK, ListExact,              *)
(* UseAfterFreeCause, SkipBound and TickedOnce.                            *)
(*                                                                         *)
(* The vector is exact by itself (VectorOK).  The rest ties the walk to    *)
(* it as long as no Tick has deleted a timer or moved the buffer: where    *)
(* the walk ends (EndOK), where the timer being ticked is (TickOK), which  *)
(* due timers are behind the walk's position without having been ticked    *)
(* (SkipOK), and that the ticked ones are behind it as long as nothing was *)
(* deleted (TickedBehind).  A repeating timer whose interval is positive   *)
(* is re-armed beyond the walk's time (ArmedOK).                           *)
(***************************************************************************)
EXTENDS TimerHandler, FiniteSetTheorems, TLAPS

(* The first n slots of s hold the timers in A, each once. *)
VectorOK(s, n, A) ==
    /\ s \in Seq(Timers \cup {NoTimer}) /\ n \in 0 .. Len(s)
    /\ \A i \in 1 .. n : s[i] \in A
    /\ \A i, j \in 1 .. n : s[i] = s[j] => i = j
    /\ \A t \in A : \E i \in 1 .. n : s[i] = t
    /\ A \subseteq Timers /\ IsFiniteSet(A) /\ Cardinality(A) = n

(* The timers in D that are at one of the n slots of s before slot c. *)
Behind(s, n, c, D) == {t \in D : \E i \in 1 .. n : i < c /\ s[i] = t}

Walking == pc \in {"walk", "tick"}

(* Outside a walk there is nothing to remember. *)
IdleOK ==
    /\ pc = "idle" => ~meddled /\ due = {} /\ ticked = {} /\ expired = 0
    /\ moved => meddled

(* The slots left to visit are elements of the vector, or, after one       *)
(* expiry, the slot behind its end, which names one of its elements.       *)
EndOK ==
    Walking /\ ~meddled /\ cur <= last =>
        /\ expired = 0 => last <= len
        /\ expired = 1 => last <= len + 1 /\ (last = len + 1 => slots[last] \in alive)

TickOK ==
    pc = "tick" /\ ~meddled =>
        /\ it \in alive \cap ticked /\ cur <= last
        /\ expired = 0 => slots[cur] = it
        /\ cur <= len => slots[cur] \notin due \ ticked

SkipOK ==
    Walking /\ ~meddled =>
        /\ \A t \in due \ ticked : TimeOut[t] <= thetime
        /\ \A t \in due : \E i \in 1 .. len : i <= last /\ slots[i] = t
        /\ Cardinality(Behind(slots, len, cur, due \ ticked)) <= expired

TickedBehind ==
    Walking /\ ~meddled /\ expired = 0 =>
        \A t \in ticked : \E i \in 1 .. len :
            slots[i] = t /\ (i < cur \/ (pc = "tick" /\ i = cur))

ArmedOK ==
    Walking =>
        \A t \in alive \cap ticked :
            Repeat[t] /\ RepeatInterval[t] > 0
                => TimeOut[t] > thetime \/ (pc = "tick" /\ t = it)

TimerInv ==
    /\ TypeOK
    /\ VectorOK(slots, len, alive)
    /\ IdleOK /\ EndOK /\ TickOK /\ SkipOK /\ TickedBehind /\ ArmedOK

-----------------------------------------------------------------------------
(* RegisterTimer appends to the vector, whether it grows or not. *)
LEMMA Registered ==
    ASSUME VectorOK(slots, len, alive), NEW t \in Timers, t \notin alive,
           alive' = alive \cup {t}, RegisterTimer(t)
    PROVE  /\ VectorOK(slots', len', alive')
           /\ len' = len + 1 /\ slots'[len + 1] = t
           /\ \A i \in 1 .. len : slots'[i] = slots[i]
<1>1. /\ slots \in Seq(Timers \cup {NoTimer}) /\ len \in Nat /\ Len(slots) \in Nat
      /\ len <= Len(slots) /\ len' = len + 1
      /\ \A i \in 1 .. Len(slots) : slots[i] \in Timers \cup {NoTimer}
  BY DEF VectorOK, RegisterTimer
<1>2. /\ slots' \in Seq(Timers \cup {NoTimer}) /\ len + 1 <= Len(slots')
      /\ slots'[len + 1] = t
      /\ \A i \in 1 .. len : slots'[i] = slots[i]
  <2> DEFINE grown == IF len = 0 THEN 1 ELSE 2 * len
  <2>1. CASE len = Len(slots)
    <3>1. slots' = [i \in 1 .. grown |-> IF i <= len THEN slots[i]
                                         ELSE IF i = len + 1 THEN t ELSE NoTimer]
      BY <2>1 DEF RegisterTimer
    <3>2. grown \in Nat /\ len + 1 <= grown
      BY <1>1
    <3> HIDE DEF grown
    <3>3. \A i \in 1 .. grown : slots'[i] \in Timers \cup {NoTimer}
      BY <1>1, <2>1, <3>1, <3>2
    <3>4. slots' \in [1 .. grown -> Timers \cup {NoTimer}]
      BY <3>1, <3>3
    <3>5. slots' \in Seq(Timers \cup {NoTimer}) /\ Len(slots') = grown
      BY <3>2, <3>4
    <3> QED BY <1>1, <3>1, <3>2, <3>5
  <2>2. CASE len # Len(slots)
    <3>1. slots' = [slots EXCEPT ![len + 1] = t] /\ len + 1 \in 1 .. Len(slots)
      BY <1>1, <2>2 DEF RegisterTimer
    <3> QED BY <1>1, <3>1
  <2> QED BY <2>1, <2>2
<1>3. IsFiniteSet(alive') /\ Cardinality(alive') = len + 1
  BY FS_AddElement DEF VectorOK
<1>4. \A i \in 1 .. len : slots'[i] # t
  BY <1>2 DEF VectorOK
<1>5. \A i, j \in 1 .. len + 1 : slots'[i] = slots'[j] => i = j
  BY <1>1, <1>2, <1>4 DEF VectorOK
<1>6. /\ \A i \in 1 .. len + 1 : slots'[i] \in alive'
      /\ \A u \in alive' : \E i \in 1 .. len + 1 : slots'[i] = u
  BY <1>1, <1>2 DEF VectorOK
<1>7. alive' \subseteq Timers
  BY DEF VectorOK
<1> QED BY <1>1, <1>2, <1>3, <1>5, <1>6, <1>7 DEF VectorOK

(* DelistTimer moves the later elements down and leaves the slot behind    *)
(* the new end as it was.                                                  *)
LEMMA Delisted ==
    ASSUME VectorOK(slots, len, alive), NEW t \in alive,
           alive' = alive \ {t}, DelistTimer(t)
    PROVE  /\ VectorOK(slots', len', alive')
           /\ len >= 1 /\ len' = len - 1
           /\ \E k \in 1 .. len :
                 /\ slots[k] = t
                 /\ \A i \in 1 .. Len(slots) :
                       slots'[i] = IF k <= i /\ i < len THEN slots[i + 1] ELSE slots[i]
<1>1. /\ slots \in Seq(Timers \cup {NoTimer}) /\ len \in Nat /\ Len(slots) \in Nat
      /\ len <= Len(slots)
      /\ \A i \in 1 .. Len(slots) : slots[i] \in Timers \cup {NoTimer}
  BY DEF VectorOK
<1>2. PICK k \in 1 .. len :
          /\ slots[k] = t
          /\ slots' = [i \in DOMAIN slots |->
                          IF k <= i /\ i < len THEN slots[i + 1] ELSE slots[i]]
          /\ len' = len - 1
  BY DEF DelistTimer
<1>3. \A i \in 1 .. Len(slots) :
          slots'[i] = IF k <= i /\ i < len THEN slots[i + 1] ELSE slots[i]
  BY <1>1, <1>2
<1>4. slots' \in Seq(Timers \cup {NoTimer}) /\ Len(slots') = Len(slots)
  <2>1. DOMAIN slots' = 1 .. Len(slots)
    BY <1>1, <1>2
  <2>2. \A i \in 1 .. Len(slots) : slots'[i] \in Timers \cup {NoTimer}
    BY <1>1, <1>3
  <2>3. slots' \in [1 .. Len(slots) -> Timers \cup {NoTimer}]
    BY <1>1, <1>2, <2>1, <2>2
  <2> QED BY <1>1, <2>3
<1>5. IsFiniteSet(alive') /\ Cardinality(alive') = len - 1
  BY FS_RemoveElement DEF VectorOK
<1>6. \A i \in 1 .. len - 1 :
          \E j \in 1 .. len : /\ slots'[i] = slots[j] /\ j # k
                              /\ j = IF k <= i THEN i + 1 ELSE i
  <2> TAKE i \in 1 .. len - 1
  <2>1. i \in 1 .. Len(slots) /\ i < len
    BY <1>1
  <2> DEFINE j == IF k <= i THEN i + 1 ELSE i
  <2>2. j \in 1 .. len /\ j # k
    BY <1>1
  <2>3. slots'[i] = slots[j]
    BY <1>1, <1>3, <2>1
  <2> QED BY <2>2, <2>3
<1>7. \A i \in 1 .. len - 1 : slots'[i] \in alive'
  BY <1>2, <1>6 DEF VectorOK
<1>8. \A i, j \in 1 .. len - 1 : slots'[i] = slots'[j] => i = j
  <2> SUFFICES ASSUME NEW i \in 1 .. len - 1, NEW j \in 1 .. len - 1, slots'[i] = slots'[j]
               PROVE  i = j
    OBVIOUS
  <2>1. PICK a \in 1 .. len : slots'[i] = slots[a] /\ a = IF k <= i THEN i + 1 ELSE i
    BY <1>6
  <2>2. PICK b \in 1 .. len : slots'[j] = slots[b] /\ b = IF k <= j THEN j + 1 ELSE j
    BY <1>6
  <2>3. a = b
    BY <2>1, <2>2 DEF VectorOK
  <2> QED BY <1>1, <2>1, <2>2, <2>3
<1>9. ASSUME NEW u \in alive' PROVE \E i \in 1 .. len - 1 : slots'[i] = u
  <2>1. PICK j \in 1 .. len : slots[j] = u
    BY DEF VectorOK
  <2>2. j # k
    BY <1>2, <2>1
  <2>3. CASE j < k
    BY <1>1, <1>3, <2>1, <2>3
  <2>4. CASE j > k
    <3>1. j - 1 \in 1 .. len - 1 /\ slots'[j - 1] = u
      BY <1>1, <1>3, <2>1, <2>4
    <3> QED BY <3>1
  <2> QED BY <1>1, <2>2, <2>3, <2>4
<1>10. alive' \subseteq Timers
  BY DEF VectorOK
<1> QED
  BY <1>1, <1>2, <1>3, <1>4, <1>5, <1>7, <1>8, <1>9, <1>10 DEF VectorOK

-----------------------------------------------------------------------------
(* The vector stays exact and every variable keeps its type. *)
LEMMA VectorStep ==
    TypeOK /\ VectorOK(slots, len, alive) /\ [Next]_vars
        => TypeOK' /\ VectorOK(slots, len, alive)'
<1> SUFFICES ASSUME TypeOK, VectorOK(slots, len, alive), [Next]_vars
             PROVE  TypeOK' /\ VectorOK(slots', len', alive')
  OBVIOUS
<1> USE TimersAssumption, TimeAssumption
<1>t. /\ alive \subseteq Timers /\ TimeOut \in [Timers -> Int]
      /\ RepeatInterval \in [Timers -> Int] /\ Repeat \in [Timers -> BOOLEAN]
      /\ now \in Nat /\ now <= MaxTime /\ thetime \in Nat /\ thetime <= now
      /\ pc \in {"idle", "walk", "tick", "undefined"}
      /\ cur \in Nat \ {0} /\ last \in Nat /\ it \in Timers \cup {NoTimer}
      /\ moved \in BOOLEAN /\ meddled \in BOOLEAN
      /\ due \subseteq alive /\ ticked \subseteq Timers /\ expired \in Nat
      /\ len \in Nat
  BY DEF TypeOK
<1>v. ASSUME VectorOK(slots', len', alive'),
             /\ TimeOut' \in [Timers -> Int] /\ RepeatInterval' \in [Timers -> Int]
             /\ Repeat' \in [Timers -> BOOLEAN]
             /\ now' \in 0 .. MaxTime /\ thetime' \in 0 .. now'
             /\ pc' \in {"idle", "walk", "tick", "undefined"}
             /\ cur' \in Nat \ {0} /\ last' \in Nat /\ it' \in Timers \cup {NoTimer}
             /\ moved' \in BOOLEAN /\ meddled' \in BOOLEAN
             /\ due' \subseteq alive' /\ ticked' \subseteq Timers /\ expired' \in Nat
      PROVE  TypeOK' /\ VectorOK(slots', len', alive')
  BY <1>v DEF TypeOK, VectorOK
<1>1. ASSUME NEW t \in Timers, SkipTimer(t) \/ CallTick(t) 
      PROVE  TypeOK' /\ VectorOK(slots', len', alive')
  BY <1>t, <1>v, <1>1 DEF SkipTimer, CallTick, AtTimer, vector, fields, walk, history
<1>2. ASSUME Rearm 
      PROVE  TypeOK' /\ VectorOK(slots', len', alive')
  BY <1>t, <1>v, <1>2 DEF Rearm, vector, history
<1>3. ASSUME Expire 
      PROVE  TypeOK' /\ VectorOK(slots', len', alive')
  <2>1. VectorOK(slots', len', alive')
    BY <1>3, Delisted DEF Expire
  <2> QED BY <1>t, <1>v, <1>3, <2>1 DEF Expire, fields
<1>4. ASSUME EndWalk
      PROVE  TypeOK' /\ VectorOK(slots', len', alive')
  <2>1. /\ slots' = slots /\ len' = len /\ alive' = alive /\ now' = now
        /\ TimeOut' = TimeOut /\ RepeatInterval' = RepeatInterval /\ Repeat' = Repeat
        /\ thetime' = 0 /\ cur' = 1 /\ last' = 0 /\ it' = NoTimer /\ pc' = "idle"
        /\ moved' = FALSE /\ meddled' = FALSE
        /\ due' = {} /\ ticked' = {} /\ expired' = 0
    BY <1>4 DEF EndWalk, vector, fields
  <2>2. thetime' \in 0 .. now' /\ now' \in 0 .. MaxTime
    BY <1>t, <2>1
  <2>3. moved' \in BOOLEAN /\ meddled' \in BOOLEAN
    BY Zenon, <2>1
  <2>4. VectorOK(slots', len', alive')
    BY <2>1
  <2>5. /\ cur' \in Nat \ {0} /\ last' \in Nat /\ it' \in Timers \cup {NoTimer}
        /\ due' \subseteq alive' /\ ticked' \subseteq Timers /\ expired' \in Nat
        /\ pc' \in {"idle", "walk", "tick", "undefined"}
    BY <2>1
  <2>6. /\ TimeOut' \in [Timers -> Int] /\ RepeatInterval' \in [Timers -> Int]
        /\ Repeat' \in [Timers -> BOOLEAN]
    BY <1>t, <2>1
  <2> QED BY <1>v, <2>2, <2>3, <2>4, <2>5, <2>6
<1>8. ASSUME UseFreed
      PROVE  TypeOK' /\ VectorOK(slots', len', alive')
  BY <1>t, <1>v, <1>8 DEF UseFreed, vector, fields, history
<1>9. ASSUME TickTimers
      PROVE  TypeOK' /\ VectorOK(slots', len', alive')
  BY <1>t, <1>v, <1>9 DEF TickTimers, vector, fields
<1>10. ASSUME Advance
       PROVE  TypeOK' /\ VectorOK(slots', len', alive')
  BY <1>t, <1>v, <1>10 DEF Advance, vector, fields, walk, history
<1>5. ASSUME NEW t \in Timers, NEW timeout \in Timeouts, NEW repeat \in BOOLEAN,
             Construct(t, timeout, repeat)
      PROVE  TypeOK' /\ VectorOK(slots', len', alive')
  <2>1. VectorOK(slots', len', alive')
    BY <1>5, Registered DEF Construct
  <2>2. /\ now + timeout \in Int /\ timeout \in Int
        /\ (moved' \in BOOLEAN) /\ (meddled' \in BOOLEAN)
    BY <1>t, <1>5 DEF Construct, RegisterTimer
  <2> QED BY <1>t, <1>v, <1>5, <2>1, <2>2 DEF Construct, walk
<1>6. ASSUME NEW t \in Timers, Delete(t) 
      PROVE  TypeOK' /\ VectorOK(slots', len', alive')
  <2>1. VectorOK(slots', len', alive')
    BY <1>6, Delisted DEF Delete
  <2> QED BY <1>t, <1>v, <1>6, <2>1 DEF Delete, fields, walk
<1>7. CASE UNCHANGED vars
  BY <1>7 DEF vars, vector, fields, walk, history, TypeOK
<1> QED
  BY <1>1, <1>2, <1>3, <1>4, <1>5, <1>6, <1>7, <1>8, <1>9, <1>10
     DEF Next, WalkStep, Application

-----------------------------------------------------------------------------
(* What the walk remembers is forgotten when it ends. *)
LEMMA IdleStep == TimerInv /\ [Next]_vars => IdleOK'
<1> SUFFICES ASSUME TimerInv, [Next]_vars PROVE IdleOK'
  OBVIOUS
<1>t. IdleOK /\ pc \in {"idle", "walk", "tick", "undefined"}
  BY DEF TimerInv, TypeOK
<1>1. ASSUME NEW t \in Timers, SkipTimer(t) \/ CallTick(t) PROVE IdleOK'
  BY <1>t, <1>1 DEF SkipTimer, CallTick, AtTimer, history, IdleOK
<1>2. ASSUME Rearm \/ Expire PROVE IdleOK'
  BY <1>t, <1>2 DEF Rearm, Expire, history, IdleOK
<1>3. ASSUME EndWalk PROVE IdleOK'
  BY <1>3 DEF EndWalk, IdleOK
<1>4. ASSUME UseFreed \/ TickTimers PROVE IdleOK'
  BY <1>t, <1>4 DEF UseFreed, UsesFreed, TickTimers, history, IdleOK
<1>5. ASSUME NEW t \in Timers, NEW timeout \in Timeouts, NEW repeat \in BOOLEAN,
             Construct(t, timeout, repeat)
      PROVE  IdleOK'
  BY <1>t, <1>5 DEF Construct, RegisterTimer, IdleOK
<1>6. ASSUME NEW t \in Timers, Delete(t) PROVE IdleOK'
  BY <1>t, <1>6 DEF Delete, IdleOK
<1>7. CASE UNCHANGED vars \/ Advance
  BY <1>t, <1>7 DEF Advance, vars, history, IdleOK
<1> QED
  BY <1>1, <1>2, <1>3, <1>4, <1>5, <1>6, <1>7 DEF Next, WalkStep, Application

(* As long as nothing is deleted, the walk leaves behind what it ticks. *)
LEMMA BehindStep == TimerInv /\ [Next]_vars => TickedBehind'
<1> SUFFICES ASSUME TimerInv, [Next]_vars PROVE TickedBehind'
  OBVIOUS
<1>t. /\ TickedBehind /\ IdleOK /\ EndOK /\ VectorOK(slots, len, alive)
      /\ cur \in Nat \ {0} /\ last \in Nat /\ len \in Nat /\ expired \in Nat
      /\ pc \in {"idle", "walk", "tick", "undefined"}
  BY DEF TimerInv, TypeOK
<1>1. ASSUME NEW t \in Timers, SkipTimer(t) PROVE TickedBehind'
  BY <1>t, <1>1 DEF SkipTimer, AtTimer, vector, history, TickedBehind, Walking
<1>2. ASSUME NEW t \in Timers, CallTick(t) PROVE TickedBehind'
  <2>1. /\ slots' = slots /\ len' = len /\ cur' = cur /\ meddled' = meddled
        /\ expired' = expired /\ ticked' = ticked \cup {t} /\ pc' = "tick"
        /\ pc = "walk" /\ cur <= last /\ slots[cur] = t
    BY <1>2 DEF CallTick, AtTimer, vector
  <2>2. ~meddled /\ expired = 0 => cur \in 1 .. len
    BY <1>t, <2>1 DEF EndOK, Walking
  <2> QED BY <1>t, <2>1, <2>2 DEF TickedBehind, Walking
<1>3. ASSUME Rearm PROVE TickedBehind'
  BY <1>t, <1>3 DEF Rearm, vector, history, TickedBehind, Walking
<1>4. ASSUME Expire PROVE TickedBehind'
  BY <1>t, <1>4 DEF Expire, TickedBehind
<1>5. ASSUME EndWalk \/ TickTimers PROVE TickedBehind'
  BY <1>t, <1>5 DEF EndWalk, TickTimers, TickedBehind, IdleOK, Walking
<1>6. ASSUME UseFreed PROVE TickedBehind'
  BY <1>t, <1>6 DEF UseFreed, UsesFreed, vector, history, TickedBehind, Walking
<1>7. ASSUME NEW t \in Timers, NEW timeout \in Timeouts, NEW repeat \in BOOLEAN,
             Construct(t, timeout, repeat)
      PROVE  TickedBehind'
  <2>1. /\ len' = len + 1 /\ \A i \in 1 .. len : slots'[i] = slots[i]
        /\ 1 .. len \subseteq 1 .. len'
    BY <1>t, <1>7, Registered DEF Construct
  <2>2. /\ cur' = cur /\ pc' = pc /\ expired' = expired /\ ticked' = ticked
        /\ ~meddled' => ~meddled
    BY <1>7 DEF Construct, RegisterTimer, walk
  <2> QED BY <1>t, <2>1, <2>2 DEF TickedBehind, Walking
<1>8. ASSUME NEW t \in Timers, Delete(t) PROVE TickedBehind'
  BY <1>t, <1>8 DEF Delete, walk, TickedBehind, Walking
<1>9. CASE UNCHANGED vars \/ Advance
  BY <1>t, <1>9 DEF Advance, vars, vector, walk, history, TickedBehind, Walking
<1> QED
  BY <1>1, <1>2, <1>3, <1>4, <1>5, <1>6, <1>7, <1>8, <1>9
     DEF Next, WalkStep, Application

(* A repeating timer with a positive interval is re-armed beyond the time  *)
(* of the walk, and so is one constructed at a freed address.              *)
LEMMA ArmedStep == TimerInv /\ [Next]_vars => ArmedOK'
<1> SUFFICES ASSUME TimerInv, [Next]_vars PROVE ArmedOK'
  OBVIOUS
<1>t. /\ ArmedOK /\ IdleOK
      /\ alive \subseteq Timers /\ TimeOut \in [Timers -> Int]
      /\ RepeatInterval \in [Timers -> Int] /\ Repeat \in [Timers -> BOOLEAN]
      /\ now \in Nat /\ thetime \in Nat /\ thetime <= now
      /\ pc \in {"idle", "walk", "tick", "undefined"}
  BY DEF TimerInv, TypeOK
<1>1. ASSUME NEW t \in Timers, SkipTimer(t) \/ CallTick(t) PROVE ArmedOK'
  BY <1>t, <1>1 DEF SkipTimer, CallTick, AtTimer, fields, history, ArmedOK, Walking
<1>2. ASSUME Rearm PROVE ArmedOK'
  BY <1>t, <1>2 DEF Rearm, history, ArmedOK, Walking
<1>3. ASSUME Expire PROVE ArmedOK'
  BY <1>t, <1>3 DEF Expire, fields, ArmedOK, Walking
<1>4. ASSUME EndWalk \/ TickTimers PROVE ArmedOK'
  BY <1>t, <1>4 DEF EndWalk, TickTimers, fields, ArmedOK, IdleOK, Walking
<1>5. ASSUME UseFreed PROVE ArmedOK'
  BY <1>t, <1>5 DEF UseFreed, UsesFreed, fields, history, ArmedOK, Walking
<1>6. ASSUME NEW t \in Timers, NEW timeout \in Timeouts, NEW repeat \in BOOLEAN,
             Construct(t, timeout, repeat)
      PROVE  ArmedOK'
  <2>1. timeout \in Int
    BY TimeAssumption
  <2> QED BY <1>t, <1>6, <2>1 DEF Construct, walk, ArmedOK, Walking
<1>7. ASSUME NEW t \in Timers, Delete(t) PROVE ArmedOK'
  BY <1>t, <1>7 DEF Delete, fields, walk, ArmedOK, Walking
<1>8. CASE UNCHANGED vars \/ Advance
  BY <1>t, <1>8 DEF Advance, vars, fields, walk, history, ArmedOK, Walking
<1> QED
  BY <1>1, <1>2, <1>3, <1>4, <1>5, <1>6, <1>7, <1>8 DEF Next, WalkStep, Application

(* The slots left to visit stay in the vector, up to one. *)
LEMMA EndStep == TimerInv /\ [Next]_vars => EndOK'
<1> SUFFICES ASSUME TimerInv, [Next]_vars, Walking', ~meddled', cur' <= last'
             PROVE  /\ expired' = 0 => last' <= len'
                    /\ expired' = 1 =>
                          /\ last' <= len' + 1
                          /\ last' = len' + 1 => slots'[last'] \in alive'
  BY DEF EndOK, Walking
<1>t. /\ EndOK /\ TickOK /\ IdleOK /\ VectorOK(slots, len, alive)
      /\ cur \in Nat \ {0} /\ last \in Nat /\ expired \in Nat
      /\ len \in Nat /\ len <= Len(slots) /\ Len(slots) \in Nat
      /\ pc \in {"idle", "walk", "tick", "undefined"}
      /\ alive \subseteq Timers
  BY DEF TimerInv, TypeOK
<1>1. CASE \E t \in Timers : SkipTimer(t) \/ CallTick(t)
  BY <1>t, <1>1 DEF SkipTimer, CallTick, AtTimer, vector, history, EndOK, Walking
<1>2. CASE Rearm
  BY <1>t, <1>2 DEF Rearm, vector, history, EndOK, Walking
<1>3. CASE Expire
  <2>1. /\ pc = "tick" /\ ~meddled /\ cur' = cur + 1 /\ last' = last
        /\ expired' = expired + 1 /\ it \in alive
    BY <1>3 DEF Expire
  <2>2. CASE expired = 0
    <3>1. last <= len /\ cur < last /\ slots[cur] = it
      BY <1>t, <2>1, <2>2 DEF EndOK, TickOK, Walking
    <3>2. PICK k \in 1 .. len :
              /\ slots[k] = it
              /\ \A i \in 1 .. Len(slots) :
                    slots'[i] = IF k <= i /\ i < len THEN slots[i + 1] ELSE slots[i]
      BY <1>t, <1>3, Delisted DEF Expire
    <3>3. len >= 1 /\ len' = len - 1 /\ VectorOK(slots', len', alive')
      BY <1>t, <1>3, Delisted DEF Expire
    <3>4. k = cur
      BY <1>t, <3>1, <3>2 DEF VectorOK
    <3>5. ASSUME last = len PROVE slots'[last] \in alive'
      <4>1. slots'[len - 1] = slots[len] /\ slots'[len] = slots[len]
        BY <1>t, <3>1, <3>2, <3>4, <3>5
      <4>2. len - 1 \in 1 .. len'
        BY <1>t, <3>1, <3>3, <3>5
      <4> QED BY <3>3, <3>5, <4>1, <4>2 DEF VectorOK
    <3> QED BY <1>t, <2>1, <2>2, <3>1, <3>3, <3>5
  <2> QED BY <1>t, <2>1, <2>2
<1>4. CASE EndWalk
  BY <1>4 DEF EndWalk
<1>5. CASE UseFreed
  BY <1>t, <1>5 DEF UseFreed, UsesFreed, vector, history, EndOK, Walking, TickOK
<1>6. CASE TickTimers
  BY <1>t, <1>6 DEF TickTimers, vector, IdleOK, Walking
<1>7. ASSUME NEW t \in Timers, NEW timeout \in Timeouts, NEW repeat \in BOOLEAN,
             Construct(t, timeout, repeat)
      PROVE  /\ expired' = 0 => last' <= len'
             /\ expired' = 1 =>
                   /\ last' <= len' + 1
                   /\ last' = len' + 1 => slots'[last'] \in alive'
  <2>1. len' = len + 1 /\ last' = last /\ expired' = expired /\ cur' = cur /\ pc' = pc
    BY <1>7 DEF Construct, RegisterTimer, walk
  <2>2. ~meddled
    BY <1>7 DEF Construct, RegisterTimer
  <2> QED BY <1>t, <2>1, <2>2 DEF EndOK, Walking
<1>8. CASE \E t \in Timers : Delete(t)
  BY <1>t, <1>8 DEF Delete, Walking
<1>9. CASE UNCHANGED vars \/ Advance
  BY <1>t, <1>9 DEF Advance, vars, vector, walk, history, EndOK, Walking
<1> QED
  BY <1>1, <1>2, <1>3, <1>4, <1>5, <1>6, <1>7, <1>8, <1>9 DEF Next, WalkStep, Application

(* The timer being ticked stays where the walk is until something expires. *)
LEMMA TickStep == TimerInv /\ [Next]_vars => TickOK'
<1> SUFFICES ASSUME TimerInv, [Next]_vars, pc' = "tick", ~meddled'
             PROVE  /\ it' \in alive' \cap ticked' /\ cur' <= last'
                    /\ expired' = 0 => slots'[cur'] = it'
                    /\ cur' <= len' => slots'[cur'] \notin due' \ ticked'
  BY DEF TickOK
<1>t. /\ EndOK /\ TickOK /\ VectorOK(slots, len, alive)
      /\ cur \in Nat \ {0} /\ last \in Nat /\ len \in Nat /\ due \subseteq alive
  BY DEF TimerInv, TypeOK
<1>1. CASE \E t \in Timers : SkipTimer(t) \/ CallTick(t)
  BY <1>t, <1>1 DEF SkipTimer, CallTick, AtTimer, vector
<1>2. CASE Rearm \/ Expire \/ EndWalk \/ UseFreed \/ TickTimers
  BY <1>2 DEF Rearm, Expire, EndWalk, UseFreed, TickTimers
<1>3. ASSUME NEW t \in Timers, NEW timeout \in Timeouts, NEW repeat \in BOOLEAN,
             Construct(t, timeout, repeat)
      PROVE  /\ it' \in alive' \cap ticked' /\ cur' <= last'
             /\ expired' = 0 => slots'[cur'] = it'
             /\ cur' <= len' => slots'[cur'] \notin due' \ ticked'
  <2>1. /\ len' = len + 1 /\ last' = last /\ expired' = expired /\ cur' = cur
        /\ it' = it /\ due' = due /\ ticked' = ticked /\ alive' = alive \cup {t}
        /\ pc = "tick" /\ t \notin alive
    BY <1>3 DEF Construct, RegisterTimer, walk
  <2>2. ~meddled
    BY <1>3 DEF Construct, RegisterTimer
  <2>3. slots'[len + 1] = t /\ \A i \in 1 .. len : slots'[i] = slots[i]
    BY <1>t, <1>3, Registered DEF Construct
  <2>4. expired = 0 => cur <= len
    BY <1>t, <2>1, <2>2 DEF EndOK, TickOK, Walking
  <2> QED BY <1>t, <2>1, <2>2, <2>3, <2>4 DEF TickOK
<1>4. CASE \E t \in Timers : Delete(t)
  BY <1>4 DEF Delete
<1>5. CASE UNCHANGED vars \/ Advance
  BY <1>t, <1>5 DEF Advance, vars, vector, walk, history, TickOK
<1> QED
  BY <1>1, <1>2, <1>3, <1>4, <1>5 DEF Next, WalkStep, Application

-----------------------------------------------------------------------------
(* The timers behind the walk are finitely many. *)
LEMMA BehindFinite ==
    ASSUME NEW A, IsFiniteSet(A), NEW D \in SUBSET A, NEW s, NEW n, NEW c
    PROVE  /\ IsFiniteSet(Behind(s, n, c, D)) /\ Cardinality(Behind(s, n, c, D)) \in Nat
<1>1. Behind(s, n, c, D) \subseteq A
  BY DEF Behind
<1> QED BY <1>1, FS_Subset, FS_CardinalityType

(* A subset of a finite set and one more element. *)
LEMMA AtMostOneMore ==
    ASSUME NEW B, IsFiniteSet(B), NEW x, NEW C \in SUBSET (B \cup {x})
    PROVE  Cardinality(C) <= Cardinality(B) + 1
<1>1. Cardinality(B) \in Nat
  BY FS_CardinalityType
<1>2. /\ IsFiniteSet(B \cup {x})
      /\ Cardinality(B \cup {x})
           = IF x \in B THEN Cardinality(B) ELSE Cardinality(B) + 1
  BY FS_AddElement
<1>3. Cardinality(C) <= Cardinality(B \cup {x}) /\ Cardinality(C) \in Nat
  BY <1>2, FS_Subset, FS_CardinalityType
<1> QED BY <1>1, <1>2, <1>3

(* The walk moves on over a slot that holds no due timer it has not        *)
(* ticked: none is left behind.                                            *)
LEMMA MovedOn ==
    ASSUME NEW s, NEW n, NEW c \in Nat, NEW D, c <= n => s[c] \notin D, n \in Nat
    PROVE  Behind(s, n, c + 1, D) = Behind(s, n, c, D)
<1>1. ASSUME NEW i \in 1 .. n, i < c + 1, s[i] \in D PROVE i < c
  BY <1>1
<1>2. \A i \in 1 .. n : i < c => i < c + 1
  OBVIOUS
<1> QED BY <1>1, <1>2 DEF Behind

(* An expiry moves the due timers behind it down: at most the one after    *)
(* the walk's position gets behind it.                                     *)
LEMMA ExpiredUnderWalk ==
    ASSUME VectorOK(slots, len, alive), NEW t \in alive,
           alive' = alive \ {t}, DelistTimer(t),
           NEW D \in SUBSET alive, NEW c \in Nat \ {0}, c <= len => slots[c] \notin D
    PROVE  Cardinality(Behind(slots', len', c + 1, D \ {t}))
              <= Cardinality(Behind(slots, len, c, D)) + 1
<1>t. len \in Nat /\ len <= Len(slots) /\ Len(slots) \in Nat /\ IsFiniteSet(alive)
  BY DEF VectorOK
<1>1. len' = len - 1
  BY Delisted
<1>2. PICK k \in 1 .. len :
          /\ slots[k] = t
          /\ \A i \in 1 .. Len(slots) :
                slots'[i] = IF k <= i /\ i < len THEN slots[i + 1] ELSE slots[i]
  BY Delisted
<1>3. ASSUME NEW u \in Behind(slots', len', c + 1, D \ {t}), u # slots[c + 1]
      PROVE  u \in Behind(slots, len, c, D)
  <2>1. PICK i \in 1 .. len - 1 : i < c + 1 /\ slots'[i] = u
    BY <1>1 DEF Behind
  <2>2. u \in D
    BY DEF Behind
  <2>3. slots'[i] = IF k <= i THEN slots[i + 1] ELSE slots[i]
    BY <1>t, <1>2, <2>1
  <2> DEFINE j == IF k <= i THEN i + 1 ELSE i
  <2>4. j \in 1 .. len /\ slots[j] = u /\ j <= c + 1
    BY <1>t, <2>1, <2>3
  <2>5. j # c + 1 /\ j # c
    BY <1>t, <1>3, <2>2, <2>4
  <2>6. j < c
    BY <2>4, <2>5
  <2> QED BY <2>2, <2>4, <2>6 DEF Behind
<1>4. Behind(slots', len', c + 1, D \ {t})
        \in SUBSET (Behind(slots, len, c, D) \cup {slots[c + 1]})
  BY <1>3
<1> QED BY <1>t, <1>4, BehindFinite, AtMostOneMore

(* Every expiry makes the walk pass over at most one timer. *)
LEMMA SkipStep == TimerInv /\ [Next]_vars => SkipOK'
<1> DEFINE D == due \ ticked
           Goal == /\ \A t \in D' : TimeOut'[t] <= thetime'
                   /\ \A t \in due' : \E i \in 1 .. len' : i <= last' /\ slots'[i] = t
                   /\ Cardinality(Behind(slots', len', cur', D')) <= expired'
<1> SUFFICES ASSUME TimerInv, [Next]_vars, Walking', ~meddled'
             PROVE  Goal
  BY DEF SkipOK, Walking
<1>t. /\ EndOK /\ TickOK /\ IdleOK /\ SkipOK /\ VectorOK(slots, len, alive)
      /\ cur \in Nat \ {0} /\ last \in Nat /\ expired \in Nat
      /\ len \in Nat /\ len <= Len(slots) /\ Len(slots) \in Nat
      /\ pc \in {"idle", "walk", "tick", "undefined"}
      /\ now \in Nat /\ thetime \in Nat /\ TimeOut \in [Timers -> Int]
      /\ alive \subseteq Timers /\ due \subseteq alive
  BY DEF TimerInv, TypeOK
<1>f. /\ IsFiniteSet(alive)
      /\ IsFiniteSet(Behind(slots, len, cur, D))
      /\ Cardinality(Behind(slots, len, cur, D)) \in Nat
  <2>1. IsFiniteSet(alive)
    BY <1>t DEF VectorOK
  <2> QED BY <1>t, <2>1, BehindFinite
<1>s. ASSUME Walking, ~meddled
      PROVE  /\ \A t \in D : TimeOut[t] <= thetime
             /\ \A t \in due : \E i \in 1 .. len : i <= last /\ slots[i] = t
             /\ Cardinality(Behind(slots, len, cur, D)) <= expired
  BY <1>t, <1>s DEF SkipOK
<1>1. ASSUME NEW t \in Timers, SkipTimer(t) PROVE Goal
  <2>1. /\ slots' = slots /\ len' = len /\ cur' = cur + 1 /\ last' = last
        /\ due' = due /\ ticked' = ticked /\ expired' = expired
        /\ TimeOut' = TimeOut /\ thetime' = thetime /\ Walking /\ ~meddled
        /\ slots[cur] = t /\ TimeOut[t] > thetime
    BY <1>1 DEF SkipTimer, AtTimer, vector, fields, history, Walking
  <2>2. t \notin D
    BY <1>t, <1>s, <2>1
  <2>3. Behind(slots, len, cur + 1, D) = Behind(slots, len, cur, D)
    BY <1>t, <2>1, <2>2, MovedOn
  <2> QED BY <1>s, <2>1, <2>3
<1>2. ASSUME NEW t \in Timers, CallTick(t) PROVE Goal
  <2>1. /\ slots' = slots /\ len' = len /\ cur' = cur /\ last' = last
        /\ due' = due /\ ticked' = ticked \cup {t} /\ expired' = expired
        /\ TimeOut' = TimeOut /\ thetime' = thetime /\ Walking /\ ~meddled
    BY <1>2 DEF CallTick, AtTimer, vector, fields, Walking
  <2>2. Behind(slots', len', cur', D') \subseteq Behind(slots, len, cur, D)
    BY <2>1 DEF Behind
  <2>3. /\ Cardinality(Behind(slots', len', cur', D')) \in Nat
        /\ Cardinality(Behind(slots', len', cur', D'))
             <= Cardinality(Behind(slots, len, cur, D))
    BY <1>f, <2>2, FS_Subset, FS_CardinalityType
  <2> QED BY <1>t, <1>s, <1>f, <2>1, <2>3
<1>3. ASSUME Rearm PROVE Goal
  <2>1. /\ slots' = slots /\ len' = len /\ cur' = cur + 1 /\ last' = last
        /\ due' = due /\ ticked' = ticked /\ expired' = expired /\ pc = "tick"
        /\ thetime' = thetime /\ Walking /\ ~meddled
        /\ TimeOut' = [TimeOut EXCEPT ![it] = now + RepeatInterval[it]]
    BY <1>3 DEF Rearm, vector, history, Walking
  <2>2. cur <= len => slots[cur] \notin D
    BY <1>t, <2>1 DEF TickOK
  <2>3. Behind(slots, len, cur + 1, D) = Behind(slots, len, cur, D)
    BY <1>t, <2>2, MovedOn
  <2>4. it \notin D
    BY <1>t, <2>1 DEF TickOK
  <2>5. \A t \in D' : TimeOut'[t] <= thetime'
    BY <1>t, <1>s, <2>1, <2>4
  <2> QED BY <1>t, <1>s, <2>1, <2>3, <2>5
<1>4. ASSUME Expire PROVE Goal
  <2>1. /\ cur' = cur + 1 /\ last' = last /\ it \in alive /\ pc = "tick"
        /\ due' = due \ {it} /\ ticked' = ticked /\ expired' = expired + 1
        /\ TimeOut' = TimeOut /\ thetime' = thetime /\ Walking /\ ~meddled
        /\ alive' = alive \ {it} /\ DelistTimer(it)
    BY <1>4 DEF Expire, fields, Walking
  <2>2. cur <= len => slots[cur] \notin D
    BY <1>t, <2>1 DEF TickOK
  <2>3. D' = D \ {it} /\ D \in SUBSET alive
    BY <1>t, <2>1
  <2>4. Cardinality(Behind(slots', len', cur', D'))
          <= Cardinality(Behind(slots, len, cur, D)) + 1
    BY <1>t, <2>1, <2>2, <2>3, ExpiredUnderWalk
  <2>5. Cardinality(Behind(slots', len', cur', D')) \in Nat
    <3>1. D' \in SUBSET alive
      BY <2>3
    <3> QED BY <1>f, <3>1, BehindFinite
  <2>6. ASSUME NEW t \in due'
        PROVE  \E i \in 1 .. len' : i <= last' /\ slots'[i] = t
    <3>1. PICK k \in 1 .. len :
              /\ slots[k] = it
              /\ \A i \in 1 .. Len(slots) :
                    slots'[i] = IF k <= i /\ i < len THEN slots[i + 1] ELSE slots[i]
      BY <1>t, <2>1, Delisted
    <3>2. PICK i \in 1 .. len : i <= last /\ slots[i] = t
      BY <1>s, <2>1
    <3>a. i # k
      BY <2>1, <3>1, <3>2
    <3>b. len' = len - 1
      BY <1>t, <2>1, Delisted
    <3>3. i # k /\ len' = len - 1
      BY <3>a, <3>b
    <3>4. CASE i < k
      <4>1. i \in 1 .. len' /\ i <= last'
        BY <1>t, <2>1, <3>2, <3>3, <3>4
      <4>2. slots'[i] = t
        BY <1>t, <3>1, <3>2, <3>4
      <4> QED BY <4>1, <4>2
    <3>5. CASE i > k
      <4>1. i - 1 \in 1 .. len' /\ slots'[i - 1] = t /\ i - 1 <= last'
        BY <1>t, <2>1, <3>1, <3>2, <3>3, <3>5
      <4> QED BY <4>1
    <3> QED BY <3>3, <3>4, <3>5
  <2>7. \A t \in D' : TimeOut'[t] <= thetime'
    BY <1>s, <2>1
  <2> QED BY <1>t, <1>s, <1>f, <2>1, <2>4, <2>5, <2>6, <2>7
<1>5. ASSUME EndWalk PROVE Goal
  BY <1>5 DEF EndWalk, Walking
<1>6. ASSUME UseFreed PROVE Goal
  <2>1. /\ slots' = slots /\ len' = len /\ last' = last
        /\ due' = due /\ ticked' = ticked /\ expired' = expired
        /\ TimeOut' = TimeOut /\ thetime' = thetime /\ Walking /\ ~meddled
        /\ cur' = cur + 1 /\ UsesFreed
    BY <1>6 DEF UseFreed, UsesFreed, vector, fields, history, Walking
  <2>2. pc = "walk" /\ slots[cur] \notin alive
    BY <1>t, <2>1 DEF UsesFreed, TickOK, IdleOK
  <2>3. cur <= len => slots[cur] \notin D
    BY <1>t, <2>2
  <2>4. Behind(slots, len, cur + 1, D) = Behind(slots, len, cur, D)
    BY <1>t, <2>3, MovedOn
  <2> QED BY <1>s, <2>1, <2>4
<1>7. ASSUME TickTimers PROVE Goal
  <2>1. /\ slots' = slots /\ len' = len /\ cur' = 1 /\ last' = len /\ ticked' = ticked
        /\ due' = {t \in alive : TimeOut[t] <= now} /\ expired' = expired
        /\ TimeOut' = TimeOut /\ thetime' = now /\ expired = 0 /\ ticked = {}
    BY <1>t, <1>7 DEF TickTimers, IdleOK, vector, fields
  <2>2. Behind(slots', len', cur', D') = {}
    BY <1>t, <2>1 DEF Behind
  <2>3. Cardinality(Behind(slots', len', cur', D')) = 0
    BY Zenon, <2>2, FS_EmptySet
  <2>4. \A t \in due' : \E i \in 1 .. len' : i <= last' /\ slots'[i] = t
    BY <1>t, <2>1 DEF VectorOK
  <2>5. \A t \in D' : TimeOut'[t] <= thetime'
    BY <1>t, <2>1
  <2> QED BY <2>1, <2>3, <2>4, <2>5
<1>8. ASSUME NEW t \in Timers, NEW timeout \in Timeouts, NEW repeat \in BOOLEAN,
             Construct(t, timeout, repeat)
      PROVE  Goal
  <2>1. /\ len' = len + 1 /\ cur' = cur /\ last' = last /\ pc = "tick"
        /\ due' = due /\ ticked' = ticked /\ expired' = expired
        /\ thetime' = thetime /\ Walking /\ t \notin alive
        /\ TimeOut' = [TimeOut EXCEPT ![t] = IF repeat THEN now + timeout ELSE timeout]
    BY <1>8 DEF Construct, RegisterTimer, walk, Walking
  <2>2. ~meddled
    BY <1>8 DEF Construct, RegisterTimer
  <2>3. slots'[len + 1] = t /\ \A i \in 1 .. len : slots'[i] = slots[i]
    BY <1>t, <1>8, Registered DEF Construct
  <2>4. Behind(slots', len', cur', D') \subseteq Behind(slots, len, cur, D)
    <3>1. t \notin D
      BY <1>t, <2>1
    <3>2. \A i \in 1 .. len + 1 : i = len + 1 \/ i \in 1 .. len
      BY <1>t
    <3> QED BY <2>1, <2>3, <3>1, <3>2 DEF Behind
  <2>5. /\ Cardinality(Behind(slots', len', cur', D')) \in Nat
        /\ Cardinality(Behind(slots', len', cur', D'))
             <= Cardinality(Behind(slots, len, cur, D))
    BY <1>f, <2>4, FS_Subset, FS_CardinalityType
  <2>6. \A u \in due' : \E i \in 1 .. len' : i <= last' /\ slots'[i] = u
    BY <1>t, <1>s, <2>1, <2>2, <2>3
  <2>7. \A u \in D' : TimeOut'[u] <= thetime'
    <3>1. \A u \in D : u # t /\ u \in Timers
      BY <1>t, <2>1
    <3> QED BY <1>t, <1>s, <2>1, <2>2, <3>1
  <2> QED BY <1>t, <1>s, <1>f, <2>1, <2>2, <2>5, <2>6, <2>7
<1>9. ASSUME NEW t \in Timers, Delete(t) PROVE Goal
  BY <1>9 DEF Delete, walk, Walking
<1>10. ASSUME UNCHANGED vars \/ Advance PROVE Goal
  <2>1. /\ slots' = slots /\ len' = len /\ cur' = cur /\ last' = last
        /\ due' = due /\ ticked' = ticked /\ expired' = expired
        /\ TimeOut' = TimeOut /\ thetime' = thetime /\ Walking /\ ~meddled
    BY <1>10 DEF Advance, vars, vector, fields, walk, history, Walking
  <2> QED BY <1>s, <2>1
<1> HIDE DEF Goal
<1> QED
  BY <1>1, <1>2, <1>3, <1>4, <1>5, <1>6, <1>7, <1>8, <1>9, <1>10
     DEF Next, WalkStep, Application

-----------------------------------------------------------------------------
(* No timer exists before the first one is constructed. *)
LEMMA TimerInit == Init => TimerInv
<1> SUFFICES ASSUME Init PROVE TimerInv
  OBVIOUS
<1> USE TimersAssumption, TimeAssumption DEF Init
<1>1. TypeOK
  <2>1. slots \in Seq(Timers \cup {NoTimer}) /\ len \in 0 .. Len(slots)
    OBVIOUS
  <2>2. moved \in BOOLEAN /\ meddled \in BOOLEAN /\ Repeat \in [Timers -> BOOLEAN]
    OBVIOUS
  <2>3. /\ TimeOut \in [Timers -> Int] /\ RepeatInterval \in [Timers -> Int]
        /\ now \in 0 .. MaxTime /\ thetime \in 0 .. now
        /\ cur \in Nat \ {0} /\ last \in Nat /\ expired \in Nat
    OBVIOUS
  <2> QED BY <2>1, <2>2, <2>3 DEF TypeOK
<1>2. VectorOK(slots, len, alive)
  BY FS_EmptySet DEF VectorOK
<1>3. IdleOK /\ EndOK /\ TickOK /\ SkipOK /\ TickedBehind /\ ArmedOK
  BY DEF IdleOK, EndOK, TickOK, SkipOK, TickedBehind, ArmedOK, Walking
<1> QED BY <1>1, <1>2, <1>3 DEF TimerInv

(* The walk and the vector stay tied together whatever the Ticks and the   *)
(* application construct and delete (Timer.cpp:38-69).                     *)
THEOREM TimerInvariant == Spec => []TimerInv
<1>1. TimerInv /\ [Next]_vars => TimerInv'
  <2>1. TimerInv /\ [Next]_vars => TypeOK' /\ VectorOK(slots, len, alive)'
    BY VectorStep DEF TimerInv
  <2> QED BY <2>1, IdleStep, EndStep, TickStep, SkipStep, BehindStep, ArmedStep
       DEF TimerInv
<1> QED
  BY <1>1, TimerInit, PTL DEF Spec

(* Every variable keeps its type; the timers a walk has yet to tick exist. *)
THEOREM TimerTypeCorrect == Spec => []TypeOK
<1>1. TimerInv => TypeOK
  BY DEF TimerInv
<1> QED
  BY <1>1, TimerInvariant, PTL

(* The vector holds each timer that exists once (RegisterTimer and         *)
(* DelistTimer, Timer.cpp:62-69), also while it is walked.                 *)
THEOREM VectorHoldsTimers == Spec => []ListExact
<1>1. TimerInv => ListExact
  BY DEF TimerInv, VectorOK, ListExact
<1> QED
  BY <1>1, TimerInvariant, PTL

(* A range-for over the vector (Timer.cpp:42) reaches freed memory only    *)
(* after a Tick deleted a timer or made the vector grow, or after two      *)
(* expiries.                                                               *)
THEOREM FreedMemoryHasCause == Spec => []UseAfterFreeCause
<1>1. TimerInv => UseAfterFreeCause
  <2> SUFFICES ASSUME TimerInv, UsesFreed, ~meddled, ~(expired >= 2) PROVE FALSE
    BY DEF UseAfterFreeCause
  <2>1. /\ ~moved /\ expired \in {0, 1} /\ cur \in Nat \ {0} /\ last \in Nat
        /\ EndOK /\ TickOK /\ VectorOK(slots, len, alive) /\ len \in Nat
    BY DEF TimerInv, TypeOK, IdleOK
  <2>2. pc = "walk" /\ cur <= last /\ slots[cur] \notin alive
    BY <2>1 DEF UsesFreed, TickOK
  <2>3. cur \in 1 .. len \/ (cur = last /\ last = len + 1 /\ expired = 1)
    <3>1. expired = 0 => last <= len
      BY <2>1, <2>2 DEF EndOK, Walking
    <3>2. expired = 1 => last <= len + 1
      BY <2>1, <2>2 DEF EndOK, Walking
    <3>3. CASE expired = 0
      BY <2>1, <2>2, <3>1, <3>3
    <3>4. CASE expired = 1
      BY <2>1, <2>2, <3>2, <3>4
    <3> QED BY <2>1, <3>3, <3>4
  <2> QED BY <2>1, <2>2, <2>3 DEF EndOK, Walking, VectorOK
<1> QED
  BY <1>1, TimerInvariant, PTL

(* A walk passes over no more due timers than it has deleted               *)
(* (Timer.cpp:42-58).                                                      *)
THEOREM ExpiriesBoundSkips == Spec => []SkipBound
<1>1. TimerInv => SkipBound
  <2> SUFFICES ASSUME TimerInv, pc = "walk", cur > last, ~meddled
               PROVE  Cardinality(due \ ticked) <= expired
    BY DEF SkipBound
  <2>1. /\ SkipOK /\ cur \in Nat \ {0} /\ last \in Nat /\ len \in Nat
    BY DEF TimerInv, TypeOK
  <2>2. \A t \in due \ ticked : \E i \in 1 .. len : i < cur /\ slots[i] = t
    BY <2>1 DEF SkipOK, Walking
  <2>3. Behind(slots, len, cur, due \ ticked) = due \ ticked
    BY <2>2 DEF Behind
  <2> QED BY <2>1, <2>3 DEF SkipOK, Walking
<1> QED
  BY <1>1, TimerInvariant, PTL

(* A walk ticks a repeating timer twice (Timer.cpp:42-58) only if that     *)
(* timer's interval is not positive and the vector changed under the walk: *)
(* one with a positive interval is due later than the walk began when it   *)
(* is re-armed, and one that is always due is behind the walk's position.  *)
THEOREM RepeatingTickedOnce == Spec => TickedOnce
<1>1. TimerInv /\ [Next]_vars
        => [\A t \in Timers :
               CallTick(t) /\ t \in ticked /\ Repeat[t]
                   => RepeatInterval[t] <= 0 /\ (expired > 0 \/ meddled)]_vars
  <2> SUFFICES ASSUME TimerInv, NEW t \in Timers, CallTick(t), t \in ticked, Repeat[t]
               PROVE  RepeatInterval[t] <= 0 /\ (expired > 0 \/ meddled)
    OBVIOUS
  <2>1. /\ t \in alive \cap ticked /\ pc = "walk" /\ TimeOut[t] <= thetime
        /\ cur <= last /\ slots[cur] = t /\ thetime \in Nat
        /\ TimeOut \in [Timers -> Int] /\ RepeatInterval \in [Timers -> Int]
        /\ cur \in Nat \ {0} /\ last \in Nat /\ len \in Nat /\ expired \in Nat
        /\ ArmedOK /\ EndOK /\ TickedBehind /\ VectorOK(slots, len, alive)
    BY DEF CallTick, AtTimer, TimerInv, TypeOK
  <2>2. ~(RepeatInterval[t] > 0)
    BY <2>1 DEF ArmedOK, Walking
  <2>3. ASSUME ~meddled, expired = 0 PROVE FALSE
    <3>1. cur \in 1 .. len
      BY <2>1, <2>3 DEF EndOK, Walking
    <3>2. PICK i \in 1 .. len : slots[i] = t /\ i < cur
      BY <2>1, <2>3 DEF TickedBehind, Walking
    <3> QED BY <2>1, <3>1, <3>2 DEF VectorOK
  <2> QED BY <2>1, <2>2, <2>3
<1> QED
  BY <1>1, TimerInvariant, PTL DEF Spec, TickedOnce
=============================================================================
