------------------------- MODULE ThreadEngine_jobs -------------------------
(***************************************************************************)
(* What becomes of a job in the thread engine, for any number of workers   *)
(* and any set of jobs: none is lost or duplicated (JobConserved), and the *)
(* engine implements JobPool (EngineImplementsPool).  Both rest on         *)
(* EngineInv of ThreadEngine_proofs and on LocalInv, which ties the hands  *)
(* and the thread-local queue of a worker to its program counter; the      *)
(* refinement also needs to know how the loops over the list end           *)
(* (LoopInv).                                                              *)
(***************************************************************************)
EXTENDS ThreadEngine_proofs, FiniteSetTheorems

(* A worker holds a job exactly while it is inside it, and a thread that   *)
(* does not run has no thread-local queue.                                 *)
LocalInv ==
    \A w \in Workers :
        /\ func[w] # NoJob <=> pc[w] \in InJob
        /\ pc[w] \in {"unborn", "exited"} => threadQueue[w] = <<>>

(* Initialize leaves its loop with a full list, Shutdown with an empty one.*)
LoopInv ==
    /\ pc[Owner] \in {"spawn", "push"} => Workers \subseteq Threads \cup iter[Owner]
    /\ pc[Owner] = "reap" => Threads \subseteq iter[Owner]

RefinementInv == LocalInv /\ LoopInv

(* No step of the code breaks LocalInv: a job is popped into empty hands,  *)
(* and a worker that leaves its loop drops its own queue.                  *)
LEMMA LocalStep == EngineInv /\ LocalInv /\ [Next]_vars => LocalInv'
<1> SUFFICES ASSUME EngineInv, LocalInv, [Next]_vars PROVE LocalInv'
  OBVIOUS
<1> USE Constants, JobsAssumption DEF EngineInv, TypeOK, ControlOK, InJob,
      InSubmit, OwnerPCs, WorkerPCs, queues, flags, work, owner, LocalInv
<1>1. ASSUME NEW a \in Actors, NEW j \in Jobs, AddQueue(a, j) PROVE LocalInv'
  BY <1>1 DEF AddQueue
<1>2. ASSUME NEW a \in Actors, Submit(a) PROVE LocalInv'
  BY <1>2 DEF Submit, Goto
<1>3. ASSUME NEW a \in Actors, SubmitLock(a) PROVE LocalInv'
  BY <1>3 DEF SubmitLock, Goto
<1>4. ASSUME NEW a \in Actors, MoveJob(a) PROVE LocalInv'
  BY <1>4 DEF MoveJob
<1>5. ASSUME NEW a \in Actors, SubmitUnlock(a) PROVE LocalInv'
  BY <1>5 DEF SubmitUnlock, Goto
<1>6. ASSUME NEW a \in Actors, NEW w \in Workers, WakeSet(a, w) PROVE LocalInv'
  BY <1>6 DEF WakeSet, Goto
<1>7. ASSUME NEW a \in Actors, NEW w \in Workers, WakeNotify(a, w) PROVE LocalInv'
  BY <1>7 DEF WakeNotify
<1>8. ASSUME NEW a \in Actors, SubmitReturn(a) PROVE LocalInv'
  BY <1>8 DEF SubmitReturn, Goto
<1>9. ASSUME NEW w \in Workers, EnterLoop(w) PROVE LocalInv'
  BY <1>9 DEF EnterLoop, Goto
<1>10. ASSUME NEW w \in Workers, LeaveLoop(w) PROVE LocalInv'
  BY <1>10 DEF LeaveLoop, Goto
<1>11. ASSUME NEW w \in Workers, LockQueue(w) PROVE LocalInv'
  BY <1>11 DEF LockQueue, Goto
<1>12. ASSUME NEW w \in Workers, FindJob(w) PROVE LocalInv'
  BY <1>12 DEF FindJob, Goto
<1>13. ASSUME NEW w \in Workers, FindNoJob(w) PROVE LocalInv'
  BY <1>13 DEF FindNoJob, Goto
<1>14. ASSUME NEW w \in Workers, PopJob(w) PROVE LocalInv'
  <2>1. Head(funcs) \in Jobs
    BY <1>14 DEF PopJob
  <2> QED BY <1>14, <2>1 DEF PopJob, Goto
<1>15. ASSUME NEW w \in Workers, FinishJob(w) PROVE LocalInv'
  BY <1>15 DEF FinishJob, Goto
<1>16. ASSUME NEW w \in Workers, TestWake(w) PROVE LocalInv'
  BY <1>16 DEF TestWake, Goto
<1>17. ASSUME NEW w \in Workers, Block(w) PROVE LocalInv'
  BY <1>17 DEF Block, Goto
<1>18. ASSUME NEW w \in Workers, SpuriousWakeup(w) PROVE LocalInv'
  BY <1>18 DEF SpuriousWakeup, Goto
<1>19. ASSUME NEW w \in Workers, ResetWake(w) PROVE LocalInv'
  BY <1>19 DEF ResetWake, Goto
<1>20. ASSUME Initialize PROVE LocalInv'
  BY <1>20 DEF Initialize, Goto
<1>21. ASSUME NEW w \in Workers, StartWorker(w) PROVE LocalInv'
  BY <1>21 DEF StartWorker, ListSafe, SpawnSafe
<1>22. ASSUME NEW w \in Workers, PushWorker(w) PROVE LocalInv'
  BY <1>22 DEF PushWorker, Goto
<1>23. ASSUME SpawnDone PROVE LocalInv'
  BY <1>23 DEF SpawnDone, Goto
<1>24. ASSUME Shutdown PROVE LocalInv'
  BY <1>24 DEF Shutdown, Goto
<1>25. ASSUME NEW w \in Workers, SetQuitting(w) PROVE LocalInv'
  BY <1>25 DEF SetQuitting
<1>26. ASSUME QuitDone PROVE LocalInv'
  BY <1>26 DEF QuitDone, Goto
<1>27. ASSUME WakeDone PROVE LocalInv'
  BY <1>27 DEF WakeDone, Goto
<1>28. ASSUME NEW w \in Workers, JoinWorker(w) PROVE LocalInv'
  BY <1>28 DEF JoinWorker
<1>29. ASSUME JoinDone PROVE LocalInv'
  BY <1>29 DEF JoinDone, Goto
<1>30. ASSUME NEW w \in Workers, ReapWorker(w) PROVE LocalInv'
  BY <1>30 DEF ReapWorker, Goto, ListSafe, ReapSafe
<1>31. ASSUME ReapDone PROVE LocalInv'
  BY <1>31 DEF ReapDone, Goto
<1>32. CASE UNCHANGED vars
  BY <1>32 DEF vars
<1> QED
  BY <1>1, <1>2, <1>3, <1>4, <1>5, <1>6, <1>7, <1>8, <1>9, <1>10, <1>11, <1>12,
       <1>13, <1>14, <1>15, <1>16, <1>17, <1>18, <1>19, <1>20, <1>21, <1>22,
       <1>23, <1>24, <1>25, <1>26, <1>27, <1>28, <1>29, <1>30, <1>31, <1>32 DEF
       Next, CallStep, WorkerStep, OwnerStep, Application

(* No step breaks LoopInv: each loop passes one element of the list.      *)
LEMMA LoopStep == EngineInv /\ LoopInv /\ [Next]_vars => LoopInv'
<1> SUFFICES ASSUME EngineInv, LoopInv, [Next]_vars PROVE LoopInv'
  OBVIOUS
<1> USE Constants DEF EngineInv, TypeOK, ControlOK, OwnerPCs, WorkerPCs,
      queues, flags, work, owner, LoopInv, ListSafe, SpawnSafe, ReapSafe,
      InJob, InSubmit
<1>1. ASSUME NEW a \in Actors, NEW j \in Jobs, AddQueue(a, j) PROVE LoopInv'
  BY <1>1 DEF AddQueue, Goto
<1>2. ASSUME NEW a \in Actors, Submit(a) PROVE LoopInv'
  BY <1>2 DEF Submit, Goto
<1>3. ASSUME NEW a \in Actors, SubmitLock(a) PROVE LoopInv'
  BY <1>3 DEF SubmitLock, Goto
<1>4. ASSUME NEW a \in Actors, MoveJob(a) PROVE LoopInv'
  BY <1>4 DEF MoveJob, Goto
<1>5. ASSUME NEW a \in Actors, SubmitUnlock(a) PROVE LoopInv'
  BY <1>5 DEF SubmitUnlock, Goto
<1>6. ASSUME NEW a \in Actors, NEW w \in Workers, WakeSet(a, w) PROVE LoopInv'
  BY <1>6 DEF WakeSet, Goto
<1>7. ASSUME NEW a \in Actors, NEW w \in Workers, WakeNotify(a, w) PROVE LoopInv'
  BY <1>7 DEF WakeNotify, Goto
<1>8. ASSUME NEW a \in Actors, SubmitReturn(a) PROVE LoopInv'
  BY <1>8 DEF SubmitReturn, Goto
<1>9. ASSUME NEW w \in Workers, EnterLoop(w) PROVE LoopInv'
  BY <1>9 DEF EnterLoop, Goto
<1>10. ASSUME NEW w \in Workers, LeaveLoop(w) PROVE LoopInv'
  BY <1>10 DEF LeaveLoop, Goto
<1>11. ASSUME NEW w \in Workers, LockQueue(w) PROVE LoopInv'
  BY <1>11 DEF LockQueue, Goto
<1>12. ASSUME NEW w \in Workers, FindJob(w) PROVE LoopInv'
  BY <1>12 DEF FindJob, Goto
<1>13. ASSUME NEW w \in Workers, FindNoJob(w) PROVE LoopInv'
  BY <1>13 DEF FindNoJob, Goto
<1>14. ASSUME NEW w \in Workers, PopJob(w) PROVE LoopInv'
  BY <1>14 DEF PopJob, Goto
<1>15. ASSUME NEW w \in Workers, FinishJob(w) PROVE LoopInv'
  BY <1>15 DEF FinishJob, Goto
<1>16. ASSUME NEW w \in Workers, TestWake(w) PROVE LoopInv'
  BY <1>16 DEF TestWake, Goto
<1>17. ASSUME NEW w \in Workers, Block(w) PROVE LoopInv'
  BY <1>17 DEF Block, Goto
<1>18. ASSUME NEW w \in Workers, SpuriousWakeup(w) PROVE LoopInv'
  BY <1>18 DEF SpuriousWakeup, Goto
<1>19. ASSUME NEW w \in Workers, ResetWake(w) PROVE LoopInv'
  BY <1>19 DEF ResetWake, Goto
<1>20. ASSUME Initialize PROVE LoopInv'
  BY <1>20 DEF Initialize, Goto
<1>21. ASSUME NEW w \in Workers, StartWorker(w) PROVE LoopInv'
  BY <1>21 DEF StartWorker, Goto
<1>22. ASSUME NEW w \in Workers, PushWorker(w) PROVE LoopInv'
  BY <1>22 DEF PushWorker, Goto
<1>23. ASSUME SpawnDone PROVE LoopInv'
  BY <1>23 DEF SpawnDone, Goto
<1>24. ASSUME Shutdown PROVE LoopInv'
  BY <1>24 DEF Shutdown, Goto
<1>25. ASSUME NEW w \in Workers, SetQuitting(w) PROVE LoopInv'
  BY <1>25 DEF SetQuitting, Goto
<1>26. ASSUME QuitDone PROVE LoopInv'
  BY <1>26 DEF QuitDone, Goto
<1>27. ASSUME WakeDone PROVE LoopInv'
  BY <1>27 DEF WakeDone, Goto
<1>28. ASSUME NEW w \in Workers, JoinWorker(w) PROVE LoopInv'
  BY <1>28 DEF JoinWorker, Goto
<1>29. ASSUME JoinDone PROVE LoopInv'
  BY <1>29 DEF JoinDone, Goto
<1>30. ASSUME NEW w \in Workers, ReapWorker(w) PROVE LoopInv'
  BY <1>30 DEF ReapWorker, Goto
<1>31. ASSUME ReapDone PROVE LoopInv'
  BY <1>31 DEF ReapDone, Goto
<1>32. CASE UNCHANGED vars
  BY <1>32 DEF vars
<1> QED
  BY <1>1, <1>2, <1>3, <1>4, <1>5, <1>6, <1>7, <1>8, <1>9, <1>10, <1>11, <1>12,
       <1>13, <1>14, <1>15, <1>16, <1>17, <1>18, <1>19, <1>20, <1>21, <1>22,
       <1>23, <1>24, <1>25, <1>26, <1>27, <1>28, <1>29, <1>30, <1>31, <1>32 DEF
       Next, CallStep, WorkerStep, OwnerStep, Application

(* A handler that was just constructed satisfies both. *)
LEMMA RefinementInit == Init => RefinementInv
BY Constants DEF Init, RefinementInv, LocalInv, LoopInv, InJob, InSubmit

-----------------------------------------------------------------------------
(* JobConservation without counting or indices: a job is at most once in a *)
(* queue, in one queue, or in the hands of one worker ...                  *)
Distinct(s) == \A i, k \in DOMAIN s : s[i] = s[k] => i = k

NoJobTwice ==
    /\ Distinct(funcs)
    /\ \A a \in Actors : Distinct(threadQueue[a])
    /\ \A a \in Actors : \A j \in Elems(threadQueue[a]) :
          /\ j \notin Elems(funcs)
          /\ \A b \in Actors : j \in Elems(threadQueue[b]) => a = b
          /\ \A w \in Workers : func[w] # j
    /\ \A w \in Workers : func[w] \notin Elems(funcs)
    /\ \A v, w \in Workers : func[v] = func[w] => v = w \/ func[v] = NoJob

(* ... and the live jobs are those that are in one of these places. *)
Held(j) ==
    \/ j \in Elems(funcs)
    \/ \E a \in Actors : j \in Elems(threadQueue[a])
    \/ \E w \in Workers : func[w] = j

LiveIsHeld == \A j \in Jobs : phase[j] = "live" <=> Held(j)

PlaceInv == NoJobTwice /\ LiveIsHeld

(* Adding an element at the end of a queue. *)
LEMMA AppendElems ==
    ASSUME NEW S, NEW s \in Seq(S), NEW x \in S
    PROVE  /\ Elems(Append(s, x)) = Elems(s) \cup {x}
           /\ Distinct(s) /\ x \notin Elems(s) => Distinct(Append(s, x))
<1>1. /\ DOMAIN Append(s, x) = 1 .. Len(s) + 1
      /\ DOMAIN s = 1 .. Len(s)
      /\ Len(s) \in Nat
      /\ Append(s, x)[Len(s) + 1] = x
      /\ \A i \in 1 .. Len(s) : Append(s, x)[i] = s[i]
  OBVIOUS
<1>2. Elems(Append(s, x)) = Elems(s) \cup {x}
  <2>1. ASSUME NEW y \in Elems(Append(s, x)) PROVE y \in Elems(s) \cup {x}
    BY <1>1 DEF Elems
  <2>2. ASSUME NEW y \in Elems(s) PROVE y \in Elems(Append(s, x))
    BY <1>1 DEF Elems
  <2>3. x \in Elems(Append(s, x))
    BY <1>1 DEF Elems
  <2> QED BY <2>1, <2>2, <2>3
<1>3. Distinct(s) /\ x \notin Elems(s) => Distinct(Append(s, x))
  BY <1>1 DEF Distinct, Elems
<1> QED BY <1>2, <1>3

(* Taking the first element off a queue. *)
LEMMA TailElems ==
    ASSUME NEW S, NEW s \in Seq(S), s # <<>>
    PROVE  /\ Elems(s) = Elems(Tail(s)) \cup {Head(s)}
           /\ Distinct(s) => Distinct(Tail(s)) /\ Head(s) \notin Elems(Tail(s))
<1>1. /\ DOMAIN Tail(s) = 1 .. Len(s) - 1
      /\ DOMAIN s = 1 .. Len(s)
      /\ Len(s) \in Nat \ {0}
      /\ Head(s) = s[1]
      /\ \A i \in 1 .. Len(s) - 1 : Tail(s)[i] = s[i + 1]
  OBVIOUS
<1>2. Elems(s) = Elems(Tail(s)) \cup {Head(s)}
  <2>1. ASSUME NEW y \in Elems(Tail(s)) PROVE y \in Elems(s)
    BY <1>1 DEF Elems
  <2>2. ASSUME NEW y \in Elems(s) PROVE y \in Elems(Tail(s)) \cup {Head(s)}
    <3>1. PICK i \in 1 .. Len(s) : y = s[i]
      BY <1>1 DEF Elems
    <3>2. CASE i = 1
      BY <1>1, <3>1, <3>2
    <3>3. CASE i # 1
      <4>1. i - 1 \in DOMAIN Tail(s) /\ Tail(s)[i - 1] = y
        BY <1>1, <3>1, <3>3
      <4> QED BY <4>1 DEF Elems
    <3> QED BY <3>2, <3>3
  <2>3. Head(s) \in Elems(s)
    BY <1>1 DEF Elems
  <2> QED BY <2>1, <2>2, <2>3
<1>3. Distinct(s) => Distinct(Tail(s)) /\ Head(s) \notin Elems(Tail(s))
  BY <1>1 DEF Distinct, Elems
<1> QED BY <1>2, <1>3

(* An empty queue holds nothing. *)
LEMMA EmptyElems == Elems(<<>>) = {} /\ Distinct(<<>>)
BY DEF Elems, Distinct

(* The elements of a queue of S are in S. *)
LEMMA ElemsType == \A S : \A s \in Seq(S) : Elems(s) \subseteq S
BY DEF Elems

(* A step that leaves all places and phases alone. *)
LEMMA JobsUntouched ==
    ASSUME PlaceInv, UNCHANGED <<funcs, threadQueue, func, phase>>
    PROVE  PlaceInv'
BY DEF PlaceInv, NoJobTwice, LiveIsHeld, Held

(* Six actions move, bind, finish or discard a job; the others touch none. *)
LEMMA PlaceStep == EngineInv /\ LocalInv /\ PlaceInv /\ [Next]_vars => PlaceInv'
<1> SUFFICES ASSUME EngineInv, LocalInv, PlaceInv, [Next]_vars PROVE PlaceInv'
  OBVIOUS
<1> USE Constants DEF PlaceInv, queues, flags, work, owner
<1>t. TypeOK
  BY DEF EngineInv
<1>1. ASSUME NEW a \in Actors, NEW j \in Jobs, AddQueue(a, j) PROVE PlaceInv'
  <2>1. /\ pc[a] = "app" /\ phase[j] = "fresh" /\ phase \in [Jobs -> Phases]
        /\ threadQueue \in [Actors -> Seq(Jobs)]
        /\ threadQueue' = [threadQueue EXCEPT ![a] = Append(threadQueue[a], j)]
        /\ phase' = [phase EXCEPT ![j] = "live"]
        /\ funcs' = funcs /\ func' = func
    BY <1>1, <1>t DEF AddQueue, TypeOK
  <2>2. ~Held(j)
    BY <2>1 DEF LiveIsHeld
  <2>3. /\ Elems(threadQueue'[a]) = Elems(threadQueue[a]) \cup {j}
        /\ Distinct(threadQueue'[a])
    BY <2>1, <2>2, AppendElems DEF Held, NoJobTwice
  <2>4. \A b \in Actors \ {a} : threadQueue'[b] = threadQueue[b]
    BY <2>1
  <2>5. NoJobTwice'
    BY <2>1, <2>2, <2>3, <2>4 DEF NoJobTwice, Held
  <2>6. LiveIsHeld'
    <3>1. ASSUME NEW k \in Jobs PROVE Held(k)' <=> k = j \/ Held(k)
      BY <2>1, <2>3, <2>4 DEF Held
    <3> QED BY <2>1, <2>2, <3>1 DEF LiveIsHeld
  <2> QED BY <2>5, <2>6
<1>2. ASSUME NEW a \in Actors, Submit(a) PROVE PlaceInv'
  BY <1>2, JobsUntouched DEF Submit
<1>3. ASSUME NEW a \in Actors, SubmitLock(a) PROVE PlaceInv'
  BY <1>3, JobsUntouched DEF SubmitLock
<1>4. ASSUME NEW a \in Actors, MoveJob(a) PROVE PlaceInv'
  <2> DEFINE j == Head(threadQueue[a])
  <2>1. /\ threadQueue[a] # <<>> /\ threadQueue[a] \in Seq(Jobs)
        /\ funcs \in Seq(Jobs)
        /\ threadQueue \in [Actors -> Seq(Jobs)]
        /\ threadQueue' = [threadQueue EXCEPT ![a] = Tail(threadQueue[a])]
        /\ funcs' = Append(funcs, j)
        /\ phase' = phase /\ func' = func
    BY <1>4, <1>t DEF MoveJob, TypeOK
  <2>2. j \in Jobs
    BY <2>1
  <2>3. /\ Elems(threadQueue[a]) = Elems(threadQueue'[a]) \cup {j}
        /\ Distinct(threadQueue'[a])
        /\ j \notin Elems(threadQueue'[a])
    BY <2>1, TailElems DEF NoJobTwice
  <2>4. /\ Elems(funcs') = Elems(funcs) \cup {j}
        /\ Distinct(funcs')
    BY <2>1, <2>2, <2>3, AppendElems DEF NoJobTwice
  <2>5. \A b \in Actors \ {a} : threadQueue'[b] = threadQueue[b]
    BY <2>1
  <2> HIDE DEF j
  <2>6. NoJobTwice'
    BY <2>1, <2>3, <2>4, <2>5 DEF NoJobTwice
  <2>7. LiveIsHeld'
    BY <2>1, <2>3, <2>4, <2>5 DEF LiveIsHeld, Held
  <2> QED BY <2>6, <2>7
<1>5. ASSUME NEW a \in Actors, SubmitUnlock(a) PROVE PlaceInv'
  BY <1>5, JobsUntouched DEF SubmitUnlock
<1>6. ASSUME NEW a \in Actors, NEW w \in Workers, WakeSet(a, w) PROVE PlaceInv'
  BY <1>6, JobsUntouched DEF WakeSet
<1>7. ASSUME NEW a \in Actors, NEW w \in Workers, WakeNotify(a, w) PROVE PlaceInv'
  BY <1>7, JobsUntouched DEF WakeNotify
<1>8. ASSUME NEW a \in Actors, SubmitReturn(a) PROVE PlaceInv'
  BY <1>8, JobsUntouched DEF SubmitReturn
<1>9. ASSUME NEW w \in Workers, EnterLoop(w) PROVE PlaceInv'
  BY <1>9, JobsUntouched DEF EnterLoop
<1>10. ASSUME NEW w \in Workers, LeaveLoop(w) PROVE PlaceInv'
  <2>1. /\ threadQueue \in [Actors -> Seq(Jobs)]
        /\ threadQueue' = [threadQueue EXCEPT ![w] = <<>>]
        /\ phase' = [j \in Jobs |-> IF j \in Elems(threadQueue[w])
                                     THEN "discarded" ELSE phase[j]]
        /\ funcs' = funcs /\ func' = func
    BY <1>10, <1>t DEF LeaveLoop, TypeOK, Discard
  <2>2. Elems(threadQueue'[w]) = {} /\ Distinct(threadQueue'[w])
    BY <2>1, EmptyElems
  <2>3. \A b \in Actors \ {w} : threadQueue'[b] = threadQueue[b]
    BY <2>1
  <2>4. NoJobTwice'
    BY <2>1, <2>2, <2>3 DEF NoJobTwice
  <2>5. LiveIsHeld'
    BY <2>1, <2>2, <2>3 DEF LiveIsHeld, Held, NoJobTwice
  <2> QED BY <2>4, <2>5
<1>11. ASSUME NEW w \in Workers, LockQueue(w) PROVE PlaceInv'
  BY <1>11, JobsUntouched DEF LockQueue
<1>12. ASSUME NEW w \in Workers, FindJob(w) PROVE PlaceInv'
  BY <1>12, JobsUntouched DEF FindJob
<1>13. ASSUME NEW w \in Workers, FindNoJob(w) PROVE PlaceInv'
  BY <1>13, JobsUntouched DEF FindNoJob
<1>14. ASSUME NEW w \in Workers, PopJob(w) PROVE PlaceInv'
  <2> DEFINE j == Head(funcs)
  <2>1. /\ funcs # <<>> /\ funcs \in Seq(Jobs) /\ func[w] = NoJob
        /\ func \in [Workers -> Jobs \cup {NoJob}]
        /\ funcs' = Tail(funcs)
        /\ func' = [func EXCEPT ![w] = j]
        /\ phase' = phase /\ threadQueue' = threadQueue
    BY <1>14, <1>t DEF PopJob, TypeOK, EngineInv, ControlOK, LocalInv, InJob,
         InSubmit
  <2>2. /\ Elems(funcs) = Elems(funcs') \cup {j}
        /\ Distinct(funcs')
        /\ j \notin Elems(funcs')
    BY <2>1, TailElems DEF NoJobTwice
  <2>3. j # NoJob /\ func'[w] = j /\ \A v \in Workers \ {w} : func'[v] = func[v]
    BY <2>1, JobsAssumption
  <2> HIDE DEF j
  <2>4. j \in Elems(funcs) /\ Elems(funcs') \subseteq Elems(funcs)
    BY <2>2
  <2>5. \A v, u \in Workers : func'[v] = func'[u] => v = u \/ func'[v] = NoJob
    BY <2>3, <2>4 DEF NoJobTwice
  <2>6. /\ \A v \in Workers : func'[v] \notin Elems(funcs')
        /\ \A a \in Actors : \A k \in Elems(threadQueue[a]) :
              k \notin Elems(funcs') /\ \A v \in Workers : func'[v] # k
    BY <2>2, <2>3, <2>4 DEF NoJobTwice
  <2>7. NoJobTwice'
    BY <2>1, <2>2, <2>5, <2>6 DEF NoJobTwice
  <2>8. LiveIsHeld'
    BY <2>1, <2>2, <2>3, JobsAssumption DEF LiveIsHeld, Held
  <2> QED BY <2>7, <2>8
<1>15. ASSUME NEW w \in Workers, FinishJob(w) PROVE PlaceInv'
  <2>1. /\ func[w] \in Jobs /\ phase \in [Jobs -> Phases]
        /\ func \in [Workers -> Jobs \cup {NoJob}]
        /\ phase' = [phase EXCEPT ![func[w]] = "finished"]
        /\ func' = [func EXCEPT ![w] = NoJob]
        /\ funcs' = funcs /\ threadQueue' = threadQueue
    BY <1>15, <1>t DEF FinishJob, TypeOK, LocalInv, InJob
  <2>2. func'[w] = NoJob /\ \A v \in Workers \ {w} : func'[v] = func[v]
    BY <2>1
  <2>3. /\ NoJob \notin Elems(funcs)
        /\ \A a \in Actors : NoJob \notin Elems(threadQueue[a])
    BY <1>t, JobsAssumption, ElemsType DEF TypeOK
  <2>4. NoJobTwice'
    BY <2>1, <2>2, <2>3 DEF NoJobTwice
  <2>5. LiveIsHeld'
    BY <2>1, <2>2, <2>3, JobsAssumption DEF LiveIsHeld, Held, NoJobTwice
  <2> QED BY <2>4, <2>5
<1>16. ASSUME NEW w \in Workers, TestWake(w) PROVE PlaceInv'
  BY <1>16, JobsUntouched DEF TestWake
<1>17. ASSUME NEW w \in Workers, Block(w) PROVE PlaceInv'
  BY <1>17, JobsUntouched DEF Block
<1>18. ASSUME NEW w \in Workers, SpuriousWakeup(w) PROVE PlaceInv'
  BY <1>18, JobsUntouched DEF SpuriousWakeup
<1>19. ASSUME NEW w \in Workers, ResetWake(w) PROVE PlaceInv'
  BY <1>19, JobsUntouched DEF ResetWake
<1>20. ASSUME Initialize PROVE PlaceInv'
  <2>1. /\ funcs' = <<>>
        /\ phase' = [j \in Jobs |-> IF j \in Elems(funcs)
                                     THEN "discarded" ELSE phase[j]]
        /\ threadQueue' = threadQueue /\ func' = func
    BY <1>20 DEF Initialize, Discard
  <2>2. Elems(funcs') = {} /\ Distinct(funcs')
    BY <2>1, EmptyElems
  <2>3. NoJobTwice'
    BY <2>1, <2>2 DEF NoJobTwice
  <2>4. LiveIsHeld'
    BY <2>1, <2>2 DEF LiveIsHeld, Held, NoJobTwice
  <2> QED BY <2>3, <2>4
<1>21. ASSUME NEW w \in Workers, StartWorker(w) PROVE PlaceInv'
  BY <1>21, JobsUntouched DEF StartWorker
<1>22. ASSUME NEW w \in Workers, PushWorker(w) PROVE PlaceInv'
  BY <1>22, JobsUntouched DEF PushWorker
<1>23. ASSUME SpawnDone PROVE PlaceInv'
  BY <1>23, JobsUntouched DEF SpawnDone
<1>24. ASSUME Shutdown PROVE PlaceInv'
  BY <1>24, JobsUntouched DEF Shutdown
<1>25. ASSUME NEW w \in Workers, SetQuitting(w) PROVE PlaceInv'
  BY <1>25, JobsUntouched DEF SetQuitting
<1>26. ASSUME QuitDone PROVE PlaceInv'
  BY <1>26, JobsUntouched DEF QuitDone
<1>27. ASSUME WakeDone PROVE PlaceInv'
  BY <1>27, JobsUntouched DEF WakeDone
<1>28. ASSUME NEW w \in Workers, JoinWorker(w) PROVE PlaceInv'
  BY <1>28, JobsUntouched DEF JoinWorker
<1>29. ASSUME JoinDone PROVE PlaceInv'
  BY <1>29, JobsUntouched DEF JoinDone
<1>30. ASSUME NEW w \in Workers, ReapWorker(w) PROVE PlaceInv'
  BY <1>30, JobsUntouched DEF ReapWorker
<1>31. ASSUME ReapDone PROVE PlaceInv'
  BY <1>31, JobsUntouched DEF ReapDone
<1>32. CASE UNCHANGED vars
  BY <1>32, JobsUntouched DEF vars
<1> QED
  BY <1>1, <1>2, <1>3, <1>4, <1>5, <1>6, <1>7, <1>8, <1>9, <1>10, <1>11, <1>12,
       <1>13, <1>14, <1>15, <1>16, <1>17, <1>18, <1>19, <1>20, <1>21, <1>22,
       <1>23, <1>24, <1>25, <1>26, <1>27, <1>28, <1>29, <1>30, <1>31, <1>32 DEF
       Next, CallStep, WorkerStep, OwnerStep, Application

(* At the start no job is anywhere. *)
LEMMA PlaceInit == Init => PlaceInv
BY EmptyElems, JobsAssumption DEF Init, PlaceInv, NoJobTwice, LiveIsHeld, Held

(* The places of j, one by one. *)
LEMMA PlacesMember ==
    \A j, p : p \in Places(j) <=>
        \/ \E i \in DOMAIN funcs : funcs[i] = j /\ p = <<Nobody, i>>
        \/ \E a \in Actors : \E i \in DOMAIN threadQueue[a] :
              threadQueue[a][i] = j /\ p = <<a, i>>
        \/ \E w \in Workers : func[w] = j /\ p = <<w, 0>>
<1> TAKE j, p
<1> DEFINE Slots(a) == {<<a, i>> : i \in {k \in DOMAIN threadQueue[a] : threadQueue[a][k] = j}}
           InFuncs == {<<Nobody, i>> : i \in {k \in DOMAIN funcs : funcs[k] = j}}
           InLocals == UNION {Slots(a) : a \in Actors}
           InHands == {<<w, 0>> : w \in {v \in Workers : func[v] = j}}
<1>1. p \in InFuncs <=> \E i \in DOMAIN funcs : funcs[i] = j /\ p = <<Nobody, i>>
  OBVIOUS
<1>2. \A a : p \in Slots(a) <=> \E i \in DOMAIN threadQueue[a] :
                                  threadQueue[a][i] = j /\ p = <<a, i>>
  OBVIOUS
<1>3. p \in InHands <=> \E w \in Workers : func[w] = j /\ p = <<w, 0>>
  OBVIOUS
<1>4. p \in InLocals <=> \E a \in Actors : p \in Slots(a)
  <2> HIDE DEF Slots
  <2> QED OBVIOUS
<1>5. Places(j) = InFuncs \cup InLocals \cup InHands
  BY DEF Places
<1> HIDE DEF Slots, InFuncs, InLocals, InHands
<1> QED BY <1>1, <1>2, <1>3, <1>4, <1>5

(* Counting: a job that is in no place has none, one that is nowhere twice *)
(* has one.                                                                *)
LEMMA CountPlaces == PlaceInv => JobConservation
<1> SUFFICES ASSUME NoJobTwice, LiveIsHeld, NEW j \in Jobs
             PROVE  Cardinality(Places(j)) = IF phase[j] = "live" THEN 1 ELSE 0
  BY DEF JobConservation, PlaceInv
<1>j. j # NoJob /\ Nobody \notin Actors /\ Workers \subseteq Actors
  BY JobsAssumption, Constants
<1>1. CASE phase[j] # "live"
  <2>1. ~Held(j)
    BY <1>1 DEF LiveIsHeld
  <2>2. Places(j) = {}
    BY <2>1 DEF Places, Held, Elems
  <2> QED BY <1>1, <2>2, FS_EmptySet
<1>2. CASE phase[j] = "live"
  <2>1. Held(j)
    BY <1>2 DEF LiveIsHeld
  <2>2. \E p : Places(j) = {p}
    <3>1. CASE j \in Elems(funcs)
      <4>1. PICK i \in DOMAIN funcs : funcs[i] = j
        BY <3>1 DEF Elems
      <4>2. Places(j) = {<<Nobody, i>>}
        BY <3>1, <4>1 DEF Places, Elems, NoJobTwice, Distinct
      <4> QED BY <4>2
    <3>2. ASSUME NEW a \in Actors, j \in Elems(threadQueue[a])
          PROVE  \E p : Places(j) = {p}
      <4>1. PICK i \in DOMAIN threadQueue[a] : threadQueue[a][i] = j
        BY <3>2 DEF Elems
      <4>2. {k \in DOMAIN funcs : funcs[k] = j} = {}
        BY <3>2 DEF Elems, NoJobTwice
      <4>3. \A b \in Actors : {k \in DOMAIN threadQueue[b] : threadQueue[b][k] = j}
                              = IF b = a THEN {i} ELSE {}
        BY <3>2, <4>1 DEF Elems, NoJobTwice, Distinct
      <4>4. {v \in Workers : func[v] = j} = {}
        BY <3>2 DEF NoJobTwice
      <4>5. Places(j) = {<<a, i>>}
        BY <3>2, <4>1, <4>2, <4>3, <4>4, PlacesMember
      <4> QED BY <4>5
    <3>3. ASSUME NEW w \in Workers, func[w] = j
          PROVE  \E p : Places(j) = {p}
      <4>1. {k \in DOMAIN funcs : funcs[k] = j} = {}
        BY <3>3 DEF Elems, NoJobTwice
      <4>2. \A b \in Actors : {k \in DOMAIN threadQueue[b] : threadQueue[b][k] = j} = {}
        BY <3>3 DEF Elems, NoJobTwice
      <4>3. {v \in Workers : func[v] = j} = {w}
        BY <1>j, <3>3 DEF NoJobTwice
      <4>4. Places(j) = {<<w, 0>>}
        BY <3>3, <4>1, <4>2, <4>3, PlacesMember
      <4> QED BY <4>4
    <3> QED BY <2>1, <3>1, <3>2, <3>3 DEF Held
  <2> QED BY <1>2, <2>2, FS_Singleton
<1> QED BY <1>1, <1>2

(* A job that was bound and neither finished nor discarded is in exactly   *)
(* one place, any other job in none: no job runs twice and none vanishes   *)
(* (ThreadEngine.cpp:70, 136-172 and 227-263).                             *)
THEOREM JobConserved == Spec => []JobConservation
<1> DEFINE Inv == EngineInv /\ LocalInv /\ PlaceInv
<1>1. Init => Inv
  BY EngineInit, RefinementInit, PlaceInit DEF RefinementInv
<1>2. Inv /\ [Next]_vars => Inv'
  BY EngineStep, LocalStep, PlaceStep
<1>3. Inv => JobConservation
  BY CountPlaces
<1> QED
  BY <1>1, <1>2, <1>3, PTL DEF Spec

-----------------------------------------------------------------------------
(* The shared queue of the pool, with nobody moving jobs ...               *)
LEMMA QueueIdle == Moving = {} => PoolQueue = funcs
BY DEF PoolQueue

(* ... with one thread inside Submit's loop ... *)
LEMMA QueueMoving == \A a : Moving = {a} => PoolQueue = funcs \o threadQueue[a]
<1> SUFFICES ASSUME NEW a, Moving = {a} PROVE PoolQueue = funcs \o threadQueue[a]
  OBVIOUS
<1>1. (CHOOSE x \in Moving : TRUE) = a
  OBVIOUS
<1> QED BY <1>1 DEF PoolQueue

(* ... and the same after a step. *)
LEMMA QueueMovingNext ==
    \A a : Moving' = {a} => PoolQueue' = funcs' \o threadQueue'[a]
<1> SUFFICES ASSUME NEW a, Moving' = {a}
             PROVE  PoolQueue' = funcs' \o threadQueue'[a]
  OBVIOUS
<1>1. (CHOOSE x \in Moving' : TRUE) = a
  OBVIOUS
<1> QED BY <1>1 DEF PoolQueue

(* queueLock lets one thread at a time move its jobs. *)
LEMMA OneMoves == LockDiscipline => \A a \in Actors : pc[a] = "move" => Moving = {a}
BY DEF LockDiscipline, Moving

(* Moving the oldest job of a queue keeps the order of all of them. *)
LEMMA MoveKeepsOrder ==
    ASSUME NEW f \in Seq(Jobs), NEW q \in Seq(Jobs), q # <<>>
    PROVE  Append(f, Head(q)) \o Tail(q) = f \o q
OBVIOUS

(* A step that leaves the jobs, the movers and the opening alone is a      *)
(* stuttering step of the pool.                                            *)
LEMMA PoolStutters ==
    ASSUME funcs' = funcs, threadQueue' = threadQueue, Moving' = Moving,
           func' = func, phase' = phase, PoolOpen' = PoolOpen
    PROVE  UNCHANGED Pool!vars
<1>1. PoolQueue' = PoolQueue
  BY DEF PoolQueue
<1>2. PoolLocal' = PoolLocal
  BY DEF PoolLocal
<1> QED BY <1>1, <1>2 DEF Pool!vars

(* Submit takes effect at its lock, the other jobs' steps where they       *)
(* happen; Initialize opens the pool, JoinThreads closes it once its last  *)
(* join is over; every other step leaves it alone.                         *)
LEMMA RefinementStep ==
    EngineInv /\ RefinementInv /\ [Next]_vars => [Pool!Next]_(Pool!vars)
<1> SUFFICES ASSUME EngineInv, RefinementInv, [Next]_vars
             PROVE  [Pool!Next]_(Pool!vars)
  OBVIOUS
<1> USE Constants DEF EngineInv, TypeOK, ControlOK, OwnerPCs, WorkerPCs,
      RefinementInv, queues, flags, work, owner
<1>1. ASSUME NEW a \in Actors, NEW j \in Jobs, AddQueue(a, j) PROVE [Pool!Next]_(Pool!vars)
  <2>1. Moving' = Moving /\ a \notin Moving /\ PoolOpen' = PoolOpen
    BY <1>1 DEF AddQueue, Moving, PoolOpen
  <2>2. PoolQueue' = PoolQueue
    <3>1. CASE Moving = {}
      BY <1>1, <2>1, <3>1 DEF AddQueue, PoolQueue
    <3>2. ASSUME NEW b \in Moving PROVE PoolQueue' = PoolQueue
      <4>1. Moving = {b} /\ Moving' = {b} /\ b \in Actors
        BY <2>1, OneMoves DEF Moving
      <4>2. PoolQueue = funcs \o threadQueue[b] /\ PoolQueue' = funcs' \o threadQueue'[b]
        BY <4>1, QueueMoving, QueueMovingNext
      <4>3. threadQueue'[b] = threadQueue[b]
        BY <1>1, <2>1, <4>1 DEF AddQueue
      <4> QED BY <1>1, <4>2, <4>3 DEF AddQueue
    <3> QED BY <3>1, <3>2
  <2>3. PoolLocal' = [PoolLocal EXCEPT ![a] = Append(@, j)]
    BY <1>1, <2>1 DEF AddQueue, PoolLocal
  <2>4. Pool!InApplication(a)
    BY <1>1 DEF AddQueue, Pool!InApplication, LocalInv, InJob
  <2>5. Pool!Bind(a, j)
    BY <1>1, <2>1, <2>2, <2>3, <2>4 DEF AddQueue, Pool!Bind
  <2> QED BY <2>5 DEF Pool!Next
<1>2. ASSUME NEW a \in Actors, Submit(a) PROVE [Pool!Next]_(Pool!vars)
  <2>1. Moving' = Moving
    BY <1>2 DEF Submit, Goto, Moving
  <2>2. PoolOpen' = PoolOpen
    BY <1>2 DEF Submit, Goto, PoolOpen
  <2> QED BY <1>2, <2>1, <2>2, PoolStutters DEF Submit
<1>3. ASSUME NEW a \in Actors, SubmitLock(a) PROVE [Pool!Next]_(Pool!vars)
  <2>1. Moving = {} /\ Moving' = {a}
    BY <1>3 DEF SubmitLock, Goto, Moving, LockDiscipline
  <2>2. PoolQueue = funcs /\ PoolQueue' = funcs' \o threadQueue'[a]
    BY <2>1, QueueIdle, QueueMovingNext
  <2>3. PoolLocal[a] = threadQueue[a] /\ PoolLocal' = [PoolLocal EXCEPT ![a] = <<>>]
    BY <1>3, <2>1 DEF SubmitLock, PoolLocal
  <2>4. Pool!InApplication(a)
    BY <1>3 DEF SubmitLock, Pool!InApplication, LocalInv, InJob, InSubmit
  <2>5. PoolOpen' = PoolOpen
    BY <1>3 DEF SubmitLock, Goto, PoolOpen
  <2>6. Pool!Submit(a)
    BY <1>3, <2>2, <2>3, <2>4, <2>5 DEF SubmitLock, Pool!Submit
  <2> QED BY <2>6 DEF Pool!Next
<1>4. ASSUME NEW a \in Actors, MoveJob(a) PROVE [Pool!Next]_(Pool!vars)
  <2>1. Moving = {a} /\ Moving' = {a} /\ PoolOpen' = PoolOpen
    BY <1>4, OneMoves DEF MoveJob, Moving, PoolOpen
  <2>2. PoolQueue = funcs \o threadQueue[a] /\ PoolQueue' = funcs' \o threadQueue'[a]
    BY <2>1, QueueMoving, QueueMovingNext
  <2>3. PoolQueue' = PoolQueue
    BY <1>4, <2>2, MoveKeepsOrder DEF MoveJob
  <2>4. PoolLocal' = PoolLocal
    BY <1>4, <2>1 DEF MoveJob, PoolLocal
  <2> QED BY <1>4, <2>1, <2>3, <2>4 DEF MoveJob, Pool!vars
<1>5. ASSUME NEW a \in Actors, SubmitUnlock(a) PROVE [Pool!Next]_(Pool!vars)
  <2>1. Moving = {a} /\ Moving' = {} /\ PoolOpen' = PoolOpen
    BY <1>5, OneMoves DEF SubmitUnlock, Goto, Moving, PoolOpen
  <2>2. PoolQueue = funcs \o <<>> /\ PoolQueue' = funcs'
    BY <1>5, <2>1, QueueMoving DEF SubmitUnlock, PoolQueue
  <2>3. PoolQueue' = PoolQueue
    BY <1>5, <2>2 DEF SubmitUnlock
  <2>4. PoolLocal' = PoolLocal
    BY <1>5, <2>1 DEF SubmitUnlock, PoolLocal
  <2> QED BY <1>5, <2>1, <2>3, <2>4 DEF SubmitUnlock, Pool!vars
<1>6. ASSUME NEW a \in Actors, NEW w \in Workers, WakeSet(a, w) PROVE [Pool!Next]_(Pool!vars)
  <2>1. Moving' = Moving
    BY <1>6 DEF WakeSet, Goto, Moving
  <2>2. PoolOpen' = PoolOpen
    BY <1>6 DEF WakeSet, Goto, PoolOpen
  <2> QED BY <1>6, <2>1, <2>2, PoolStutters DEF WakeSet
<1>7. ASSUME NEW a \in Actors, NEW w \in Workers, WakeNotify(a, w) PROVE [Pool!Next]_(Pool!vars)
  <2>1. Moving' = Moving
    BY <1>7 DEF WakeNotify, Goto, Moving
  <2>2. PoolOpen' = PoolOpen
    BY <1>7 DEF WakeNotify, Goto, PoolOpen
  <2> QED BY <1>7, <2>1, <2>2, PoolStutters DEF WakeNotify
<1>8. ASSUME NEW a \in Actors, SubmitReturn(a) PROVE [Pool!Next]_(Pool!vars)
  <2>1. Moving' = Moving
    BY <1>8 DEF SubmitReturn, Goto, Moving
  <2>2. PoolOpen' = PoolOpen
    BY <1>8 DEF SubmitReturn, Goto, PoolOpen
  <2> QED BY <1>8, <2>1, <2>2, PoolStutters DEF SubmitReturn
<1>9. ASSUME NEW w \in Workers, EnterLoop(w) PROVE [Pool!Next]_(Pool!vars)
  <2>1. Moving' = Moving
    BY <1>9 DEF EnterLoop, Goto, Moving
  <2>2. PoolOpen' = PoolOpen
    BY <1>9 DEF EnterLoop, Goto, PoolOpen
  <2> QED BY <1>9, <2>1, <2>2, PoolStutters DEF EnterLoop
<1>10. ASSUME NEW w \in Workers, LeaveLoop(w) PROVE [Pool!Next]_(Pool!vars)
  <2>1. Moving' = Moving /\ w \notin Moving
    BY <1>10 DEF LeaveLoop, Goto, Moving
  <2>2. PoolQueue' = PoolQueue
    <3>1. CASE Moving = {}
      BY <1>10, <2>1, <3>1 DEF LeaveLoop, PoolQueue
    <3>2. ASSUME NEW b \in Moving PROVE PoolQueue' = PoolQueue
      <4>1. Moving = {b} /\ Moving' = {b} /\ b \in Actors
        BY <2>1, OneMoves DEF Moving
      <4>2. PoolQueue = funcs \o threadQueue[b] /\ PoolQueue' = funcs' \o threadQueue'[b]
        BY <4>1, QueueMoving, QueueMovingNext
      <4>3. threadQueue'[b] = threadQueue[b]
        BY <1>10, <2>1, <4>1 DEF LeaveLoop
      <4> QED BY <1>10, <4>2, <4>3 DEF LeaveLoop
    <3> QED BY <3>1, <3>2
  <2>3. /\ PoolLocal[w] = threadQueue[w]
        /\ PoolLocal' = [PoolLocal EXCEPT ![w] = <<>>]
    BY <1>10, <2>1 DEF LeaveLoop, PoolLocal
  <2>4. PoolOpen /\ PoolOpen' = PoolOpen
    BY <1>10 DEF LeaveLoop, Goto, PoolOpen, ListInv, ListSafe, ReapSafe
  <2>5. func[w] = NoJob
    BY <1>10 DEF LeaveLoop, LocalInv, InJob, InSubmit
  <2>6. Pool!Discard(Pool!Elems(PoolLocal[w]))
    BY <1>10, <2>3 DEF LeaveLoop, Discard, Elems, Pool!Discard, Pool!Elems
  <2>7. Pool!Exit(w)
    BY <1>10, <2>2, <2>3, <2>4, <2>5, <2>6 DEF LeaveLoop, Pool!Exit
  <2> QED BY <2>7 DEF Pool!Next
<1>11. ASSUME NEW w \in Workers, LockQueue(w) PROVE [Pool!Next]_(Pool!vars)
  <2>1. Moving' = Moving
    BY <1>11 DEF LockQueue, Goto, Moving
  <2>2. PoolOpen' = PoolOpen
    BY <1>11 DEF LockQueue, Goto, PoolOpen
  <2> QED BY <1>11, <2>1, <2>2, PoolStutters DEF LockQueue
<1>12. ASSUME NEW w \in Workers, FindJob(w) PROVE [Pool!Next]_(Pool!vars)
  <2>1. Moving' = Moving
    BY <1>12 DEF FindJob, Goto, Moving
  <2>2. PoolOpen' = PoolOpen
    BY <1>12 DEF FindJob, Goto, PoolOpen
  <2> QED BY <1>12, <2>1, <2>2, PoolStutters DEF FindJob
<1>13. ASSUME NEW w \in Workers, FindNoJob(w) PROVE [Pool!Next]_(Pool!vars)
  <2>1. Moving' = Moving
    BY <1>13 DEF FindNoJob, Goto, Moving
  <2>2. PoolOpen' = PoolOpen
    BY <1>13 DEF FindNoJob, Goto, PoolOpen
  <2> QED BY <1>13, <2>1, <2>2, PoolStutters DEF FindNoJob
<1>14. ASSUME NEW w \in Workers, PopJob(w) PROVE [Pool!Next]_(Pool!vars)
  <2>1. Moving = {} /\ Moving' = {}
    BY <1>14 DEF PopJob, Goto, Moving, LockDiscipline
  <2>2. PoolQueue = funcs /\ PoolQueue' = funcs'
    BY <2>1 DEF PoolQueue
  <2>3. PoolLocal' = PoolLocal
    BY <1>14, <2>1 DEF PopJob, PoolLocal
  <2>4. PoolOpen /\ PoolOpen' = PoolOpen
    BY <1>14 DEF PopJob, Goto, PoolOpen, ListInv, ListSafe, ReapSafe
  <2>5. func[w] = NoJob /\ funcs # <<>>
    BY <1>14 DEF PopJob, LocalInv, InJob, InSubmit
  <2>6. Pool!Take(w)
    BY <1>14, <2>2, <2>3, <2>4, <2>5 DEF PopJob, Pool!Take
  <2> QED BY <2>6 DEF Pool!Next
<1>15. ASSUME NEW w \in Workers, FinishJob(w) PROVE [Pool!Next]_(Pool!vars)
  <2>1. Moving' = Moving
    BY <1>15 DEF FinishJob, Goto, Moving
  <2>2. PoolQueue' = PoolQueue /\ PoolLocal' = PoolLocal
    BY <1>15, <2>1 DEF FinishJob, PoolQueue, PoolLocal
  <2>3. PoolOpen' = PoolOpen
    BY <1>15 DEF FinishJob, Goto, PoolOpen
  <2>4. func[w] # NoJob
    BY <1>15 DEF FinishJob, LocalInv, InJob
  <2>5. Pool!Finish(w)
    BY <1>15, <2>2, <2>3, <2>4 DEF FinishJob, Pool!Finish
  <2> QED BY <2>5 DEF Pool!Next
<1>16. ASSUME NEW w \in Workers, TestWake(w) PROVE [Pool!Next]_(Pool!vars)
  <2>1. Moving' = Moving
    BY <1>16 DEF TestWake, Goto, Moving
  <2>2. PoolOpen' = PoolOpen
    BY <1>16 DEF TestWake, Goto, PoolOpen
  <2> QED BY <1>16, <2>1, <2>2, PoolStutters DEF TestWake
<1>17. ASSUME NEW w \in Workers, Block(w) PROVE [Pool!Next]_(Pool!vars)
  <2>1. Moving' = Moving
    BY <1>17 DEF Block, Goto, Moving
  <2>2. PoolOpen' = PoolOpen
    BY <1>17 DEF Block, Goto, PoolOpen
  <2> QED BY <1>17, <2>1, <2>2, PoolStutters DEF Block
<1>18. ASSUME NEW w \in Workers, SpuriousWakeup(w) PROVE [Pool!Next]_(Pool!vars)
  <2>1. Moving' = Moving
    BY <1>18 DEF SpuriousWakeup, Goto, Moving
  <2>2. PoolOpen' = PoolOpen
    BY <1>18 DEF SpuriousWakeup, Goto, PoolOpen
  <2> QED BY <1>18, <2>1, <2>2, PoolStutters DEF SpuriousWakeup
<1>19. ASSUME NEW w \in Workers, ResetWake(w) PROVE [Pool!Next]_(Pool!vars)
  <2>1. Moving' = Moving
    BY <1>19 DEF ResetWake, Goto, Moving
  <2>2. PoolOpen' = PoolOpen
    BY <1>19 DEF ResetWake, Goto, PoolOpen
  <2> QED BY <1>19, <2>1, <2>2, PoolStutters DEF ResetWake
<1>20. ASSUME Initialize PROVE [Pool!Next]_(Pool!vars)
  <2>1. Moving = {} /\ Moving' = {}
    BY <1>20 DEF Initialize, Goto, Moving, ListSafe, EmptySafe
  <2>2. PoolQueue = funcs /\ PoolQueue' = funcs'
    BY <2>1 DEF PoolQueue
  <2>3. PoolLocal' = PoolLocal
    BY <1>20, <2>1 DEF Initialize, PoolLocal
  <2>4. PoolOpen = FALSE /\ PoolOpen' = TRUE
    BY <1>20 DEF Initialize, Goto, PoolOpen
  <2>5. Pool!Discard(Pool!Elems(PoolQueue))
    BY <1>20, <2>2 DEF Initialize, Discard, Elems, Pool!Discard, Pool!Elems
  <2>6. Pool!Open
    BY <1>20, <2>2, <2>3, <2>4, <2>5 DEF Initialize, Pool!Open
  <2> QED BY <2>6 DEF Pool!Next
<1>21. ASSUME NEW w \in Workers, StartWorker(w) PROVE [Pool!Next]_(Pool!vars)
  <2>1. Moving' = Moving
    BY <1>21 DEF StartWorker, Goto, Moving, ListSafe, SpawnSafe, InJob, InSubmit
  <2>2. PoolOpen' = PoolOpen
    BY <1>21 DEF StartWorker, Goto, PoolOpen, ListSafe, SpawnSafe, InJob, InSubmit
  <2> QED BY <1>21, <2>1, <2>2, PoolStutters DEF StartWorker
<1>22. ASSUME NEW w \in Workers, PushWorker(w) PROVE [Pool!Next]_(Pool!vars)
  <2>1. Moving' = Moving
    BY <1>22 DEF PushWorker, Goto, Moving
  <2>2. PoolOpen' = PoolOpen
    BY <1>22 DEF PushWorker, Goto, PoolOpen
  <2> QED BY <1>22, <2>1, <2>2, PoolStutters DEF PushWorker
<1>23. ASSUME SpawnDone PROVE [Pool!Next]_(Pool!vars)
  <2>1. Moving' = Moving
    BY <1>23 DEF SpawnDone, Goto, Moving
  <2>2. 1 \in Workers
    BY ConcurrencyAssumption DEF Workers, SpawnCount
  <2>3. PoolOpen' = PoolOpen
    BY <1>23, <2>2 DEF SpawnDone, Goto, PoolOpen, LoopInv
  <2> QED BY <1>23, <2>1, <2>3, PoolStutters DEF SpawnDone
<1>24. ASSUME Shutdown PROVE [Pool!Next]_(Pool!vars)
  <2>1. Moving' = Moving
    BY <1>24 DEF Shutdown, Goto, Moving
  <2>2. PoolOpen' = PoolOpen
    BY <1>24 DEF Shutdown, Goto, PoolOpen
  <2> QED BY <1>24, <2>1, <2>2, PoolStutters DEF Shutdown
<1>25. ASSUME NEW w \in Workers, SetQuitting(w) PROVE [Pool!Next]_(Pool!vars)
  <2>1. Moving' = Moving
    BY <1>25 DEF SetQuitting, Goto, Moving
  <2>2. PoolOpen' = PoolOpen
    BY <1>25 DEF SetQuitting, Goto, PoolOpen
  <2> QED BY <1>25, <2>1, <2>2, PoolStutters DEF SetQuitting
<1>26. ASSUME QuitDone PROVE [Pool!Next]_(Pool!vars)
  <2>1. Moving' = Moving
    BY <1>26 DEF QuitDone, Goto, Moving
  <2>2. PoolOpen' = PoolOpen
    BY <1>26 DEF QuitDone, Goto, PoolOpen
  <2> QED BY <1>26, <2>1, <2>2, PoolStutters DEF QuitDone
<1>27. ASSUME WakeDone PROVE [Pool!Next]_(Pool!vars)
  <2>1. Moving' = Moving
    BY <1>27 DEF WakeDone, Goto, Moving
  <2>2. PoolOpen' = PoolOpen
    BY <1>27 DEF WakeDone, Goto, PoolOpen
  <2> QED BY <1>27, <2>1, <2>2, PoolStutters DEF WakeDone
<1>28. ASSUME NEW w \in Workers, JoinWorker(w) PROVE [Pool!Next]_(Pool!vars)
  <2>1. Moving' = Moving
    BY <1>28 DEF JoinWorker, Goto, Moving
  <2>2. PoolOpen' = PoolOpen
    BY <1>28 DEF JoinWorker, Goto, PoolOpen
  <2> QED BY <1>28, <2>1, <2>2, PoolStutters DEF JoinWorker
<1>29. ASSUME JoinDone PROVE [Pool!Next]_(Pool!vars)
  <2>1. Moving' = Moving
    BY <1>29 DEF JoinDone, Goto, Moving
  <2>2. PoolQueue' = PoolQueue /\ PoolLocal' = PoolLocal
    BY <1>29, <2>1 DEF JoinDone, PoolQueue, PoolLocal
  <2>3. CASE Threads = {}
    <3>1. PoolOpen' = PoolOpen
      BY <1>29, <2>3 DEF JoinDone, Goto, PoolOpen
    <3> QED BY <1>29, <2>2, <3>1 DEF JoinDone, Pool!vars
  <2>4. CASE Threads # {}
    <3>1. PoolOpen = TRUE /\ PoolOpen' = FALSE
      BY <1>29, <2>4 DEF JoinDone, Goto, PoolOpen
    <3>2. \A w \in Workers : pc[w] \in {"unborn", "exited"}
      BY <1>29 DEF JoinDone, ListInv
    <3>3. \A w \in Workers : func[w] = NoJob /\ PoolLocal[w] = <<>>
      BY <3>2 DEF LocalInv, InJob, InSubmit, PoolLocal
    <3>4. Pool!Close
      BY <1>29, <2>2, <3>1, <3>3 DEF JoinDone, Pool!Close
    <3> QED BY <3>4 DEF Pool!Next
  <2> QED BY <2>3, <2>4
<1>30. ASSUME NEW w \in Workers, ReapWorker(w) PROVE [Pool!Next]_(Pool!vars)
  <2>1. Moving' = Moving
    BY <1>30 DEF ReapWorker, Goto, Moving, ListSafe, ReapSafe
  <2>2. PoolOpen' = PoolOpen
    BY <1>30 DEF ReapWorker, Goto, PoolOpen, ListSafe, ReapSafe
  <2> QED BY <1>30, <2>1, <2>2, PoolStutters DEF ReapWorker
<1>31. ASSUME ReapDone PROVE [Pool!Next]_(Pool!vars)
  <2>1. Moving' = Moving
    BY <1>31 DEF ReapDone, Goto, Moving, LoopInv
  <2>2. PoolOpen' = PoolOpen
    BY <1>31 DEF ReapDone, Goto, PoolOpen, LoopInv
  <2> QED BY <1>31, <2>1, <2>2, PoolStutters DEF ReapDone
<1>32. CASE UNCHANGED vars
  <2>1. Moving' = Moving /\ PoolOpen' = PoolOpen
    BY <1>32 DEF vars, Moving, PoolOpen
  <2> QED BY <1>32, <2>1, PoolStutters DEF vars
<1> QED
  BY <1>1, <1>2, <1>3, <1>4, <1>5, <1>6, <1>7, <1>8, <1>9, <1>10, <1>11, <1>12,
       <1>13, <1>14, <1>15, <1>16, <1>17, <1>18, <1>19, <1>20, <1>21, <1>22,
       <1>23, <1>24, <1>25, <1>26, <1>27, <1>28, <1>29, <1>30, <1>31, <1>32 DEF
       Next, CallStep, WorkerStep, OwnerStep, Application

(* A handler that was just constructed is a closed, empty pool. *)
LEMMA PoolInit == Init => Pool!Init
<1> SUFFICES ASSUME Init PROVE Pool!Init
  OBVIOUS
<1> USE Constants DEF Init
<1>1. Moving = {}
  BY DEF Moving
<1>2. PoolQueue = <<>> /\ PoolLocal = [a \in Actors |-> <<>>]
  BY <1>1 DEF PoolQueue, PoolLocal
<1>3. PoolOpen = FALSE
  BY DEF PoolOpen
<1> QED BY <1>2, <1>3 DEF Pool!Init

(* Every behaviour of the engine is a behaviour of JobPool: Submit is      *)
(* atomic and keeps its order, each worker takes the oldest job and runs   *)
(* it once, no job is taken after Shutdown's joins (ThreadEngine.cpp:      *)
(* 66-172 and 221-265).                                                    *)
THEOREM EngineImplementsPool == Spec => ImplementsJobPool
<1>1. Init => EngineInv /\ RefinementInv
  BY EngineInit, RefinementInit
<1>2. (EngineInv /\ RefinementInv) /\ [Next]_vars => (EngineInv /\ RefinementInv)'
  BY EngineStep, LocalStep, LoopStep DEF RefinementInv
<1>3. Init => Pool!Init
  BY PoolInit
<1>4. (EngineInv /\ RefinementInv) /\ [Next]_vars => [Pool!Next]_(Pool!vars)
  BY RefinementStep
<1> QED
  BY <1>1, <1>2, <1>3, <1>4, PTL DEF Spec, ImplementsJobPool, Pool!Spec
=============================================================================
