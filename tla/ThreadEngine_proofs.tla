------------------------ MODULE ThreadEngine_proofs ------------------------
(***************************************************************************)
(* Theorems about the thread engine, for any number of workers and any set *)
(* of jobs.  EngineInv is inductive (EngineInit, EngineStep); the two      *)
(* accounting invariants are inductive relative to it (WakeStep,           *)
(* QuitStep).  Each step lemma has one step per action of Next.            *)
(***************************************************************************)
EXTENDS ThreadEngine, TLAPS

(* What the provers need to know of the constants: the owner is no worker, *)
(* Nobody is no actor, and the workers are ordered by their numbers.       *)
LEMMA Constants ==
    /\ SpawnCount \in Nat
    /\ Owner \in Actors
    /\ Owner \notin Workers
    /\ Nobody \notin Actors
    /\ Workers \subseteq Actors
    /\ \A a \in Actors : a = Owner \/ a \in Workers
    /\ \A v, w \in Workers : v \in Int /\ (v <= w /\ w <= v => v = w)
BY ConcurrencyAssumption DEF SpawnCount, Owner, Workers, Actors, Nobody

(* Every step of the code keeps types, program counters, the exclusive     *)
(* queueLock and the discipline around the unlocked list of workers.       *)
LEMMA EngineStep == EngineInv /\ [Next]_vars => EngineInv'
<1> SUFFICES ASSUME EngineInv, [Next]_vars PROVE EngineInv'
  OBVIOUS
<1> USE Constants, JobsAssumption, InitsAssumption DEF EngineInv, ListSafe,
      queues, flags, work, owner
<1>1. ASSUME NEW a \in Actors, NEW j \in Jobs, AddQueue(a, j) PROVE EngineInv'
  <2>1. TypeOK'
    BY <1>1 DEF AddQueue, Goto, TypeOK, Phases
  <2>2. ControlOK'
    BY <1>1 DEF AddQueue, Goto, TypeOK, ControlOK
  <2>3. LockDiscipline'
    BY <1>1 DEF AddQueue, Goto, TypeOK, LockDiscipline
  <2>4. ListInv'
    BY <1>1 DEF AddQueue, Goto, TypeOK, ListInv, At
  <2>5. SpawnSafe'
    BY <1>1 DEF AddQueue, Goto, TypeOK, SpawnSafe
  <2>6. ReapSafe'
    BY <1>1 DEF AddQueue, Goto, TypeOK, ReapSafe
  <2>7. EmptySafe'
    BY <1>1 DEF AddQueue, Goto, TypeOK, EmptySafe
  <2>8. WalkSafe'
    BY <1>1 DEF AddQueue, Goto, TypeOK, WalkSafe
  <2> QED BY <2>1, <2>2, <2>3, <2>4, <2>5, <2>6, <2>7, <2>8
<1>2. ASSUME NEW a \in Actors, Submit(a) PROVE EngineInv'
  <2>1. TypeOK'
    BY <1>2 DEF Submit, Goto, TypeOK, OwnerPCs
  <2>2. ControlOK'
    BY <1>2 DEF Submit, Goto, TypeOK, ControlOK, WorkerPCs, OwnerPCs
  <2>3. LockDiscipline'
    BY <1>2 DEF Submit, Goto, TypeOK, LockDiscipline
  <2>4. ListInv'
    BY <1>2 DEF Submit, Goto, TypeOK, ListInv, At
  <2>5. SpawnSafe'
    BY <1>2 DEF Submit, Goto, TypeOK, SpawnSafe, InJob
  <2>6. ReapSafe'
    BY <1>2 DEF Submit, Goto, TypeOK, ReapSafe
  <2>7. EmptySafe'
    BY <1>2 DEF Submit, Goto, TypeOK, EmptySafe
  <2>8. WalkSafe'
    BY <1>2 DEF Submit, Goto, TypeOK, WalkSafe
  <2> QED BY <2>1, <2>2, <2>3, <2>4, <2>5, <2>6, <2>7, <2>8
<1>3. ASSUME NEW a \in Actors, SubmitLock(a) PROVE EngineInv'
  <2>1. TypeOK'
    BY <1>3 DEF SubmitLock, Goto, TypeOK, OwnerPCs
  <2>2. ControlOK'
    BY <1>3 DEF SubmitLock, Goto, TypeOK, ControlOK, WorkerPCs, OwnerPCs
  <2>3. LockDiscipline'
    BY <1>3 DEF SubmitLock, Goto, TypeOK, LockDiscipline
  <2>4. ListInv'
    BY <1>3 DEF SubmitLock, Goto, TypeOK, ListInv, At
  <2>5. SpawnSafe'
    BY <1>3 DEF SubmitLock, Goto, TypeOK, SpawnSafe, InJob, InSubmit
  <2>6. ReapSafe'
    BY <1>3 DEF SubmitLock, Goto, TypeOK, ReapSafe
  <2>7. EmptySafe'
    BY <1>3 DEF SubmitLock, Goto, TypeOK, EmptySafe
  <2>8. WalkSafe'
    BY <1>3 DEF SubmitLock, Goto, TypeOK, WalkSafe
  <2> QED BY <2>1, <2>2, <2>3, <2>4, <2>5, <2>6, <2>7, <2>8
<1>4. ASSUME NEW a \in Actors, MoveJob(a) PROVE EngineInv'
  <2>1. TypeOK'
    BY <1>4 DEF MoveJob, Goto, TypeOK
  <2>2. ControlOK'
    BY <1>4 DEF MoveJob, Goto, TypeOK, ControlOK, LockDiscipline
  <2>3. LockDiscipline'
    BY <1>4 DEF MoveJob, Goto, TypeOK, LockDiscipline
  <2>4. ListInv'
    BY <1>4 DEF MoveJob, Goto, TypeOK, ListInv, At
  <2>5. SpawnSafe'
    BY <1>4 DEF MoveJob, Goto, TypeOK, SpawnSafe, InJob, InSubmit
  <2>6. ReapSafe'
    BY <1>4 DEF MoveJob, Goto, TypeOK, ReapSafe
  <2>7. EmptySafe'
    BY <1>4 DEF MoveJob, Goto, TypeOK, EmptySafe
  <2>8. WalkSafe'
    BY <1>4 DEF MoveJob, Goto, TypeOK, WalkSafe
  <2> QED BY <2>1, <2>2, <2>3, <2>4, <2>5, <2>6, <2>7, <2>8
<1>5. ASSUME NEW a \in Actors, SubmitUnlock(a) PROVE EngineInv'
  <2>1. TypeOK'
    BY <1>5 DEF SubmitUnlock, Goto, TypeOK, OwnerPCs
  <2>2. ControlOK'
    BY <1>5 DEF SubmitUnlock, Goto, TypeOK, ControlOK, WorkerPCs, OwnerPCs
  <2>3. LockDiscipline'
    BY <1>5 DEF SubmitUnlock, Goto, TypeOK, LockDiscipline
  <2>4. ListInv'
    BY <1>5 DEF SubmitUnlock, Goto, TypeOK, ListInv, At
  <2>5. SpawnSafe'
    BY <1>5 DEF SubmitUnlock, Goto, TypeOK, SpawnSafe, InJob, InSubmit
  <2>6. ReapSafe'
    BY <1>5 DEF SubmitUnlock, Goto, TypeOK, ReapSafe
  <2>7. EmptySafe'
    BY <1>5 DEF SubmitUnlock, Goto, TypeOK, EmptySafe
  <2>8. WalkSafe'
    BY <1>5 DEF SubmitUnlock, Goto, TypeOK, WalkSafe
  <2> QED BY <2>1, <2>2, <2>3, <2>4, <2>5, <2>6, <2>7, <2>8
<1>6. ASSUME NEW a \in Actors, NEW w \in Workers, WakeSet(a, w) PROVE EngineInv'
  <2>1. TypeOK'
    BY <1>6 DEF WakeSet, Goto, TypeOK, OwnerPCs
  <2>2. ControlOK'
    BY <1>6 DEF WakeSet, Goto, TypeOK, ControlOK, WorkerPCs, OwnerPCs
  <2>3. LockDiscipline'
    BY <1>6 DEF WakeSet, Goto, TypeOK, LockDiscipline
  <2>4. ListInv'
    BY <1>6 DEF WakeSet, Goto, TypeOK, ListInv, At
  <2>5. SpawnSafe'
    BY <1>6 DEF WakeSet, Goto, TypeOK, SpawnSafe, InJob, InSubmit
  <2>6. ReapSafe'
    BY <1>6 DEF WakeSet, Goto, TypeOK, ReapSafe
  <2>7. EmptySafe'
    BY <1>6 DEF WakeSet, Goto, TypeOK, EmptySafe
  <2>8. WalkSafe'
    BY <1>6 DEF WakeSet, Goto, TypeOK, WalkSafe
  <2> QED BY <2>1, <2>2, <2>3, <2>4, <2>5, <2>6, <2>7, <2>8
<1>7. ASSUME NEW a \in Actors, NEW w \in Workers, WakeNotify(a, w) PROVE EngineInv'
  <2>1. TypeOK'
    BY <1>7 DEF WakeNotify, Goto, TypeOK, WorkerPCs
  <2>2. ControlOK'
    BY <1>7 DEF WakeNotify, Goto, TypeOK, ControlOK, WorkerPCs, OwnerPCs
  <2>3. LockDiscipline'
    BY <1>7 DEF WakeNotify, Goto, TypeOK, LockDiscipline
  <2>4. ListInv'
    BY <1>7 DEF WakeNotify, Goto, TypeOK, ListInv, At
  <2>5. SpawnSafe'
    BY <1>7 DEF WakeNotify, Goto, TypeOK, SpawnSafe, InJob, InSubmit
  <2>6. ReapSafe'
    BY <1>7 DEF WakeNotify, Goto, TypeOK, ReapSafe
  <2>7. EmptySafe'
    BY <1>7 DEF WakeNotify, Goto, TypeOK, EmptySafe
  <2>8. WalkSafe'
    BY <1>7 DEF WakeNotify, Goto, TypeOK, WalkSafe
  <2> QED BY <2>1, <2>2, <2>3, <2>4, <2>5, <2>6, <2>7, <2>8
<1>8. ASSUME NEW a \in Actors, SubmitReturn(a) PROVE EngineInv'
  <2>1. TypeOK'
    BY <1>8 DEF SubmitReturn, Goto, TypeOK, OwnerPCs
  <2>2. ControlOK'
    BY <1>8 DEF SubmitReturn, Goto, TypeOK, ControlOK, WorkerPCs, OwnerPCs
  <2>3. LockDiscipline'
    BY <1>8 DEF SubmitReturn, Goto, TypeOK, LockDiscipline
  <2>4. ListInv'
    BY <1>8 DEF SubmitReturn, Goto, TypeOK, ListInv, At
  <2>5. SpawnSafe'
    BY <1>8 DEF SubmitReturn, Goto, TypeOK, SpawnSafe, InJob, InSubmit
  <2>6. ReapSafe'
    BY <1>8 DEF SubmitReturn, Goto, TypeOK, ReapSafe
  <2>7. EmptySafe'
    BY <1>8 DEF SubmitReturn, Goto, TypeOK, EmptySafe, ListInv
  <2>8. WalkSafe'
    BY <1>8 DEF SubmitReturn, Goto, TypeOK, WalkSafe
  <2> QED BY <2>1, <2>2, <2>3, <2>4, <2>5, <2>6, <2>7, <2>8
<1>9. ASSUME NEW w \in Workers, EnterLoop(w) PROVE EngineInv'
  <2>1. TypeOK'
    BY <1>9 DEF EnterLoop, Goto, TypeOK, WorkerPCs
  <2>2. ControlOK'
    BY <1>9 DEF EnterLoop, Goto, TypeOK, ControlOK, WorkerPCs
  <2>3. LockDiscipline'
    BY <1>9 DEF EnterLoop, Goto, TypeOK, LockDiscipline
  <2>4. ListInv'
    BY <1>9 DEF EnterLoop, Goto, TypeOK, ListInv, At
  <2>5. SpawnSafe'
    BY <1>9 DEF EnterLoop, Goto, TypeOK, SpawnSafe, InJob, InSubmit
  <2>6. ReapSafe'
    BY <1>9 DEF EnterLoop, Goto, TypeOK, ReapSafe
  <2>7. EmptySafe'
    BY <1>9 DEF EnterLoop, Goto, TypeOK, EmptySafe
  <2>8. WalkSafe'
    BY <1>9 DEF EnterLoop, Goto, TypeOK, WalkSafe
  <2> QED BY <2>1, <2>2, <2>3, <2>4, <2>5, <2>6, <2>7, <2>8
<1>10. ASSUME NEW w \in Workers, LeaveLoop(w) PROVE EngineInv'
  <2>1. TypeOK'
    BY <1>10 DEF LeaveLoop, Goto, TypeOK, WorkerPCs, Discard, Phases
  <2>2. ControlOK'
    BY <1>10 DEF LeaveLoop, Goto, TypeOK, ControlOK, WorkerPCs
  <2>3. LockDiscipline'
    BY <1>10 DEF LeaveLoop, Goto, TypeOK, LockDiscipline
  <2>4. ListInv'
    BY <1>10 DEF LeaveLoop, Goto, TypeOK, ListInv, At
  <2>5. SpawnSafe'
    BY <1>10 DEF LeaveLoop, Goto, TypeOK, SpawnSafe, InJob, InSubmit
  <2>6. ReapSafe'
    BY <1>10 DEF LeaveLoop, Goto, TypeOK, ReapSafe
  <2>7. EmptySafe'
    BY <1>10 DEF LeaveLoop, Goto, TypeOK, EmptySafe
  <2>8. WalkSafe'
    BY <1>10 DEF LeaveLoop, Goto, TypeOK, WalkSafe
  <2> QED BY <2>1, <2>2, <2>3, <2>4, <2>5, <2>6, <2>7, <2>8
<1>11. ASSUME NEW w \in Workers, LockQueue(w) PROVE EngineInv'
  <2>1. TypeOK'
    BY <1>11 DEF LockQueue, Goto, TypeOK, WorkerPCs
  <2>2. ControlOK'
    BY <1>11 DEF LockQueue, Goto, TypeOK, ControlOK, WorkerPCs
  <2>3. LockDiscipline'
    BY <1>11 DEF LockQueue, Goto, TypeOK, LockDiscipline
  <2>4. ListInv'
    BY <1>11 DEF LockQueue, Goto, TypeOK, ListInv, At
  <2>5. SpawnSafe'
    BY <1>11 DEF LockQueue, Goto, TypeOK, SpawnSafe, InJob, InSubmit
  <2>6. ReapSafe'
    BY <1>11 DEF LockQueue, Goto, TypeOK, ReapSafe
  <2>7. EmptySafe'
    BY <1>11 DEF LockQueue, Goto, TypeOK, EmptySafe
  <2>8. WalkSafe'
    BY <1>11 DEF LockQueue, Goto, TypeOK, WalkSafe
  <2> QED BY <2>1, <2>2, <2>3, <2>4, <2>5, <2>6, <2>7, <2>8
<1>12. ASSUME NEW w \in Workers, FindJob(w) PROVE EngineInv'
  <2>1. TypeOK'
    BY <1>12 DEF FindJob, Goto, TypeOK, WorkerPCs
  <2>2. ControlOK'
    BY <1>12 DEF FindJob, Goto, TypeOK, ControlOK, WorkerPCs
  <2>3. LockDiscipline'
    BY <1>12 DEF FindJob, Goto, TypeOK, LockDiscipline
  <2>4. ListInv'
    BY <1>12 DEF FindJob, Goto, TypeOK, ListInv, SpawnSafe
  <2>5. SpawnSafe'
    BY <1>12 DEF FindJob, Goto, TypeOK, SpawnSafe
  <2>6. ReapSafe'
    BY <1>12 DEF FindJob, Goto, TypeOK, ReapSafe
  <2>7. EmptySafe'
    BY <1>12 DEF FindJob, Goto, TypeOK, EmptySafe
  <2>8. WalkSafe'
    BY <1>12 DEF FindJob, Goto, TypeOK, WalkSafe
  <2> QED BY <2>1, <2>2, <2>3, <2>4, <2>5, <2>6, <2>7, <2>8
<1>13. ASSUME NEW w \in Workers, FindNoJob(w) PROVE EngineInv'
  <2>1. TypeOK'
    BY <1>13 DEF FindNoJob, Goto, TypeOK, WorkerPCs
  <2>2. ControlOK'
    BY <1>13 DEF FindNoJob, Goto, TypeOK, ControlOK, WorkerPCs
  <2>3. LockDiscipline'
    BY <1>13 DEF FindNoJob, Goto, TypeOK, LockDiscipline
  <2>4. ListInv'
    BY <1>13 DEF FindNoJob, Goto, TypeOK, ListInv, At
  <2>5. SpawnSafe'
    BY <1>13 DEF FindNoJob, Goto, TypeOK, SpawnSafe, InJob, InSubmit
  <2>6. ReapSafe'
    BY <1>13 DEF FindNoJob, Goto, TypeOK, ReapSafe
  <2>7. EmptySafe'
    BY <1>13 DEF FindNoJob, Goto, TypeOK, EmptySafe
  <2>8. WalkSafe'
    BY <1>13 DEF FindNoJob, Goto, TypeOK, WalkSafe
  <2> QED BY <2>1, <2>2, <2>3, <2>4, <2>5, <2>6, <2>7, <2>8
<1>14. ASSUME NEW w \in Workers, PopJob(w) PROVE EngineInv'
  <2>1. TypeOK'
    BY <1>14 DEF PopJob, Goto, TypeOK, ControlOK, OwnerPCs
  <2>2. ControlOK'
    BY <1>14 DEF PopJob, Goto, TypeOK, ControlOK, LockDiscipline, WorkerPCs
  <2>3. LockDiscipline'
    BY <1>14 DEF PopJob, Goto, TypeOK, LockDiscipline
  <2>4. ListInv'
    BY <1>14 DEF PopJob, Goto, TypeOK, ListInv
  <2>5. SpawnSafe'
    BY <1>14 DEF PopJob, Goto, TypeOK, ControlOK, SpawnSafe
  <2>6. ReapSafe'
    BY <1>14 DEF PopJob, Goto, TypeOK, ReapSafe
  <2>7. EmptySafe'
    BY <1>14 DEF PopJob, Goto, TypeOK, EmptySafe
  <2>8. WalkSafe'
    BY <1>14 DEF PopJob, Goto, TypeOK, WalkSafe
  <2> QED BY <2>1, <2>2, <2>3, <2>4, <2>5, <2>6, <2>7, <2>8
<1>15. ASSUME NEW w \in Workers, FinishJob(w) PROVE EngineInv'
  <2>1. TypeOK'
    BY <1>15 DEF FinishJob, Goto, TypeOK, WorkerPCs, Phases
  <2>2. ControlOK'
    BY <1>15 DEF FinishJob, Goto, TypeOK, ControlOK, WorkerPCs
  <2>3. LockDiscipline'
    BY <1>15 DEF FinishJob, Goto, TypeOK, LockDiscipline
  <2>4. ListInv'
    BY <1>15 DEF FinishJob, Goto, TypeOK, ListInv, At
  <2>5. SpawnSafe'
    BY <1>15 DEF FinishJob, Goto, TypeOK, SpawnSafe, InJob
  <2>6. ReapSafe'
    BY <1>15 DEF FinishJob, Goto, TypeOK, ReapSafe
  <2>7. EmptySafe'
    BY <1>15 DEF FinishJob, Goto, TypeOK, EmptySafe
  <2>8. WalkSafe'
    BY <1>15 DEF FinishJob, Goto, TypeOK, WalkSafe
  <2> QED BY <2>1, <2>2, <2>3, <2>4, <2>5, <2>6, <2>7, <2>8
<1>16. ASSUME NEW w \in Workers, TestWake(w) PROVE EngineInv'
  <2>1. TypeOK'
    BY <1>16 DEF TestWake, Goto, TypeOK, WorkerPCs
  <2>2. ControlOK'
    BY <1>16 DEF TestWake, Goto, TypeOK, ControlOK, WorkerPCs
  <2>3. LockDiscipline'
    BY <1>16 DEF TestWake, Goto, TypeOK, LockDiscipline
  <2>4. ListInv'
    BY <1>16 DEF TestWake, Goto, TypeOK, ListInv, At
  <2>5. SpawnSafe'
    BY <1>16 DEF TestWake, Goto, TypeOK, SpawnSafe, InJob, InSubmit
  <2>6. ReapSafe'
    BY <1>16 DEF TestWake, Goto, TypeOK, ReapSafe
  <2>7. EmptySafe'
    BY <1>16 DEF TestWake, Goto, TypeOK, EmptySafe
  <2>8. WalkSafe'
    BY <1>16 DEF TestWake, Goto, TypeOK, WalkSafe
  <2> QED BY <2>1, <2>2, <2>3, <2>4, <2>5, <2>6, <2>7, <2>8
<1>17. ASSUME NEW w \in Workers, Block(w) PROVE EngineInv'
  <2>1. TypeOK'
    BY <1>17 DEF Block, Goto, TypeOK, WorkerPCs
  <2>2. ControlOK'
    BY <1>17 DEF Block, Goto, TypeOK, ControlOK, WorkerPCs
  <2>3. LockDiscipline'
    BY <1>17 DEF Block, Goto, TypeOK, LockDiscipline
  <2>4. ListInv'
    BY <1>17 DEF Block, Goto, TypeOK, ListInv, At
  <2>5. SpawnSafe'
    BY <1>17 DEF Block, Goto, TypeOK, SpawnSafe, InJob, InSubmit
  <2>6. ReapSafe'
    BY <1>17 DEF Block, Goto, TypeOK, ReapSafe
  <2>7. EmptySafe'
    BY <1>17 DEF Block, Goto, TypeOK, EmptySafe
  <2>8. WalkSafe'
    BY <1>17 DEF Block, Goto, TypeOK, WalkSafe
  <2> QED BY <2>1, <2>2, <2>3, <2>4, <2>5, <2>6, <2>7, <2>8
<1>18. ASSUME NEW w \in Workers, SpuriousWakeup(w) PROVE EngineInv'
  <2>1. TypeOK'
    BY <1>18 DEF SpuriousWakeup, Goto, TypeOK, WorkerPCs
  <2>2. ControlOK'
    BY <1>18 DEF SpuriousWakeup, Goto, TypeOK, ControlOK, WorkerPCs
  <2>3. LockDiscipline'
    BY <1>18 DEF SpuriousWakeup, Goto, TypeOK, LockDiscipline
  <2>4. ListInv'
    BY <1>18 DEF SpuriousWakeup, Goto, TypeOK, ListInv, At
  <2>5. SpawnSafe'
    BY <1>18 DEF SpuriousWakeup, Goto, TypeOK, SpawnSafe, InJob, InSubmit
  <2>6. ReapSafe'
    BY <1>18 DEF SpuriousWakeup, Goto, TypeOK, ReapSafe
  <2>7. EmptySafe'
    BY <1>18 DEF SpuriousWakeup, Goto, TypeOK, EmptySafe
  <2>8. WalkSafe'
    BY <1>18 DEF SpuriousWakeup, Goto, TypeOK, WalkSafe
  <2> QED BY <2>1, <2>2, <2>3, <2>4, <2>5, <2>6, <2>7, <2>8
<1>19. ASSUME NEW w \in Workers, ResetWake(w) PROVE EngineInv'
  <2>1. TypeOK'
    BY <1>19 DEF ResetWake, Goto, TypeOK, WorkerPCs
  <2>2. ControlOK'
    BY <1>19 DEF ResetWake, Goto, TypeOK, ControlOK, WorkerPCs
  <2>3. LockDiscipline'
    BY <1>19 DEF ResetWake, Goto, TypeOK, LockDiscipline
  <2>4. ListInv'
    BY <1>19 DEF ResetWake, Goto, TypeOK, ListInv, At
  <2>5. SpawnSafe'
    BY <1>19 DEF ResetWake, Goto, TypeOK, SpawnSafe, InJob, InSubmit
  <2>6. ReapSafe'
    BY <1>19 DEF ResetWake, Goto, TypeOK, ReapSafe
  <2>7. EmptySafe'
    BY <1>19 DEF ResetWake, Goto, TypeOK, EmptySafe
  <2>8. WalkSafe'
    BY <1>19 DEF ResetWake, Goto, TypeOK, WalkSafe
  <2> QED BY <2>1, <2>2, <2>3, <2>4, <2>5, <2>6, <2>7, <2>8
<1>20. ASSUME Initialize PROVE EngineInv'
  <2>1. TypeOK'
    BY <1>20 DEF Initialize, Goto, TypeOK, OwnerPCs, Discard, Phases
  <2>2. ControlOK'
    BY <1>20 DEF Initialize, Goto, TypeOK, ControlOK, ListInv, OwnerPCs
  <2>3. LockDiscipline'
    BY <1>20 DEF Initialize, Goto, TypeOK, LockDiscipline
  <2>4. ListInv'
    BY <1>20 DEF Initialize, Goto, TypeOK, ListInv
  <2>5. SpawnSafe'
    BY <1>20 DEF Initialize, Goto, TypeOK, SpawnSafe, ListInv, InJob, InSubmit
  <2>6. ReapSafe'
    BY <1>20 DEF Initialize, Goto, TypeOK, ReapSafe
  <2>7. EmptySafe'
    BY <1>20 DEF Initialize, Goto, TypeOK, EmptySafe
  <2>8. WalkSafe'
    BY <1>20 DEF Initialize, Goto, TypeOK, WalkSafe
  <2> QED BY <2>1, <2>2, <2>3, <2>4, <2>5, <2>6, <2>7, <2>8
<1>21. ASSUME NEW w \in Workers, StartWorker(w) PROVE EngineInv'
  <2> pc[w] = "unborn"
    BY <1>21 DEF StartWorker, At, TypeOK, ListInv
  <2>1. TypeOK'
    BY <1>21 DEF StartWorker, Goto, TypeOK, WorkerPCs, OwnerPCs
  <2>2. ControlOK'
    BY <1>21 DEF StartWorker, Goto, TypeOK, ControlOK, WorkerPCs, OwnerPCs
  <2>3. LockDiscipline'
    BY <1>21 DEF StartWorker, Goto, TypeOK, LockDiscipline
  <2>4. ListInv'
    BY <1>21 DEF StartWorker, Goto, TypeOK, ListInv, At
  <2>5. SpawnSafe'
    BY <1>21 DEF StartWorker, Goto, TypeOK, SpawnSafe, InJob, InSubmit
  <2>6. ReapSafe'
    BY <1>21 DEF StartWorker, Goto, TypeOK, ReapSafe
  <2>7. EmptySafe'
    BY <1>21 DEF StartWorker, Goto, TypeOK, EmptySafe
  <2>8. WalkSafe'
    BY <1>21 DEF StartWorker, Goto, TypeOK, WalkSafe, WorkerPCs
  <2> QED BY <2>1, <2>2, <2>3, <2>4, <2>5, <2>6, <2>7, <2>8
<1>22. ASSUME NEW w \in Workers, PushWorker(w) PROVE EngineInv'
  <2>1. TypeOK'
    BY <1>22 DEF PushWorker, Goto, TypeOK, OwnerPCs
  <2>2. ControlOK'
    BY <1>22 DEF PushWorker, Goto, TypeOK, ControlOK, OwnerPCs
  <2>3. LockDiscipline'
    BY <1>22 DEF PushWorker, Goto, TypeOK, LockDiscipline
  <2>4. ListInv'
    BY <1>22 DEF PushWorker, Goto, TypeOK, ListInv, At
  <2>5. SpawnSafe'
    BY <1>22 DEF PushWorker, Goto, TypeOK, SpawnSafe
  <2>6. ReapSafe'
    BY <1>22 DEF PushWorker, Goto, TypeOK, ReapSafe
  <2>7. EmptySafe'
    BY <1>22 DEF PushWorker, Goto, TypeOK, EmptySafe
  <2>8. WalkSafe'
    BY <1>22 DEF PushWorker, Goto, TypeOK, WalkSafe
  <2> QED BY <2>1, <2>2, <2>3, <2>4, <2>5, <2>6, <2>7, <2>8
<1>23. ASSUME SpawnDone PROVE EngineInv'
  <2>1. TypeOK'
    BY <1>23 DEF SpawnDone, Goto, TypeOK, OwnerPCs
  <2>2. ControlOK'
    BY <1>23 DEF SpawnDone, Goto, TypeOK, ControlOK, OwnerPCs
  <2>3. LockDiscipline'
    BY <1>23 DEF SpawnDone, Goto, TypeOK, LockDiscipline
  <2>4. ListInv'
    BY <1>23 DEF SpawnDone, Goto, TypeOK, ListInv
  <2>5. SpawnSafe'
    BY <1>23 DEF SpawnDone, Goto, TypeOK, SpawnSafe
  <2>6. ReapSafe'
    BY <1>23 DEF SpawnDone, Goto, TypeOK, ReapSafe
  <2>7. EmptySafe'
    BY <1>23 DEF SpawnDone, Goto, TypeOK, EmptySafe, ListInv
  <2>8. WalkSafe'
    BY <1>23 DEF SpawnDone, Goto, TypeOK, WalkSafe
  <2> QED BY <2>1, <2>2, <2>3, <2>4, <2>5, <2>6, <2>7, <2>8
<1>24. ASSUME Shutdown PROVE EngineInv'
  <2>1. TypeOK'
    BY <1>24 DEF Shutdown, Goto, TypeOK, OwnerPCs
  <2>2. ControlOK'
    BY <1>24 DEF Shutdown, Goto, TypeOK, ControlOK, OwnerPCs
  <2>3. LockDiscipline'
    BY <1>24 DEF Shutdown, Goto, TypeOK, LockDiscipline
  <2>4. ListInv'
    BY <1>24 DEF Shutdown, Goto, TypeOK, ListInv
  <2>5. SpawnSafe'
    BY <1>24 DEF Shutdown, Goto, TypeOK, SpawnSafe
  <2>6. ReapSafe'
    BY <1>24 DEF Shutdown, Goto, TypeOK, ReapSafe
  <2>7. EmptySafe'
    BY <1>24 DEF Shutdown, Goto, TypeOK, EmptySafe
  <2>8. WalkSafe'
    BY <1>24 DEF Shutdown, Goto, TypeOK, WalkSafe
  <2> QED BY <2>1, <2>2, <2>3, <2>4, <2>5, <2>6, <2>7, <2>8
<1>25. ASSUME NEW w \in Workers, SetQuitting(w) PROVE EngineInv'
  <2>1. TypeOK'
    BY <1>25 DEF SetQuitting, Goto, TypeOK
  <2>2. ControlOK'
    BY <1>25 DEF SetQuitting, Goto, TypeOK, ControlOK
  <2>3. LockDiscipline'
    BY <1>25 DEF SetQuitting, Goto, TypeOK, LockDiscipline
  <2>4. ListInv'
    BY <1>25 DEF SetQuitting, Goto, TypeOK, ListInv
  <2>5. SpawnSafe'
    BY <1>25 DEF SetQuitting, Goto, TypeOK, SpawnSafe
  <2>6. ReapSafe'
    BY <1>25 DEF SetQuitting, Goto, TypeOK, ReapSafe
  <2>7. EmptySafe'
    BY <1>25 DEF SetQuitting, Goto, TypeOK, EmptySafe
  <2>8. WalkSafe'
    BY <1>25 DEF SetQuitting, Goto, TypeOK, WalkSafe
  <2> QED BY <2>1, <2>2, <2>3, <2>4, <2>5, <2>6, <2>7, <2>8
<1>26. ASSUME QuitDone PROVE EngineInv'
  <2>1. TypeOK'
    BY <1>26 DEF QuitDone, Goto, TypeOK, OwnerPCs
  <2>2. ControlOK'
    BY <1>26 DEF QuitDone, Goto, TypeOK, ControlOK, OwnerPCs
  <2>3. LockDiscipline'
    BY <1>26 DEF QuitDone, Goto, TypeOK, LockDiscipline
  <2>4. ListInv'
    BY <1>26 DEF QuitDone, Goto, TypeOK, ListInv
  <2>5. SpawnSafe'
    BY <1>26 DEF QuitDone, Goto, TypeOK, SpawnSafe
  <2>6. ReapSafe'
    BY <1>26 DEF QuitDone, Goto, TypeOK, ReapSafe
  <2>7. EmptySafe'
    BY <1>26 DEF QuitDone, Goto, TypeOK, EmptySafe
  <2>8. WalkSafe'
    BY <1>26 DEF QuitDone, Goto, TypeOK, WalkSafe
  <2> QED BY <2>1, <2>2, <2>3, <2>4, <2>5, <2>6, <2>7, <2>8
<1>27. ASSUME WakeDone PROVE EngineInv'
  <2>1. TypeOK'
    BY <1>27 DEF WakeDone, Goto, TypeOK, OwnerPCs
  <2>2. ControlOK'
    BY <1>27 DEF WakeDone, Goto, TypeOK, ControlOK, OwnerPCs
  <2>3. LockDiscipline'
    BY <1>27 DEF WakeDone, Goto, TypeOK, LockDiscipline
  <2>4. ListInv'
    BY <1>27 DEF WakeDone, Goto, TypeOK, ListInv
  <2>5. SpawnSafe'
    BY <1>27 DEF WakeDone, Goto, TypeOK, SpawnSafe
  <2>6. ReapSafe'
    BY <1>27 DEF WakeDone, Goto, TypeOK, ReapSafe
  <2>7. EmptySafe'
    BY <1>27 DEF WakeDone, Goto, TypeOK, EmptySafe
  <2>8. WalkSafe'
    BY <1>27 DEF WakeDone, Goto, TypeOK, WalkSafe
  <2> QED BY <2>1, <2>2, <2>3, <2>4, <2>5, <2>6, <2>7, <2>8
<1>28. ASSUME NEW w \in Workers, JoinWorker(w) PROVE EngineInv'
  <2>1. TypeOK'
    BY <1>28 DEF JoinWorker, Goto, TypeOK
  <2>2. ControlOK'
    BY <1>28 DEF JoinWorker, Goto, TypeOK, ControlOK
  <2>3. LockDiscipline'
    BY <1>28 DEF JoinWorker, Goto, TypeOK, LockDiscipline
  <2>4. ListInv'
    BY <1>28 DEF JoinWorker, Goto, TypeOK, ListInv
  <2>5. SpawnSafe'
    BY <1>28 DEF JoinWorker, Goto, TypeOK, SpawnSafe
  <2>6. ReapSafe'
    BY <1>28 DEF JoinWorker, Goto, TypeOK, ReapSafe
  <2>7. EmptySafe'
    BY <1>28 DEF JoinWorker, Goto, TypeOK, EmptySafe
  <2>8. WalkSafe'
    BY <1>28 DEF JoinWorker, Goto, TypeOK, WalkSafe
  <2> QED BY <2>1, <2>2, <2>3, <2>4, <2>5, <2>6, <2>7, <2>8
<1>29. ASSUME JoinDone PROVE EngineInv'
  <2>1. TypeOK'
    BY <1>29 DEF JoinDone, Goto, TypeOK, OwnerPCs
  <2>2. ControlOK'
    BY <1>29 DEF JoinDone, Goto, TypeOK, ControlOK, OwnerPCs
  <2>3. LockDiscipline'
    BY <1>29 DEF JoinDone, Goto, TypeOK, LockDiscipline
  <2>4. ListInv'
    BY <1>29 DEF JoinDone, Goto, TypeOK, ListInv
  <2>5. SpawnSafe'
    BY <1>29 DEF JoinDone, Goto, TypeOK, SpawnSafe
  <2>6. ReapSafe'
    BY <1>29 DEF JoinDone, Goto, TypeOK, ReapSafe, ListInv
  <2>7. EmptySafe'
    BY <1>29 DEF JoinDone, Goto, TypeOK, EmptySafe
  <2>8. WalkSafe'
    BY <1>29 DEF JoinDone, Goto, TypeOK, WalkSafe
  <2> QED BY <2>1, <2>2, <2>3, <2>4, <2>5, <2>6, <2>7, <2>8
<1>30. ASSUME NEW w \in Workers, ReapWorker(w) PROVE EngineInv'
  <2> pc[w] \in {"exited", "unborn"}
    BY <1>30 DEF ReapWorker, TypeOK, ReapSafe, WalkSafe
  <2>1. TypeOK'
    BY <1>30 DEF ReapWorker, Goto, TypeOK, WorkerPCs
  <2>2. ControlOK'
    BY <1>30 DEF ReapWorker, Goto, TypeOK, ControlOK, WorkerPCs
  <2>3. LockDiscipline'
    BY <1>30 DEF ReapWorker, Goto, TypeOK, LockDiscipline
  <2>4. ListInv'
    BY <1>30 DEF ReapWorker, Goto, TypeOK, ListInv
  <2>5. SpawnSafe'
    BY <1>30 DEF ReapWorker, Goto, TypeOK, SpawnSafe
  <2>6. ReapSafe'
    BY <1>30 DEF ReapWorker, Goto, TypeOK, ReapSafe
  <2>7. EmptySafe'
    BY <1>30 DEF ReapWorker, Goto, TypeOK, EmptySafe
  <2>8. WalkSafe'
    BY <1>30 DEF ReapWorker, Goto, TypeOK, WalkSafe, ReapSafe
  <2> QED BY <2>1, <2>2, <2>3, <2>4, <2>5, <2>6, <2>7, <2>8
<1>31. ASSUME ReapDone PROVE EngineInv'
  <2>1. TypeOK'
    BY <1>31 DEF ReapDone, Goto, TypeOK, OwnerPCs
  <2>2. ControlOK'
    BY <1>31 DEF ReapDone, Goto, TypeOK, ControlOK, OwnerPCs
  <2>3. LockDiscipline'
    BY <1>31 DEF ReapDone, Goto, TypeOK, LockDiscipline
  <2>4. ListInv'
    BY <1>31 DEF ReapDone, Goto, TypeOK, ListInv
  <2>5. SpawnSafe'
    BY <1>31 DEF ReapDone, Goto, TypeOK, SpawnSafe
  <2>6. ReapSafe'
    BY <1>31 DEF ReapDone, Goto, TypeOK, ReapSafe
  <2>7. EmptySafe'
    BY <1>31 DEF ReapDone, Goto, TypeOK, EmptySafe, ListInv
  <2>8. WalkSafe'
    BY <1>31 DEF ReapDone, Goto, TypeOK, WalkSafe
  <2> QED BY <2>1, <2>2, <2>3, <2>4, <2>5, <2>6, <2>7, <2>8
<1>32. CASE UNCHANGED vars
  BY <1>32 DEF vars, TypeOK, ControlOK, LockDiscipline, ListInv, SpawnSafe,
       ReapSafe, EmptySafe, WalkSafe, At
<1> QED
  BY <1>1, <1>2, <1>3, <1>4, <1>5, <1>6, <1>7, <1>8, <1>9, <1>10, <1>11, <1>12,
       <1>13, <1>14, <1>15, <1>16, <1>17, <1>18, <1>19, <1>20, <1>21, <1>22,
       <1>23, <1>24, <1>25, <1>26, <1>27, <1>28, <1>29, <1>30, <1>31, <1>32 DEF
       Next, CallStep, WorkerStep, OwnerStep, Application

(* No step puts a worker to sleep, or a job in the queue, so that the      *)
(* worker is neither woken nor about to be.                                *)
LEMMA WakeStep == EngineInv /\ WakeAccounting /\ [Next]_vars => WakeAccounting'
<1> SUFFICES ASSUME EngineInv, WakeAccounting, [Next]_vars,
                    NEW v \in Threads', (funcs # <<>>)', (pc[v] \in Asleep)'
             PROVE  wakeThread'[v] \/ \E b \in Actors : WillWake(b, v)'
  BY DEF WakeAccounting
<1> DEFINE Woken == wakeThread'[v] \/ \E b \in Actors : WillWake(b, v)'
<1> v \in Workers /\ v \in Actors /\ v # Owner
  BY EngineStep, Constants DEF EngineInv, TypeOK
<1> USE Constants DEF EngineInv, ListSafe, TypeOK, queues, flags, work, owner
<1>1. ASSUME NEW a \in Actors, NEW j \in Jobs, AddQueue(a, j) PROVE Woken
  <2>1. v \in Threads /\ funcs # <<>> /\ pc[v] \in Asleep
    BY <1>1 DEF AddQueue, Goto, Asleep
  <2>2. CASE wakeThread[v]
    BY <1>1, <2>1, <2>2 DEF AddQueue, Goto, Asleep
  <2>3. ASSUME NEW b \in Actors, WillWake(b, v) PROVE Woken
    BY <1>1, <2>1, <2>3 DEF AddQueue, Goto, WillWake, Asleep, At
  <2> QED BY <2>1, <2>2, <2>3 DEF WakeAccounting
<1>2. ASSUME NEW a \in Actors, Submit(a) PROVE Woken
  <2>1. v \in Threads /\ funcs # <<>> /\ pc[v] \in Asleep
    BY <1>2 DEF Submit, Goto, Asleep
  <2>2. CASE wakeThread[v]
    BY <1>2, <2>1, <2>2 DEF Submit, Goto, Asleep
  <2>3. ASSUME NEW b \in Actors, WillWake(b, v) PROVE Woken
    BY <1>2, <2>1, <2>3 DEF Submit, Goto, WillWake, Asleep, At
  <2> QED BY <2>1, <2>2, <2>3 DEF WakeAccounting
<1>3. ASSUME NEW a \in Actors, SubmitLock(a) PROVE Woken
  <2>1. v \in Threads /\ funcs # <<>> /\ pc[v] \in Asleep
    BY <1>3 DEF SubmitLock, Goto, Asleep
  <2>2. CASE wakeThread[v]
    BY <1>3, <2>1, <2>2 DEF SubmitLock, Goto, Asleep
  <2>3. ASSUME NEW b \in Actors, WillWake(b, v) PROVE Woken
    BY <1>3, <2>1, <2>3 DEF SubmitLock, Goto, WillWake, Asleep
  <2> QED BY <2>1, <2>2, <2>3 DEF WakeAccounting
<1>4. ASSUME NEW a \in Actors, MoveJob(a) PROVE Woken
  <2>1. WillWake(a, v)'
    BY <1>4 DEF MoveJob, Goto, WillWake
  <2> QED BY <2>1
<1>5. ASSUME NEW a \in Actors, SubmitUnlock(a) PROVE Woken
  <2>1. WillWake(a, v)'
    BY <1>5 DEF SubmitUnlock, Goto, WillWake
  <2> QED BY <2>1
<1>6. ASSUME NEW a \in Actors, NEW w \in Workers, WakeSet(a, w) PROVE Woken
  <2>1. v \in Threads /\ funcs # <<>> /\ pc[v] \in Asleep
    BY <1>6 DEF WakeSet, Goto, Asleep
  <2>2. CASE wakeThread[v]
    BY <1>6, <2>1, <2>2 DEF WakeSet, Goto, Asleep
  <2>3. ASSUME NEW b \in Actors, WillWake(b, v) PROVE Woken
    BY <1>6, <2>1, <2>3 DEF WakeSet, Goto, WillWake, Asleep, At
  <2> QED BY <2>1, <2>2, <2>3 DEF WakeAccounting
<1>7. ASSUME NEW a \in Actors, NEW w \in Workers, WakeNotify(a, w) PROVE Woken
  <2>1. v \in Threads /\ funcs # <<>> /\ pc[v] \in Asleep
    BY <1>7 DEF WakeNotify, Asleep
  <2>2. CASE wakeThread[v]
    BY <1>7, <2>1, <2>2 DEF WakeNotify
  <2>3. ASSUME WillWake(a, v) PROVE WillWake(a, v)'
    <3>1. v \in iter[a] /\ v # w
      BY <1>7, <2>3 DEF WakeNotify, WillWake
    <3> QED BY <1>7, <3>1 DEF WakeNotify, WillWake
  <2>4. ASSUME NEW b \in Actors, b # a, WillWake(b, v) PROVE WillWake(b, v)'
    <3>1. pc'[b] = pc[b] /\ iter'[b] = iter[b]
      BY <1>7, <2>4 DEF WakeNotify, WillWake
    <3> QED BY <2>4, <3>1 DEF WillWake, At
  <2> QED BY <2>1, <2>2, <2>3, <2>4 DEF WakeAccounting
<1>8. ASSUME NEW a \in Actors, SubmitReturn(a) PROVE Woken
  <2>1. v \in Threads /\ funcs # <<>> /\ pc[v] \in Asleep
    BY <1>8 DEF SubmitReturn, Goto, Asleep
  <2>2. CASE wakeThread[v]
    BY <1>8, <2>1, <2>2 DEF SubmitReturn, Goto, Asleep
  <2>3. ASSUME NEW b \in Actors, WillWake(b, v) PROVE Woken
    BY <1>8, <2>1, <2>3 DEF SubmitReturn, Goto, WillWake, Asleep, At
  <2> QED BY <2>1, <2>2, <2>3 DEF WakeAccounting
<1>9. ASSUME NEW w \in Workers, EnterLoop(w) PROVE Woken
  <2>1. v \in Threads /\ funcs # <<>> /\ pc[v] \in Asleep
    BY <1>9 DEF EnterLoop, Goto, Asleep
  <2>2. CASE wakeThread[v]
    BY <1>9, <2>1, <2>2 DEF EnterLoop, Goto, Asleep
  <2>3. ASSUME NEW b \in Actors, WillWake(b, v) PROVE Woken
    BY <1>9, <2>1, <2>3 DEF EnterLoop, Goto, WillWake, Asleep, At
  <2> QED BY <2>1, <2>2, <2>3 DEF WakeAccounting
<1>10. ASSUME NEW w \in Workers, LeaveLoop(w) PROVE Woken
  <2>1. v \in Threads /\ funcs # <<>> /\ pc[v] \in Asleep
    BY <1>10 DEF LeaveLoop, Goto, Asleep
  <2>2. CASE wakeThread[v]
    BY <1>10, <2>1, <2>2 DEF LeaveLoop, Goto, Asleep
  <2>3. ASSUME NEW b \in Actors, WillWake(b, v) PROVE Woken
    BY <1>10, <2>1, <2>3 DEF LeaveLoop, Goto, WillWake, Asleep, At
  <2> QED BY <2>1, <2>2, <2>3 DEF WakeAccounting
<1>11. ASSUME NEW w \in Workers, LockQueue(w) PROVE Woken
  <2>1. v \in Threads /\ funcs # <<>> /\ pc[v] \in Asleep
    BY <1>11 DEF LockQueue, Goto, Asleep
  <2>2. CASE wakeThread[v]
    BY <1>11, <2>1, <2>2 DEF LockQueue, Goto, Asleep
  <2>3. ASSUME NEW b \in Actors, WillWake(b, v) PROVE Woken
    BY <1>11, <2>1, <2>3 DEF LockQueue, Goto, WillWake, Asleep, At
  <2> QED BY <2>1, <2>2, <2>3 DEF WakeAccounting
<1>12. ASSUME NEW w \in Workers, FindJob(w) PROVE Woken
  <2>1. v \in Threads /\ funcs # <<>> /\ pc[v] \in Asleep
    BY <1>12 DEF FindJob, Goto, Asleep
  <2>2. CASE wakeThread[v]
    BY <1>12, <2>1, <2>2 DEF FindJob, Goto, Asleep
  <2>3. ASSUME NEW b \in Actors, WillWake(b, v) PROVE Woken
    BY <1>12, <2>1, <2>3 DEF FindJob, Goto, WillWake, Asleep, At
  <2> QED BY <2>1, <2>2, <2>3 DEF WakeAccounting
<1>13. ASSUME NEW w \in Workers, FindNoJob(w) PROVE Woken
  BY <1>13 DEF FindNoJob, Goto, Asleep
<1>14. ASSUME NEW w \in Workers, PopJob(w) PROVE Woken
  <2>1. v \in Threads /\ funcs # <<>> /\ pc[v] \in Asleep
    BY <1>14 DEF PopJob, Goto, Asleep
  <2>2. CASE wakeThread[v]
    BY <1>14, <2>1, <2>2 DEF PopJob, Goto, Asleep
  <2>3. ASSUME NEW b \in Actors, WillWake(b, v) PROVE Woken
    BY <1>14, <2>1, <2>3 DEF PopJob, Goto, WillWake, Asleep, At
  <2> QED BY <2>1, <2>2, <2>3 DEF WakeAccounting
<1>15. ASSUME NEW w \in Workers, FinishJob(w) PROVE Woken
  <2>1. v \in Threads /\ funcs # <<>> /\ pc[v] \in Asleep
    BY <1>15 DEF FinishJob, Goto, Asleep
  <2>2. CASE wakeThread[v]
    BY <1>15, <2>1, <2>2 DEF FinishJob, Goto, Asleep
  <2>3. ASSUME NEW b \in Actors, WillWake(b, v) PROVE Woken
    BY <1>15, <2>1, <2>3 DEF FinishJob, Goto, WillWake, Asleep, At
  <2> QED BY <2>1, <2>2, <2>3 DEF WakeAccounting
<1>16. ASSUME NEW w \in Workers, TestWake(w) PROVE Woken
  <2>1. v \in Threads /\ funcs # <<>> /\ pc[v] \in Asleep
    BY <1>16 DEF TestWake, Goto, Asleep
  <2>2. CASE wakeThread[v]
    BY <1>16, <2>1, <2>2 DEF TestWake, Goto, Asleep
  <2>3. ASSUME NEW b \in Actors, WillWake(b, v) PROVE Woken
    BY <1>16, <2>1, <2>3 DEF TestWake, Goto, WillWake, Asleep, At
  <2> QED BY <2>1, <2>2, <2>3 DEF WakeAccounting
<1>17. ASSUME NEW w \in Workers, Block(w) PROVE Woken
  <2>1. v \in Threads /\ funcs # <<>> /\ pc[v] \in Asleep
    BY <1>17 DEF Block, Goto, Asleep
  <2>2. CASE wakeThread[v]
    BY <1>17, <2>1, <2>2 DEF Block, Goto, Asleep
  <2>3. ASSUME NEW b \in Actors, WillWake(b, v) PROVE Woken
    BY <1>17, <2>1, <2>3 DEF Block, Goto, WillWake, Asleep, At
  <2> QED BY <2>1, <2>2, <2>3 DEF WakeAccounting
<1>18. ASSUME NEW w \in Workers, SpuriousWakeup(w) PROVE Woken
  <2>1. v \in Threads /\ funcs # <<>> /\ pc[v] \in Asleep
    BY <1>18 DEF SpuriousWakeup, Goto, Asleep
  <2>2. CASE wakeThread[v]
    BY <1>18, <2>1, <2>2 DEF SpuriousWakeup, Goto, Asleep
  <2>3. ASSUME NEW b \in Actors, WillWake(b, v) PROVE Woken
    BY <1>18, <2>1, <2>3 DEF SpuriousWakeup, Goto, WillWake, Asleep, At
  <2> QED BY <2>1, <2>2, <2>3 DEF WakeAccounting
<1>19. ASSUME NEW w \in Workers, ResetWake(w) PROVE Woken
  <2>1. v \in Threads /\ funcs # <<>> /\ pc[v] \in Asleep
    BY <1>19 DEF ResetWake, Goto, Asleep
  <2>2. CASE wakeThread[v]
    BY <1>19, <2>1, <2>2 DEF ResetWake, Goto, Asleep
  <2>3. ASSUME NEW b \in Actors, WillWake(b, v) PROVE Woken
    BY <1>19, <2>1, <2>3 DEF ResetWake, Goto, WillWake, Asleep, At
  <2> QED BY <2>1, <2>2, <2>3 DEF WakeAccounting
<1>20. ASSUME Initialize PROVE Woken
  BY <1>20 DEF Initialize, Goto, Asleep
<1>21. ASSUME NEW w \in Workers, StartWorker(w) PROVE Woken
  BY <1>21 DEF StartWorker, Goto, SpawnSafe, Asleep
<1>22. ASSUME NEW w \in Workers, PushWorker(w) PROVE Woken
  BY <1>22 DEF PushWorker, Goto, SpawnSafe, Asleep
<1>23. ASSUME SpawnDone PROVE Woken
  <2>1. v \in Threads /\ funcs # <<>> /\ pc[v] \in Asleep
    BY <1>23 DEF SpawnDone, Goto, Asleep
  <2>2. CASE wakeThread[v]
    BY <1>23, <2>1, <2>2 DEF SpawnDone, Goto, Asleep
  <2>3. ASSUME NEW b \in Actors, WillWake(b, v) PROVE Woken
    BY <1>23, <2>1, <2>3 DEF SpawnDone, Goto, WillWake, Asleep, At
  <2> QED BY <2>1, <2>2, <2>3 DEF WakeAccounting
<1>24. ASSUME Shutdown PROVE Woken
  <2>1. v \in Threads /\ funcs # <<>> /\ pc[v] \in Asleep
    BY <1>24 DEF Shutdown, Goto, Asleep
  <2>2. CASE wakeThread[v]
    BY <1>24, <2>1, <2>2 DEF Shutdown, Goto, Asleep
  <2>3. ASSUME NEW b \in Actors, WillWake(b, v) PROVE Woken
    BY <1>24, <2>1, <2>3 DEF Shutdown, Goto, WillWake, Asleep, At
  <2> QED BY <2>1, <2>2, <2>3 DEF WakeAccounting
<1>25. ASSUME NEW w \in Workers, SetQuitting(w) PROVE Woken
  <2>1. v \in Threads /\ funcs # <<>> /\ pc[v] \in Asleep
    BY <1>25 DEF SetQuitting, Goto, Asleep
  <2>2. CASE wakeThread[v]
    BY <1>25, <2>1, <2>2 DEF SetQuitting, Goto, Asleep
  <2>3. ASSUME NEW b \in Actors, WillWake(b, v) PROVE Woken
    BY <1>25, <2>1, <2>3 DEF SetQuitting, Goto, WillWake, Asleep, At
  <2> QED BY <2>1, <2>2, <2>3 DEF WakeAccounting
<1>26. ASSUME QuitDone PROVE Woken
  <2>1. v \in Threads /\ funcs # <<>> /\ pc[v] \in Asleep
    BY <1>26 DEF QuitDone, Goto, Asleep
  <2>2. CASE wakeThread[v]
    BY <1>26, <2>1, <2>2 DEF QuitDone, Goto, Asleep
  <2>3. ASSUME NEW b \in Actors, WillWake(b, v) PROVE Woken
    BY <1>26, <2>1, <2>3 DEF QuitDone, Goto, WillWake, Asleep
  <2> QED BY <2>1, <2>2, <2>3 DEF WakeAccounting
<1>27. ASSUME WakeDone PROVE Woken
  <2>1. v \in Threads /\ funcs # <<>> /\ pc[v] \in Asleep
    BY <1>27 DEF WakeDone, Goto, Asleep
  <2>2. CASE wakeThread[v]
    BY <1>27, <2>1, <2>2 DEF WakeDone, Goto, Asleep
  <2>3. ASSUME NEW b \in Actors, WillWake(b, v) PROVE Woken
    BY <1>27, <2>1, <2>3 DEF WakeDone, Goto, WillWake, Asleep, At
  <2> QED BY <2>1, <2>2, <2>3 DEF WakeAccounting
<1>28. ASSUME NEW w \in Workers, JoinWorker(w) PROVE Woken
  <2>1. v \in Threads /\ funcs # <<>> /\ pc[v] \in Asleep
    BY <1>28 DEF JoinWorker, Goto, Asleep
  <2>2. CASE wakeThread[v]
    BY <1>28, <2>1, <2>2 DEF JoinWorker, Goto, Asleep
  <2>3. ASSUME NEW b \in Actors, WillWake(b, v) PROVE Woken
    BY <1>28, <2>1, <2>3 DEF JoinWorker, Goto, WillWake, Asleep, At
  <2> QED BY <2>1, <2>2, <2>3 DEF WakeAccounting
<1>29. ASSUME JoinDone PROVE Woken
  <2>1. v \in Threads /\ funcs # <<>> /\ pc[v] \in Asleep
    BY <1>29 DEF JoinDone, Goto, Asleep
  <2>2. CASE wakeThread[v]
    BY <1>29, <2>1, <2>2 DEF JoinDone, Goto, Asleep
  <2>3. ASSUME NEW b \in Actors, WillWake(b, v) PROVE Woken
    BY <1>29, <2>1, <2>3 DEF JoinDone, Goto, WillWake, Asleep, At
  <2> QED BY <2>1, <2>2, <2>3 DEF WakeAccounting
<1>30. ASSUME NEW w \in Workers, ReapWorker(w) PROVE Woken
  BY <1>30 DEF ReapWorker, Goto, ReapSafe, Asleep
<1>31. ASSUME ReapDone PROVE Woken
  <2>1. v \in Threads /\ funcs # <<>> /\ pc[v] \in Asleep
    BY <1>31 DEF ReapDone, Goto, Asleep
  <2>2. CASE wakeThread[v]
    BY <1>31, <2>1, <2>2 DEF ReapDone, Goto, Asleep
  <2>3. ASSUME NEW b \in Actors, WillWake(b, v) PROVE Woken
    BY <1>31, <2>1, <2>3 DEF ReapDone, Goto, WillWake, Asleep, At
  <2> QED BY <2>1, <2>2, <2>3 DEF WakeAccounting
<1>32. CASE UNCHANGED vars
  BY <1>32 DEF vars, WakeAccounting, WillWake, At
<1> QED
  BY <1>1, <1>2, <1>3, <1>4, <1>5, <1>6, <1>7, <1>8, <1>9, <1>10, <1>11, <1>12,
       <1>13, <1>14, <1>15, <1>16, <1>17, <1>18, <1>19, <1>20, <1>21, <1>22,
       <1>23, <1>24, <1>25, <1>26, <1>27, <1>28, <1>29, <1>30, <1>31, <1>32 DEF
       Next, CallStep, WorkerStep, OwnerStep, Application

(* No step erases the wakeup of a worker told to quit before the worker    *)
(* has looked at quitting again.                                           *)
LEMMA QuitStep == EngineInv /\ QuitAccounting /\ [Next]_vars => QuitAccounting'
<1> SUFFICES ASSUME EngineInv, QuitAccounting, [Next]_vars PROVE QuitAccounting'
  OBVIOUS
<1> USE Constants DEF EngineInv, ListSafe, TypeOK, ControlOK, SpawnSafe,
     EmptySafe, ListInv, LockDiscipline, WillWake, At, Asleep, InJob, InSubmit,
     WorkerPCs, OwnerPCs, queues, flags, work, owner
<1>1. ASSUME NEW a \in Actors, NEW j \in Jobs, AddQueue(a, j) PROVE QuitAccounting'
  BY <1>1 DEF AddQueue, Goto, QuitAccounting
<1>2. ASSUME NEW a \in Actors, Submit(a) PROVE QuitAccounting'
  BY <1>2 DEF Submit, Goto, QuitAccounting
<1>3. ASSUME NEW a \in Actors, SubmitLock(a) PROVE QuitAccounting'
  BY <1>3 DEF SubmitLock, Goto, QuitAccounting
<1>4. ASSUME NEW a \in Actors, MoveJob(a) PROVE QuitAccounting'
  BY <1>4 DEF MoveJob, Goto, QuitAccounting
<1>5. ASSUME NEW a \in Actors, SubmitUnlock(a) PROVE QuitAccounting'
  BY <1>5 DEF SubmitUnlock, Goto, QuitAccounting
<1>6. ASSUME NEW a \in Actors, NEW w \in Workers, WakeSet(a, w) PROVE QuitAccounting'
  BY <1>6 DEF WakeSet, Goto, QuitAccounting
<1>7. ASSUME NEW a \in Actors, NEW w \in Workers, WakeNotify(a, w) PROVE QuitAccounting'
  BY <1>7 DEF WakeNotify, Goto, QuitAccounting
<1>8. ASSUME NEW a \in Actors, SubmitReturn(a) PROVE QuitAccounting'
  BY <1>8 DEF SubmitReturn, Goto, QuitAccounting
<1>9. ASSUME NEW w \in Workers, EnterLoop(w) PROVE QuitAccounting'
  BY <1>9 DEF EnterLoop, Goto, QuitAccounting
<1>10. ASSUME NEW w \in Workers, LeaveLoop(w) PROVE QuitAccounting'
  BY <1>10 DEF LeaveLoop, Goto, QuitAccounting
<1>11. ASSUME NEW w \in Workers, LockQueue(w) PROVE QuitAccounting'
  BY <1>11 DEF LockQueue, Goto, QuitAccounting
<1>12. ASSUME NEW w \in Workers, FindJob(w) PROVE QuitAccounting'
  BY <1>12 DEF FindJob, Goto, QuitAccounting
<1>13. ASSUME NEW w \in Workers, FindNoJob(w) PROVE QuitAccounting'
  BY <1>13 DEF FindNoJob, Goto, QuitAccounting
<1>14. ASSUME NEW w \in Workers, PopJob(w) PROVE QuitAccounting'
  BY <1>14 DEF PopJob, Goto, QuitAccounting
<1>15. ASSUME NEW w \in Workers, FinishJob(w) PROVE QuitAccounting'
  BY <1>15 DEF FinishJob, Goto, QuitAccounting
<1>16. ASSUME NEW w \in Workers, TestWake(w) PROVE QuitAccounting'
  BY <1>16 DEF TestWake, Goto, QuitAccounting
<1>17. ASSUME NEW w \in Workers, Block(w) PROVE QuitAccounting'
  BY <1>17 DEF Block, Goto, QuitAccounting
<1>18. ASSUME NEW w \in Workers, SpuriousWakeup(w) PROVE QuitAccounting'
  BY <1>18 DEF SpuriousWakeup, Goto, QuitAccounting
<1>19. ASSUME NEW w \in Workers, ResetWake(w) PROVE QuitAccounting'
  BY <1>19 DEF ResetWake, Goto, QuitAccounting
<1>20. ASSUME Initialize PROVE QuitAccounting'
  BY <1>20 DEF Initialize, Goto, QuitAccounting
<1>21. ASSUME NEW w \in Workers, StartWorker(w) PROVE QuitAccounting'
  BY <1>21 DEF StartWorker, Goto, QuitAccounting
<1>22. ASSUME NEW w \in Workers, PushWorker(w) PROVE QuitAccounting'
  BY <1>22 DEF PushWorker, Goto, QuitAccounting
<1>23. ASSUME SpawnDone PROVE QuitAccounting'
  BY <1>23 DEF SpawnDone, Goto, QuitAccounting
<1>24. ASSUME Shutdown PROVE QuitAccounting'
  BY <1>24 DEF Shutdown, Goto, QuitAccounting
<1>25. ASSUME NEW w \in Workers, SetQuitting(w) PROVE QuitAccounting'
  BY <1>25 DEF SetQuitting, Goto, QuitAccounting
<1>26. ASSUME QuitDone PROVE QuitAccounting'
  BY <1>26 DEF QuitDone, Goto, QuitAccounting
<1>27. ASSUME WakeDone PROVE QuitAccounting'
  BY <1>27 DEF WakeDone, Goto, QuitAccounting
<1>28. ASSUME NEW w \in Workers, JoinWorker(w) PROVE QuitAccounting'
  BY <1>28 DEF JoinWorker, Goto, QuitAccounting
<1>29. ASSUME JoinDone PROVE QuitAccounting'
  BY <1>29 DEF JoinDone, Goto, QuitAccounting
<1>30. ASSUME NEW w \in Workers, ReapWorker(w) PROVE QuitAccounting'
  BY <1>30 DEF ReapWorker, Goto, QuitAccounting
<1>31. ASSUME ReapDone PROVE QuitAccounting'
  BY <1>31 DEF ReapDone, Goto, QuitAccounting
<1>32. CASE UNCHANGED vars
  BY <1>32 DEF vars, QuitAccounting
<1> QED
  BY <1>1, <1>2, <1>3, <1>4, <1>5, <1>6, <1>7, <1>8, <1>9, <1>10, <1>11, <1>12,
       <1>13, <1>14, <1>15, <1>16, <1>17, <1>18, <1>19, <1>20, <1>21, <1>22,
       <1>23, <1>24, <1>25, <1>26, <1>27, <1>28, <1>29, <1>30, <1>31, <1>32 DEF
       Next, CallStep, WorkerStep, OwnerStep, Application

-----------------------------------------------------------------------------
(* A ThreadHandler that was just constructed, with no worker started yet.  *)
LEMMA EngineInit == Init => EngineInv /\ WakeAccounting /\ QuitAccounting
<1> SUFFICES ASSUME Init PROVE EngineInv /\ WakeAccounting /\ QuitAccounting
  OBVIOUS
<1> USE Constants DEF Init
<1>1. TypeOK
  <2>1. funcs \in Seq(Jobs) /\ threadQueue \in [Actors -> Seq(Jobs)]
    OBVIOUS
  <2>2. wakeThread \in [Workers -> BOOLEAN] /\ quitting \in [Workers -> BOOLEAN]
    OBVIOUS
  <2>3. pc \in [Actors -> WorkerPCs \cup OwnerPCs]
    BY DEF WorkerPCs, OwnerPCs
  <2>4. phase \in [Jobs -> Phases]
    BY DEF Phases
  <2>5. inits \in 0 .. MaxInits
    BY InitsAssumption
  <2> QED
    BY <2>1, <2>2, <2>3, <2>4, <2>5 DEF TypeOK
<1>2. ControlOK /\ ListInv
  BY DEF ControlOK, ListInv, WorkerPCs, OwnerPCs
<1>3. LockDiscipline
  BY DEF LockDiscipline
<1>4. ListSafe
  BY DEF ListSafe, SpawnSafe, ReapSafe, EmptySafe, WalkSafe
<1>5. WakeAccounting /\ QuitAccounting
  BY DEF WakeAccounting, QuitAccounting
<1> QED
  BY <1>1, <1>2, <1>3, <1>4, <1>5 DEF EngineInv

(* The inductive invariant: types, program counters, the lock, the list.   *)
THEOREM EngineInvariant == Spec => []EngineInv
<1>1. Init => EngineInv
  BY EngineInit
<1>2. EngineInv /\ [Next]_vars => EngineInv'
  BY EngineStep
<1> QED
  BY <1>1, <1>2, PTL DEF Spec

(* Every variable keeps its type, for any number of CPUs and jobs. *)
THEOREM TypeCorrect == Spec => []TypeOK
<1>1. EngineInv => TypeOK
  BY DEF EngineInv
<1> QED
  BY <1>1, EngineInvariant, PTL

(* queueLock is held exactly by the one thread inside Submit's or Main's   *)
(* critical section (ThreadEngine.cpp:136-169 and 234-251).                *)
THEOREM MutualExclusion == Spec => []LockDiscipline
<1>1. EngineInv => LockDiscipline
  BY DEF EngineInv
<1> QED
  BY <1>1, EngineInvariant, PTL

(* The unlocked uses of Threads and funcs in Initialize, WakeThreads and   *)
(* Shutdown (ThreadEngine.cpp:70, 98-99, 110-113, 118-130) race with no    *)
(* other thread, and no worker is deleted under a walk over the list.      *)
THEOREM ListSafety == Spec => []ListSafe
<1>1. EngineInv => ListSafe
  BY DEF EngineInv
<1> QED
  BY <1>1, EngineInvariant, PTL

(* No worker sleeps on a false flag while jobs are queued that nobody is   *)
(* about to announce to it (ThreadEngine.cpp:169-172 and 203-214).         *)
THEOREM NoJobUnannounced == Spec => []WakeAccounting
<1>1. Init => EngineInv /\ WakeAccounting
  BY EngineInit
<1>2. (EngineInv /\ WakeAccounting) /\ [Next]_vars => (EngineInv /\ WakeAccounting)'
  BY EngineStep, WakeStep
<1> QED
  BY <1>1, <1>2, PTL DEF Spec

(* The wakeup JoinThreads gives a worker is not erased before the worker   *)
(* looks at quitting again (ThreadEngine.cpp:116-125, 203-208, 231).       *)
THEOREM NoQuitForgotten == Spec => []QuitAccounting
<1>1. Init => EngineInv /\ QuitAccounting
  BY EngineInit
<1>2. (EngineInv /\ QuitAccounting) /\ [Next]_vars => (EngineInv /\ QuitAccounting)'
  BY EngineStep, QuitStep
<1> QED
  BY <1>1, <1>2, PTL DEF Spec

=============================================================================
