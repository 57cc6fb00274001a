---------------------------- MODULE ThreadEngine ----------------------------
(***************************************************************************)
(* The thread pool of src/src/ThreadEngine.cpp (ThreadHandler and          *)
(* WorkerThread), one action per atomic step of the C++ code.              *)
(*                                                                         *)
(* The thread that owns the ThreadHandler is actor 0 (the code's own       *)
(* numbering, `threadid = 0'); the workers are actors 1..SpawnCount.       *)
(* pc[a] is where actor a stands:                                          *)
(*                                                                         *)
(*   "app"      application code: the owner's, or inside func()            *)
(*   "slock"    in Submit, before queueLock.lock()                         *)
(*   "move"     in Submit's loop, holding queueLock                        *)
(*   "wake"     in WakeThreads, before the next `wakeThread = true'        *)
(*   "notify"   between that assignment and cv.notify_all()                *)
(*   workers:   "unborn", "check", "lock", "test", "pop" (the steps of     *)
(*              Main), "wait", "block", "blocked", "reset" (of Sleep),     *)
(*              "exited"                                                   *)
(*   owner:     "spawn", "push" (Initialize), "quit", "join", "reap"       *)
(*              (Shutdown)                                                 *)
(*                                                                         *)
(* wakeThread is a plain bool written by Wake without the mutex m that     *)
(* Sleep holds: its accesses interleave one by one here.  The mutex m of   *)
(* a worker is taken by nobody but that worker, so it is not a variable.   *)
(* The Windows branches (_WIN32) are not modelled.                         *)
(***************************************************************************)
EXTENDS Integers, Sequences, FiniteSets

CONSTANTS
    HardwareConcurrency,  \* what std::thread::hardware_concurrency() returns
    Jobs,                 \* the closures the application binds, each of them once
    NoJob,                \* the value of func for a worker between two jobs
    MaxInits              \* bound: how many times the owner calls Initialize

ASSUME ConcurrencyAssumption == HardwareConcurrency \in Nat
ASSUME JobsAssumption == NoJob \notin Jobs
ASSUME InitsAssumption == MaxInits \in Nat

SpawnCount == IF HardwareConcurrency <= 1 THEN 2 ELSE 2 * HardwareConcurrency

Owner == 0
Workers == 1 .. SpawnCount
Actors == 0 .. SpawnCount
Nobody == -1

VARIABLES
    funcs,        \* the global job queue
    threadQueue,  \* actor -> its thread-local queue
    queueLock,    \* the actor that holds the global mutex, or Nobody
    Threads,      \* the workers in the handler's list (kept in ID order)
    wakeThread,   \* worker -> its wake flag
    quitting,     \* worker -> its quit flag
    pc,           \* actor -> its program counter
    func,         \* worker -> the job it has popped, or NoJob
    iter,         \* actor -> the list elements its current loop has not passed
    stopping,     \* whether the owner is inside Shutdown
    phase,        \* job -> "fresh", "live", "finished" or "discarded"
    inits         \* how many times Initialize was called (see MaxInits)

queues == <<funcs, threadQueue>>
flags == <<wakeThread, quitting>>
work == <<func, phase>>
owner == <<stopping, inits>>
vars == <<queues, queueLock, Threads, flags, pc, work, iter, owner>>

WorkerPCs == {"unborn", "check", "lock", "test", "pop", "app", "slock", "move",
              "wake", "notify", "wait", "block", "blocked", "reset", "exited"}
OwnerPCs == {"app", "slock", "move", "wake", "notify", "spawn", "push", "quit",
             "join", "reap"}
Phases == {"fresh", "live", "finished", "discarded"}

Elems(s) == {s[i] : i \in DOMAIN s}

(* w is the element the loop of actor a is at: lists are in ID order. *)
At(a, w) == w \in iter[a] /\ \A v \in iter[a] : w <= v

(* The jobs of S are destroyed without having been run. *)
Discard(S) == phase' = [j \in Jobs |-> IF j \in S THEN "discarded" ELSE phase[j]]

Goto(a, label) == pc' = [pc EXCEPT ![a] = label]

Init ==
    /\ funcs = <<>>
    /\ threadQueue = [a \in Actors |-> <<>>]
    /\ queueLock = Nobody
    /\ Threads = {}
    /\ wakeThread = [w \in Workers |-> FALSE]
    /\ quitting = [w \in Workers |-> FALSE]
    /\ pc = [a \in Actors |-> IF a = Owner THEN "app" ELSE "unborn"]
    /\ func = [w \in Workers |-> NoJob]
    /\ iter = [a \in Actors |-> {}]
    /\ stopping = FALSE
    /\ phase = [j \in Jobs |-> "fresh"]
    /\ inits = 0

-----------------------------------------------------------------------------
(* ThreadHandler::AddQueue and ThreadHandler::Submit, from the owner or    *)
(* from a job.                                                             *)

AddQueue(a, j) ==
    /\ pc[a] = "app"
    /\ phase[j] = "fresh"
    /\ threadQueue' = [threadQueue EXCEPT ![a] = Append(@, j)]
    /\ phase' = [phase EXCEPT ![j] = "live"]
    /\ UNCHANGED <<funcs, queueLock, Threads, flags, pc, func, iter, owner>>

(* Submit(false) goes on to wait for the lock. *)
Submit(a) ==
    /\ pc[a] = "app"
    /\ Goto(a, "slock")
    /\ UNCHANGED <<queues, queueLock, Threads, flags, work, iter, owner>>

(* Submit(true) takes a free lock; on a held one it returns false and has  *)
(* changed nothing, which is a stuttering step.                            *)
SubmitLock(a) ==
    /\ pc[a] \in {"app", "slock"}
    /\ queueLock = Nobody
    /\ queueLock' = a
    /\ Goto(a, "move")
    /\ UNCHANGED <<queues, Threads, flags, work, iter, owner>>

(* Faulty variant: takes the newest job of the thread-local queue first. *)
MoveNewestJob(a) ==
    /\ pc[a] = "move"
    /\ threadQueue[a] # <<>>
    /\ LET n == Len(threadQueue[a]) IN
          /\ funcs' = Append(funcs, threadQueue[a][n])
          /\ threadQueue' = [threadQueue EXCEPT ![a] = SubSeq(@, 1, n - 1)]
    /\ UNCHANGED <<queueLock, Threads, flags, pc, work, iter, owner>>

MoveJob(a) ==
    /\ pc[a] = "move"
    /\ threadQueue[a] # <<>>
    /\ funcs' = Append(funcs, Head(threadQueue[a]))
    /\ threadQueue' = [threadQueue EXCEPT ![a] = Tail(@)]
    /\ UNCHANGED <<queueLock, Threads, flags, pc, work, iter, owner>>

(* Faulty variant: wakes the first worker of the list only. *)
SubmitWakesOne(a) ==
    /\ pc[a] = "move"
    /\ threadQueue[a] = <<>>
    /\ queueLock' = Nobody
    /\ iter' = [iter EXCEPT ![a] = {w \in Threads : \A v \in Threads : w <= v}]
    /\ Goto(a, "wake")
    /\ UNCHANGED <<queues, Threads, flags, work, owner>>

SubmitUnlock(a) ==
    /\ pc[a] = "move"
    /\ threadQueue[a] = <<>>
    /\ queueLock' = Nobody
    /\ iter' = [iter EXCEPT ![a] = Threads]
    /\ Goto(a, "wake")
    /\ UNCHANGED <<queues, Threads, flags, work, owner>>

-----------------------------------------------------------------------------
(* ThreadHandler::WakeThreads: WorkerThread::Wake on each list element.    *)

(* Faulty variant: notifies without having set the flag. *)
WakeWithoutFlag(a, w) ==
    /\ pc[a] = "wake"
    /\ At(a, w)
    /\ Goto(a, "notify")
    /\ UNCHANGED <<queues, queueLock, Threads, flags, work, iter, owner>>

WakeSet(a, w) ==
    /\ pc[a] = "wake"
    /\ At(a, w)
    /\ wakeThread' = [wakeThread EXCEPT ![w] = TRUE]
    /\ Goto(a, "notify")
    /\ UNCHANGED <<queues, queueLock, Threads, quitting, work, iter, owner>>

(* notify_all reaches only a thread that is already waiting on cv. *)
WakeNotify(a, w) ==
    /\ pc[a] = "notify"
    /\ At(a, w)
    /\ pc' = [pc EXCEPT ![a] = "wake",
                        ![w] = CASE w = a -> "wake"
                                 [] pc[w] = "blocked" -> "wait"
                                 [] OTHER -> pc[w]]
    /\ iter' = [iter EXCEPT ![a] = @ \ {w}]
    /\ UNCHANGED <<queues, queueLock, Threads, flags, work, owner>>

(* The loop ends: Submit returns true ... *)
SubmitReturn(a) ==
    /\ pc[a] = "wake"
    /\ iter[a] = {}
    /\ ~(a = Owner /\ stopping)
    /\ Goto(a, "app")
    /\ UNCHANGED <<queues, queueLock, Threads, flags, work, iter, owner>>

(* ... or JoinThreads goes on to its last loop. *)
WakeDone ==
    /\ pc[Owner] = "wake"
    /\ iter[Owner] = {}
    /\ stopping
    /\ iter' = [iter EXCEPT ![Owner] = Threads]
    /\ Goto(Owner, "join")
    /\ UNCHANGED <<queues, queueLock, Threads, flags, work, owner>>

-----------------------------------------------------------------------------
(* WorkerThread::Main and WorkerThread::Sleep.                             *)

EnterLoop(w) ==
    /\ pc[w] = "check"
    /\ ~quitting[w]
    /\ Goto(w, "lock")
    /\ UNCHANGED <<queues, queueLock, Threads, flags, work, iter, owner>>

(* A worker that leaves the loop takes its thread-local queue with it. *)
LeaveLoop(w) ==
    /\ pc[w] = "check"
    /\ quitting[w]
    /\ Goto(w, "exited")
    /\ Discard(Elems(threadQueue[w]))
    /\ threadQueue' = [threadQueue EXCEPT ![w] = <<>>]
    /\ UNCHANGED <<funcs, queueLock, Threads, flags, func, iter, owner>>

LockQueue(w) ==
    /\ pc[w] = "lock"
    /\ queueLock = Nobody
    /\ queueLock' = w
    /\ Goto(w, "test")
    /\ UNCHANGED <<queues, Threads, flags, work, iter, owner>>

FindJob(w) ==
    /\ pc[w] = "test"
    /\ funcs # <<>>
    /\ Goto(w, "pop")
    /\ UNCHANGED <<queues, queueLock, Threads, flags, work, iter, owner>>

(* Faulty variant: goes to sleep with queueLock held. *)
SleepWithLock(w) ==
    /\ pc[w] = "test"
    /\ funcs = <<>>
    /\ Goto(w, "wait")
    /\ UNCHANGED <<queues, queueLock, Threads, flags, work, iter, owner>>

FindNoJob(w) ==
    /\ pc[w] = "test"
    /\ funcs = <<>>
    /\ queueLock' = Nobody
    /\ Goto(w, "wait")
    /\ UNCHANGED <<queues, Threads, flags, work, iter, owner>>

(* Faulty variant: copies the front of the queue and leaves it there. *)
CopyJob(w) ==
    /\ pc[w] = "pop"
    /\ func' = [func EXCEPT ![w] = Head(funcs)]
    /\ queueLock' = Nobody
    /\ Goto(w, "app")
    /\ UNCHANGED <<queues, Threads, flags, iter, owner, phase>>

PopJob(w) ==
    /\ pc[w] = "pop"
    /\ func' = [func EXCEPT ![w] = Head(funcs)]
    /\ funcs' = Tail(funcs)
    /\ queueLock' = Nobody
    /\ Goto(w, "app")
    /\ UNCHANGED <<threadQueue, Threads, flags, iter, owner, phase>>

(* func() returns. *)
FinishJob(w) ==
    /\ w \in Workers
    /\ pc[w] = "app"
    /\ phase' = [phase EXCEPT ![func[w]] = "finished"]
    /\ func' = [func EXCEPT ![w] = NoJob]
    /\ Goto(w, "check")
    /\ UNCHANGED <<queues, queueLock, Threads, flags, iter, owner>>

(* The predicate of cv.wait; m is held from here until the thread waits. *)
TestWake(w) ==
    /\ pc[w] = "wait"
    /\ Goto(w, IF wakeThread[w] THEN "reset" ELSE "block")
    /\ UNCHANGED <<queues, queueLock, Threads, flags, work, iter, owner>>

Block(w) ==
    /\ pc[w] = "block"
    /\ Goto(w, "blocked")
    /\ UNCHANGED <<queues, queueLock, Threads, flags, work, iter, owner>>

(* std::condition_variable may return without a notification. *)
SpuriousWakeup(w) ==
    /\ pc[w] = "blocked"
    /\ Goto(w, "wait")
    /\ UNCHANGED <<queues, queueLock, Threads, flags, work, iter, owner>>

ResetWake(w) ==
    /\ pc[w] = "reset"
    /\ wakeThread' = [wakeThread EXCEPT ![w] = FALSE]
    /\ Goto(w, "check")
    /\ UNCHANGED <<queues, queueLock, Threads, quitting, work, iter, owner>>

-----------------------------------------------------------------------------
(* ThreadHandler::Initialize: called by the owner on a handler without     *)
(* workers.  It empties funcs without queueLock.                           *)

(* Faulty variant: the jobs an earlier Shutdown left are kept. *)
InitializeKeepsJobs ==
    /\ pc[Owner] = "app"
    /\ Threads = {}
    /\ inits < MaxInits
    /\ inits' = inits + 1
    /\ iter' = [iter EXCEPT ![Owner] = Workers]
    /\ Goto(Owner, "spawn")
    /\ UNCHANGED <<queues, queueLock, Threads, flags, work, stopping>>

(* Faulty variant: spawns from thread 0 on instead of thread 1. *)
InitializeFromZero ==
    /\ pc[Owner] = "app"
    /\ Threads = {}
    /\ inits < MaxInits
    /\ inits' = inits + 1
    /\ funcs' = <<>>
    /\ Discard(Elems(funcs))
    /\ iter' = [iter EXCEPT ![Owner] = 0 .. SpawnCount]
    /\ Goto(Owner, "spawn")
    /\ UNCHANGED <<threadQueue, queueLock, Threads, flags, func, stopping>>

Initialize ==
    /\ pc[Owner] = "app"
    /\ Threads = {}
    /\ inits < MaxInits
    /\ inits' = inits + 1
    /\ funcs' = <<>>
    /\ Discard(Elems(funcs))
    /\ iter' = [iter EXCEPT ![Owner] = Workers]
    /\ Goto(Owner, "spawn")
    /\ UNCHANGED <<threadQueue, queueLock, Threads, flags, func, stopping>>

(* The constructor of WorkerThread starts the thread ... *)
StartWorker(w) ==
    /\ pc[Owner] = "spawn"
    /\ At(Owner, w)
    /\ wakeThread' = [wakeThread EXCEPT ![w] = FALSE]
    /\ quitting' = [quitting EXCEPT ![w] = FALSE]
    /\ pc' = [pc EXCEPT ![Owner] = "push", ![w] = "check"]
    /\ UNCHANGED <<queues, queueLock, Threads, work, iter, owner>>

(* ... before it puts it in the list. *)
PushWorker(w) ==
    /\ pc[Owner] = "push"
    /\ At(Owner, w)
    /\ Threads' = Threads \cup {w}
    /\ iter' = [iter EXCEPT ![Owner] = @ \ {w}]
    /\ Goto(Owner, "spawn")
    /\ UNCHANGED <<queues, queueLock, flags, work, owner>>

SpawnDone ==
    /\ pc[Owner] = "spawn"
    /\ iter[Owner] = {}
    /\ Goto(Owner, "app")
    /\ UNCHANGED <<queues, queueLock, Threads, flags, work, iter, owner>>

-----------------------------------------------------------------------------
(* ThreadHandler::Shutdown with JoinThreads; also the destructor.          *)

Shutdown ==
    /\ pc[Owner] = "app"
    /\ stopping' = TRUE
    /\ iter' = [iter EXCEPT ![Owner] = Threads]
    /\ Goto(Owner, "quit")
    /\ UNCHANGED <<queues, queueLock, Threads, flags, work, inits>>

SetQuitting(w) ==
    /\ pc[Owner] = "quit"
    /\ At(Owner, w)
    /\ quitting' = [quitting EXCEPT ![w] = TRUE]
    /\ iter' = [iter EXCEPT ![Owner] = @ \ {w}]
    /\ UNCHANGED <<queues, queueLock, Threads, wakeThread, pc, work, owner>>

(* Faulty variant: joins without having woken the sleepers. *)
QuitWithoutWake ==
    /\ pc[Owner] = "quit"
    /\ iter[Owner] = {}
    /\ iter' = [iter EXCEPT ![Owner] = Threads]
    /\ Goto(Owner, "join")
    /\ UNCHANGED <<queues, queueLock, Threads, flags, work, owner>>

QuitDone ==
    /\ pc[Owner] = "quit"
    /\ iter[Owner] = {}
    /\ iter' = [iter EXCEPT ![Owner] = Threads]
    /\ Goto(Owner, "wake")
    /\ UNCHANGED <<queues, queueLock, Threads, flags, work, owner>>

JoinWorker(w) ==
    /\ pc[Owner] = "join"
    /\ At(Owner, w)
    /\ pc[w] = "exited"
    /\ iter' = [iter EXCEPT ![Owner] = @ \ {w}]
    /\ UNCHANGED <<queues, queueLock, Threads, flags, pc, work, owner>>

JoinDone ==
    /\ pc[Owner] = "join"
    /\ iter[Owner] = {}
    /\ iter' = [iter EXCEPT ![Owner] = Threads]
    /\ Goto(Owner, "reap")
    /\ UNCHANGED <<queues, queueLock, Threads, flags, work, owner>>

(* delete: the destructor takes the worker out of the list. *)
ReapWorker(w) ==
    /\ pc[Owner] = "reap"
    /\ At(Owner, w)
    /\ Threads' = Threads \ {w}
    /\ iter' = [iter EXCEPT ![Owner] = @ \ {w}]
    /\ Goto(w, "unborn")
    /\ UNCHANGED <<queues, queueLock, flags, work, owner>>

ReapDone ==
    /\ pc[Owner] = "reap"
    /\ iter[Owner] = {}
    /\ stopping' = FALSE
    /\ Goto(Owner, "app")
    /\ UNCHANGED <<queues, queueLock, Threads, flags, work, iter, inits>>

-----------------------------------------------------------------------------
(* The steps an actor takes inside a call it has made, and the choices of  *)
(* the application.                                                        *)

CallStep(a) ==
    \/ pc[a] = "slock" /\ SubmitLock(a)
    \/ MoveJob(a)
    \/ SubmitUnlock(a)
    \/ \E w \in Workers : WakeSet(a, w) \/ WakeNotify(a, w)
    \/ SubmitReturn(a)

WorkerStep(w) ==
    \/ EnterLoop(w)
    \/ LeaveLoop(w)
    \/ LockQueue(w)
    \/ FindJob(w)
    \/ FindNoJob(w)
    \/ PopJob(w)
    \/ TestWake(w)
    \/ Block(w)
    \/ ResetWake(w)

OwnerStep ==
    \/ \E w \in Workers : StartWorker(w) \/ PushWorker(w)
    \/ SpawnDone
    \/ \E w \in Workers : SetQuitting(w) \/ JoinWorker(w) \/ ReapWorker(w)
    \/ QuitDone
    \/ WakeDone
    \/ JoinDone
    \/ ReapDone

Application ==
    \/ \E a \in Actors : Submit(a) \/ (pc[a] = "app" /\ SubmitLock(a))
    \/ \E a \in Actors, j \in Jobs : AddQueue(a, j)
    \/ Initialize
    \/ Shutdown

Next ==
    \/ \E a \in Actors : CallStep(a)
    \/ \E w \in Workers : WorkerStep(w) \/ FinishJob(w) \/ SpuriousWakeup(w)
    \/ OwnerStep
    \/ Application

Spec == Init /\ [][Next]_vars

(***************************************************************************)
(* The operating system keeps running every thread that can run, and a     *)
(* job makes finitely many calls before it returns.  The application may   *)
(* stop calling the engine at any time, and no spurious wakeup is owed.    *)
(* A mutex that others keep taking may starve a thread: its acquisition    *)
(* is only weakly fair.                                                    *)
(***************************************************************************)
Fairness ==
    /\ \A a \in Actors : WF_vars(CallStep(a))
    /\ \A w \in Workers : WF_vars(WorkerStep(w)) /\ SF_vars(FinishJob(w))
    /\ WF_vars(OwnerStep)

FairSpec == Spec /\ Fairness

-----------------------------------------------------------------------------
TypeOK ==
    /\ funcs \in Seq(Jobs)
    /\ threadQueue \in [Actors -> Seq(Jobs)]
    /\ queueLock \in Actors \cup {Nobody}
    /\ Threads \subseteq Workers
    /\ wakeThread \in [Workers -> BOOLEAN]
    /\ quitting \in [Workers -> BOOLEAN]
    /\ pc \in [Actors -> WorkerPCs \cup OwnerPCs]
    /\ func \in [Workers -> Jobs \cup {NoJob}]
    /\ iter \in [Actors -> SUBSET Workers]
    /\ stopping \in BOOLEAN
    /\ phase \in [Jobs -> Phases]
    /\ inits \in 0 .. MaxInits

InSubmit == {"slock", "move", "wake", "notify"}
InJob == {"app"} \cup InSubmit
Asleep == {"wait", "block", "blocked"}

(* Actor a is going to set w's wake flag. *)
WillWake(a, w) ==
    \/ pc[a] = "move"
    \/ pc[a] = "wake" /\ w \in iter[a]
    \/ pc[a] = "notify" /\ w \in iter[a] /\ ~At(a, w)

(* Submit wakes the workers only after it has unlocked, and Sleep tests a  *)
(* flag it does not share a lock with: still, a worker that goes to sleep  *)
(* while jobs are queued has its flag set or about to be set.  (Whether    *)
(* it is also notified is another matter, see Lost.)                       *)
WakeAccounting ==
    \A w \in Threads :
        funcs # <<>> /\ pc[w] \in Asleep =>
            wakeThread[w] \/ \E a \in Actors : WillWake(a, w)

(* A worker told to quit, that has not looked at its quit flag since, will *)
(* not sleep on a false wake flag for ever: the reset in Sleep never       *)
(* erases the wakeup of JoinThreads before the worker re-reads quitting.   *)
QuitAccounting ==
    \A w \in Workers :
        quitting[w] /\ pc[w] \notin {"unborn", "check", "reset", "exited"} =>
            \/ wakeThread[w]
            \/ pc[Owner] = "quit"
            \/ WillWake(Owner, w)

(* The list of workers and funcs are used without queueLock in Initialize, *)
(* Shutdown and WakeThreads.  No thread is inside a critical section, a    *)
(* job or a walk over the list while the owner changes the list, and no    *)
(* walk holds an element that was deleted.                                 *)
SpawnSafe ==
    pc[Owner] \in {"spawn", "push"} =>
        funcs = <<>> /\ \A w \in Workers : pc[w] \notin InJob

ReapSafe == pc[Owner] = "reap" => \A w \in Workers : pc[w] \in {"exited", "unborn"}

EmptySafe == pc[Owner] = "app" /\ Threads = {} => \A w \in Workers : pc[w] = "unborn"

WalkSafe == \A a \in Actors : pc[a] \in {"wake", "notify"} => iter[a] \subseteq Threads

ListSafe == SpawnSafe /\ ReapSafe /\ EmptySafe /\ WalkSafe

(* queueLock is held exactly by the one actor inside a critical section. *)
LockDiscipline ==
    \A a \in Actors : pc[a] \in {"move", "test", "pop"} <=> queueLock = a

(* A job that was bound and neither finished nor discarded is in exactly   *)
(* one place (one slot of one queue, or one worker's local copy), and no   *)
(* other job is in any: no job runs twice, no job vanishes.                *)
Places(j) ==
    {<<Nobody, i>> : i \in {k \in DOMAIN funcs : funcs[k] = j}}
    \cup (UNION {{<<a, i>> : i \in {k \in DOMAIN threadQueue[a] : threadQueue[a][k] = j}}
                 : a \in Actors})
    \cup {<<w, 0>> : w \in {v \in Workers : func[v] = j}}

JobConservation ==
    \A j \in Jobs : Cardinality(Places(j)) = IF phase[j] = "live" THEN 1 ELSE 0

-----------------------------------------------------------------------------
(* What makes the properties above inductive.                              *)

(* Each thread is in its own code; a worker about to pop has a job to pop. *)
ControlOK ==
    /\ pc[Owner] \in OwnerPCs
    /\ \A w \in Workers : pc[w] \in WorkerPCs
    /\ \A w \in Workers : pc[w] = "pop" => funcs # <<>>

(* The list holds every started worker but the one under construction;     *)
(* Initialize's loop has what is not in the list yet; JoinThreads has      *)
(* joined the workers its loop has passed.                                 *)
ListInv ==
    /\ \A w \in Workers : pc[w] # "unborn" =>
          w \in Threads \/ (pc[Owner] = "push" /\ At(Owner, w))
    /\ pc[Owner] \in {"spawn", "push"} =>
          iter[Owner] \cap Threads = {} /\ \A w \in Workers : pc[w] # "pop"
    /\ pc[Owner] = "join" => \A w \in Threads \ iter[Owner] : pc[w] = "exited"

(* The inductive invariant behind the theorems of ThreadEngine_proofs. *)
EngineInv == TypeOK /\ ControlOK /\ LockDiscipline /\ ListInv /\ ListSafe

-----------------------------------------------------------------------------
(* The engine implements JobPool.  Submit takes effect when it gets the    *)
(* lock: from then on what its thread-local queue still holds is abstractly*)
(* at the end of the shared queue, which nobody else can touch.            *)
Moving == {a \in Actors : pc[a] = "move"}

PoolQueue == IF Moving = {} THEN funcs
             ELSE funcs \o threadQueue[CHOOSE a \in Moving : TRUE]

PoolLocal == [a \in Actors |-> IF a \in Moving THEN <<>> ELSE threadQueue[a]]

PoolOpen == \/ pc[Owner] \in {"spawn", "push"}
            \/ Threads # {} /\ pc[Owner] # "reap"

Pool == INSTANCE JobPool WITH
            open <- PoolOpen, local <- PoolLocal, queue <- PoolQueue,
            running <- func

(* Every behaviour of the engine is one of JobPool: a Submit is atomic and *)
(* keeps its order, jobs leave in the order they were queued, a worker     *)
(* runs what it took before it takes more, and no job is taken or bound    *)
(* by a worker once Shutdown has joined them.                              *)
ImplementsJobPool == Pool!Spec

-----------------------------------------------------------------------------
(* The notification of w came before w waited on cv (Wake does not take m):*)
(* its flag is set, nobody is about to notify it, and it is blocked.       *)
Lost(w) ==
    /\ pc[w] = "blocked"
    /\ wakeThread[w]
    /\ \A a \in Actors : pc[a] \in {"wake", "notify"} => w \notin iter[a]

(* A call of Shutdown comes to its end, unless the wakeup of a worker was  *)
(* lost between the predicate and the wait of Sleep: that window is the    *)
(* only thing that can hang it.                                            *)
ShutdownEndsOrLost == stopping ~> (~stopping \/ \E w \in Workers : Lost(w))

(* The owner's Submit returns, whatever the workers do with the lock. *)
OwnerSubmitReturns ==
    (pc[Owner] \in InSubmit /\ ~stopping) ~> (pc[Owner] = "app")

(* If the owner at last stops calling the engine and leaves it running,    *)
(* every job in funcs is taken, unless the wakeup of every worker is lost. *)
QueuedJobsTaken ==
    <>[](pc[Owner] = "app" /\ Threads # {}) =>
        \A j \in Jobs :
            j \in Elems(funcs) ~> (j \notin Elems(funcs) \/ \A w \in Workers : Lost(w))

-----------------------------------------------------------------------------
(* What the comments claim and the code does not do (see README.md).       *)

(* ThreadEngine.cpp:107-109: Shutdown wakes all threads and joins them. *)
ShutdownEnds == stopping ~> ~stopping

=============================================================================
