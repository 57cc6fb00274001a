------------------------------- MODULE JobPool -------------------------------
(***************************************************************************)
(* What the thread engine of libjustasic promises, without locks, wakeups  *)
(* or threads that sleep.  A job is bound by AddQueue into the queue of    *)
(* the thread that called it; Submit moves that whole queue, in its order  *)
(* and in one step, to the end of the shared queue; a worker takes the     *)
(* oldest shared job and runs it once.  A job is lost in exactly two       *)
(* ways: Initialize empties the shared queue, and a worker that exits      *)
(* drops what its own jobs bound and never submitted.                      *)
(*                                                                         *)
(* ThreadEngine.tla implements this specification (Pool!Spec there).       *)
(***************************************************************************)
EXTENDS Naturals, Sequences, FiniteSets

CONSTANTS
    Jobs,      \* the closures the application binds, each of them once
    NoJob,     \* the value of `running' for a worker between two jobs
    Workers,   \* the threads that take jobs
    Actors     \* every thread that may call AddQueue and Submit

VARIABLES
    open,      \* whether workers may take jobs: from Initialize to Shutdown
    local,     \* actor -> the jobs it has bound and not submitted
    queue,     \* the submitted jobs, oldest first
    running,   \* worker -> the job it is running, or NoJob
    phase      \* job -> where it is in its life

vars == <<open, local, queue, running, phase>>

Phases == {"fresh", "live", "finished", "discarded"}

Elems(s) == {s[i] : i \in DOMAIN s}

(* The jobs of S have left the pool without being run. *)
Discard(S) == phase' = [j \in Jobs |-> IF j \in S THEN "discarded" ELSE phase[j]]

-----------------------------------------------------------------------------
Init ==
    /\ open = FALSE
    /\ local = [a \in Actors |-> <<>>]
    /\ queue = <<>>
    /\ running = [w \in Workers |-> NoJob]
    /\ phase = [j \in Jobs |-> "fresh"]

(* A worker is in application code only while it runs a job. *)
InApplication(a) == a \in Workers => running[a] # NoJob

Bind(a, j) ==
    /\ InApplication(a)
    /\ phase[j] = "fresh"
    /\ local' = [local EXCEPT ![a] = Append(@, j)]
    /\ phase' = [phase EXCEPT ![j] = "live"]
    /\ UNCHANGED <<open, queue, running>>

Submit(a) ==
    /\ InApplication(a)
    /\ queue' = queue \o local[a]
    /\ local' = [local EXCEPT ![a] = <<>>]
    /\ UNCHANGED <<open, running, phase>>

Take(w) ==
    /\ open
    /\ running[w] = NoJob
    /\ queue # <<>>
    /\ running' = [running EXCEPT ![w] = Head(queue)]
    /\ queue' = Tail(queue)
    /\ UNCHANGED <<open, local, phase>>

Finish(w) ==
    /\ running[w] # NoJob
    /\ phase' = [phase EXCEPT ![running[w]] = "finished"]
    /\ running' = [running EXCEPT ![w] = NoJob]
    /\ UNCHANGED <<open, local, queue>>

(* A worker exits with its own queue. *)
Exit(w) ==
    /\ open
    /\ running[w] = NoJob
    /\ Discard(Elems(local[w]))
    /\ local' = [local EXCEPT ![w] = <<>>]
    /\ UNCHANGED <<open, queue, running>>

Open ==
    /\ ~open
    /\ open' = TRUE
    /\ Discard(Elems(queue))
    /\ queue' = <<>>
    /\ UNCHANGED <<local, running>>

(* Nothing runs any more; what is still queued stays queued, unprocessed. *)
Close ==
    /\ open
    /\ \A w \in Workers : running[w] = NoJob /\ local[w] = <<>>
    /\ open' = FALSE
    /\ UNCHANGED <<local, queue, running, phase>>

Next ==
    \/ Open
    \/ Close
    \/ \E a \in Actors : Submit(a) \/ \E j \in Jobs : Bind(a, j)
    \/ \E w \in Workers : Take(w) \/ Finish(w) \/ Exit(w)

Spec == Init /\ [][Next]_vars

-----------------------------------------------------------------------------
TypeOK ==
    /\ open \in BOOLEAN
    /\ local \in [Actors -> Seq(Jobs)]
    /\ queue \in Seq(Jobs)
    /\ running \in [Workers -> Jobs \cup {NoJob}]
    /\ phase \in [Jobs -> Phases]

=============================================================================
