------------------------------- MODULE Events -------------------------------
(***************************************************************************)
(* FOREACH_MOD and FOREACH_RESULT of include/ModuleAnnounce.h: a thread    *)
(* calls the handler of an event in every module of a vector, by iterator, *)
(* under the mutex eventmux.  The iterator of the next module is saved     *)
(* before the call.  EventHandlers belongs to modules outside src/ and is  *)
(* a vector from which a handler may remove modules, or add some.          *)
(*                                                                         *)
(* Only the holder of eventmux walks, so there is one walk: `walk' says    *)
(* where it is and `_i' is the iterator, as an index.  Undefined are the   *)
(* use of an iterator whose buffer push_back moved and, by what the build  *)
(* does with a pointer, one that an erase left past the end.               *)
(***************************************************************************)
EXTENDS Naturals, Sequences, SequencesExt

CONSTANTS
    Threads,         \* threads that announce events
    NoThread,        \* eventmux is free
    EventModules,    \* modules that may handle the event
    HAVE_SETJMP_H    \* the build recovers from a segmentation fault

ASSUME EventsAssumption == NoThread \notin Threads /\ HAVE_SETJMP_H \in BOOLEAN

VARIABLES
    eventmux,        \* the thread that holds it
    EventHandlers,
    announcing,      \* thread -> "no", "MOD" or "RESULT", the macro it is in
    walk,            \* "no", "loop", "call", "end", "stuck", "undefined"
    _i,
    v,               \* the result of FOREACH_RESULT
    moved,           \* push_back moved the buffer during this call
    spoiled,         \* the mutex is not going to be released any more
    called,          \* history: modules called by this walk, in order
    shifted          \* history: a module called by this walk has left the vector

EventVars == <<eventmux, EventHandlers, announcing, walk, _i, v, moved, spoiled,
               called, shifted>>

EventInit ==
    /\ eventmux = NoThread
    /\ EventHandlers = <<>>
    /\ announcing = [t \in Threads |-> "no"]
    /\ walk = "no" /\ _i = 1 /\ v = "CONTINUE"
    /\ moved = FALSE /\ spoiled = FALSE
    /\ called = <<>> /\ shifted = FALSE

-----------------------------------------------------------------------------
Announce(t, macro) ==
    /\ announcing[t] = "no" /\ ~spoiled
    /\ announcing' = [announcing EXCEPT ![t] = macro]
    /\ UNCHANGED <<eventmux, EventHandlers, walk, _i, v, moved, spoiled, called, shifted>>

(* eventmux.lock() and the start of the loop. *)
LockAndBegin(t) ==
    /\ announcing[t] # "no" /\ eventmux = NoThread
    /\ eventmux' = t
    /\ walk' = "loop" /\ _i' = 1 /\ v' = "CONTINUE"
    /\ UNCHANGED <<EventHandlers, announcing, moved, spoiled, called, shifted>>

(* A handler announces an event itself: std::mutex is not recursive. *)
LockAgain ==
    /\ walk = "call"
    /\ spoiled' = TRUE /\ walk' = "stuck"
    /\ UNCHANGED <<eventmux, EventHandlers, announcing, _i, v, moved, called, shifted>>

CallHandler ==
    /\ walk = "loop" /\ _i <= Len(EventHandlers)
    /\ walk' = "call"
    /\ called' = Append(called, EventHandlers[_i])
    /\ UNCHANGED <<eventmux, EventHandlers, announcing, _i, v, moved, spoiled, shifted>>

(* _i = safei, whatever happened to the vector since safei was saved. *)
Advance ==
    /\ _i' = _i + 1
    /\ walk' = IF moved \/ _i > Len(EventHandlers) THEN "undefined" ELSE "loop"
    /\ spoiled' = (walk' = "undefined")
    /\ moved' = FALSE
    /\ UNCHANGED <<eventmux, EventHandlers, announcing, v, called, shifted>>

HandlerReturns == walk = "call" /\ Advance

(* Faulty variant: an exception of one module ends the event. *)
HandlerThrowsBreak ==
    /\ walk = "call"
    /\ walk' = "end"
    /\ UNCHANGED <<eventmux, EventHandlers, announcing, _i, v, moved, spoiled,
                   called, shifted>>

(* ModuleException is caught and logged. *)
HandlerThrows == walk = "call" /\ Advance

(* SIGSEGV jumps to the setjmp of the call, which throws ModuleException.  *)
HandlerFaults == HAVE_SETJMP_H /\ walk = "call" /\ Advance

(* Faulty variant: a result leaves the macro instead of its loop. *)
HandlerStopsReturn ==
    /\ walk = "call" /\ announcing[eventmux] = "RESULT"
    /\ v' = "STOP"
    /\ walk' = "no"
    /\ announcing' = [announcing EXCEPT ![eventmux] = "no"]
    /\ UNCHANGED <<eventmux, EventHandlers, _i, moved, spoiled, called, shifted>>

(* FOREACH_RESULT: the first result that is not EVENT_CONTINUE ends it. *)
HandlerStops ==
    /\ walk = "call" /\ announcing[eventmux] = "RESULT"
    /\ v' = "STOP"
    /\ walk' = "end"
    /\ UNCHANGED <<eventmux, EventHandlers, announcing, _i, moved, spoiled, called,
                   shifted>>

(* Any other exception leaves the macro, with the mutex locked. *)
HandlerEscapes ==
    /\ walk = "call"
    /\ walk' = "no" /\ spoiled' = TRUE
    /\ announcing' = [announcing EXCEPT ![eventmux] = "no"]
    /\ UNCHANGED <<eventmux, EventHandlers, _i, v, moved, called, shifted>>

LoopEnds ==
    /\ walk = "loop" /\ _i > Len(EventHandlers)
    /\ walk' = "end"
    /\ UNCHANGED <<eventmux, EventHandlers, announcing, _i, v, moved, spoiled, called,
                   shifted>>

Unlock ==
    /\ walk = "end"
    /\ walk' = "no" /\ eventmux' = NoThread
    /\ announcing' = [announcing EXCEPT ![eventmux] = "no"]
    /\ _i' = 1 /\ v' = "CONTINUE"
    /\ moved' = FALSE /\ called' = <<>> /\ shifted' = FALSE
    /\ UNCHANGED <<EventHandlers, spoiled>>

(* A module joins or leaves the event: within a handler, or while no       *)
(* thread walks the vector.  (Of no interest once the mutex is lost.)      *)
Attach(m) ==
    /\ walk \in {"no", "call"} /\ ~spoiled
    /\ m \notin ToSet(EventHandlers)
    /\ EventHandlers' = Append(EventHandlers, m)
    /\ moved' \in IF walk = "call" THEN {moved, TRUE} ELSE {moved}
    /\ UNCHANGED <<eventmux, announcing, walk, _i, v, spoiled, called, shifted>>

Detach(k) ==
    /\ walk \in {"no", "call"} /\ ~spoiled
    /\ k \in DOMAIN EventHandlers
    /\ EventHandlers' = RemoveAt(EventHandlers, k)
    /\ shifted' = (shifted \/ (walk = "call" /\ k <= _i))
    /\ UNCHANGED <<eventmux, announcing, walk, _i, v, moved, spoiled, called>>

EventNext ==
    \/ \E t \in Threads :
          \/ \E macro \in {"MOD", "RESULT"} : Announce(t, macro)
          \/ LockAndBegin(t)
    \/ LockAgain
    \/ CallHandler \/ HandlerReturns \/ HandlerThrows \/ HandlerFaults
    \/ HandlerStops \/ HandlerEscapes \/ LoopEnds \/ Unlock
    \/ \E m \in EventModules : Attach(m)
    \/ \E k \in 1 .. Len(EventHandlers) : Detach(k)

EventSpec == EventInit /\ [][EventNext]_EventVars

(* A thread that holds the mutex goes on, and its handlers return. *)
EventFairness ==
    /\ WF_EventVars(CallHandler \/ LoopEnds \/ Unlock)
    /\ WF_EventVars(HandlerReturns)

-----------------------------------------------------------------------------
(* Whatever handlers throw, and whichever modules they add or remove       *)
(* behind the saved iterator, an event reaches every module of the vector  *)
(* once and in order, or up to the one whose result stopped it, and that   *)
(* result is the event's.  (ModuleAnnounce.h:46-66, :88-92)                *)
WalkComplete ==
    walk = "end" /\ ~shifted =>
       \/ v = "CONTINUE" /\ called = EventHandlers
       \/ v = "STOP" /\ called # <<>> /\ IsPrefix(called, EventHandlers)

(* eventmux is released again, unless a handler let an exception other     *)
(* than ModuleException through, announced an event itself, or changed the *)
(* vector so that the saved iterator is invalid.  (ModuleAnnounce.h:44)    *)
MutexReleased == eventmux # NoThread ~> (eventmux = NoThread \/ spoiled)

=============================================================================
