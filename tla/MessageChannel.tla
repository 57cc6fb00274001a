--------------------------- MODULE MessageChannel ---------------------------
(***************************************************************************)
(* The message listeners of src/src/MessageChannel.c: one vector of        *)
(* function pointers and no lock.  AnnounceMessage walks the vector by     *)
(* index and reads its length again before every call, so what a listener  *)
(* registers or removes while it is being called changes the walks that    *)
(* are under way.  Registering and removing are themselves announced, and  *)
(* any listener may veto them by returning false.                          *)
(*                                                                         *)
(* The C stack is `stack', innermost call last: one frame per              *)
(* AnnounceMessage that has not returned, with the call it serves (op).    *)
(***************************************************************************)
EXTENDS Naturals, Sequences, FiniteSets, SequencesExt

CONSTANTS
    Listeners,   \* the functions that may be registered
    NoListener,  \* the argument of a call that has none
    MaxDepth,    \* bound: AnnounceMessage calls nested in each other
    MaxLen       \* bound: registrations at a time

ASSUME ListenersAssumption == IsFiniteSet(Listeners) /\ NoListener \notin Listeners
ASSUME BoundsAssumption == MaxDepth \in Nat /\ MaxLen \in Nat

VARIABLES
    callbacks,   \* the vector of registered listeners
    stack        \* the announcements under way

vars == <<callbacks, stack>>

Ops == {"announce", "add", "remove"}

(* i and stop are the locals of AnnounceMessage, who the caller argument   *)
(* of Add- or RemoveMessageListener, calling whether call(msg) is running. *)
(* For the properties, a frame also remembers whom the message reached,    *)
(* which listeners have been registered all the time since it was          *)
(* announced, and how many removals were made since (up to MaxLen).        *)
Frames == [op : Ops, who : Listeners \cup {NoListener}, i : Nat, stop : BOOLEAN,
           calling : BOOLEAN, heard : Seq(Listeners),
           present : SUBSET Listeners, removals : 0 .. MaxLen]

Top == Last(stack)
Change(frame) == stack' = [stack EXCEPT ![Len(stack)] = frame]

(* The registrations that are announced and not made yet. *)
Adding == {k \in DOMAIN stack : stack[k].op = "add"}

Init ==
    /\ callbacks = <<>>
    /\ stack = <<>>

-----------------------------------------------------------------------------
(* The application, or the listener being called, announces a message of   *)
(* its own or calls AddMessageListener(c) or RemoveMessageListener(c).     *)
Call(op, c) ==
    /\ stack # <<>> => Top.calling
    /\ Len(stack) < MaxDepth
    /\ op = "add" => Len(callbacks) + Cardinality(Adding) < MaxLen
    /\ stack' = Append(stack,
                       [op |-> op, who |-> c, i |-> 0, stop |-> FALSE, calling |-> FALSE,
                        heard |-> <<>>, present |-> ToSet(callbacks), removals |-> 0])
    /\ UNCHANGED callbacks

(* vec_foreach: call is data[i] while i < length. *)
CallListener ==
    /\ stack # <<>> /\ ~Top.calling
    /\ Top.i < Len(callbacks)
    /\ Change([Top EXCEPT !.calling = TRUE,
                          !.heard = Append(@, callbacks[Top.i + 1])])
    /\ UNCHANGED callbacks

(* Faulty variant: a veto ends the walk. *)
ListenerReturnsBreak(ok) ==
    /\ stack # <<>> /\ Top.calling
    /\ Change([Top EXCEPT !.calling = FALSE, !.stop = @ \/ ~ok,
                          !.i = IF ok THEN @ + 1 ELSE Len(callbacks)])
    /\ UNCHANGED callbacks

(* Faulty variant: skips the next listener after each call. *)
ListenerReturnsTwice(ok) ==
    /\ stack # <<>> /\ Top.calling
    /\ Change([Top EXCEPT !.calling = FALSE, !.i = @ + 2, !.stop = @ \/ ~ok])
    /\ UNCHANGED callbacks

(* The listener returns true, or false to stop what was announced. *)
ListenerReturns(ok) ==
    /\ stack # <<>> /\ Top.calling
    /\ Change([Top EXCEPT !.calling = FALSE, !.i = @ + 1, !.stop = @ \/ ~ok])
    /\ UNCHANGED callbacks

(* The walk is over: the message is freed and AnnounceMessage returns. *)
AtEnd == stack # <<>> /\ ~Top.calling /\ Top.i >= Len(callbacks)

EndAnnounce ==
    /\ AtEnd
    /\ Top.op = "announce" \/ Top.stop
    /\ stack' = Front(stack)
    /\ UNCHANGED callbacks

(* Faulty variant: the push is evaluated twice. *)
EndAddTwice ==
    /\ AtEnd
    /\ Top.op = "add" /\ ~Top.stop
    /\ callbacks' = callbacks \o <<Top.who, Top.who>>
    /\ stack' = Front(stack)

EndAdd ==
    /\ AtEnd
    /\ Top.op = "add" /\ ~Top.stop
    /\ callbacks' = Append(callbacks, Top.who)
    /\ stack' = Front(stack)

(* vec_remove: the first element equal to caller, if there is one. *)
WithoutFirst(s, c) ==
    IF c \in ToSet(s)
       THEN RemoveAt(s, CHOOSE k \in DOMAIN s :
                            s[k] = c /\ \A m \in 1 .. k - 1 : s[m] # c)
       ELSE s

(* Faulty variant: the search for a listener that is not there never ends. *)
EndRemoveUnbounded ==
    /\ AtEnd
    /\ Top.who \in ToSet(callbacks)
    /\ Top.op = "remove" /\ ~Top.stop
    /\ callbacks' = WithoutFirst(callbacks, Top.who)
    /\ stack' = [k \in 1 .. Len(stack) - 1 |->
                    [stack[k] EXCEPT
                        !.present = @ \cap ToSet(callbacks'),
                        !.removals = IF callbacks' = callbacks \/ @ = MaxLen THEN @
                                     ELSE @ + 1]]

EndRemove ==
    /\ AtEnd
    /\ Top.op = "remove" /\ ~Top.stop
    /\ callbacks' = WithoutFirst(callbacks, Top.who)
    /\ stack' = [k \in 1 .. Len(stack) - 1 |->
                    [stack[k] EXCEPT
                        !.present = @ \cap ToSet(callbacks'),
                        !.removals = IF callbacks' = callbacks \/ @ = MaxLen THEN @
                                     ELSE @ + 1]]

Step ==
    \/ CallListener
    \/ \E ok \in BOOLEAN : ListenerReturns(ok)
    \/ EndAnnounce
    \/ EndAdd
    \/ EndRemove

Next ==
    \/ Step
    \/ Call("announce", NoListener)
    \/ \E c \in Listeners : Call("add", c) \/ Call("remove", c)

Spec == Init /\ [][Next]_vars

(* The thread keeps running, and each listener returns, at whatever depth  *)
(* it was called, however often it calls the channel before that.          *)
Fairness ==
    /\ WF_vars(CallListener \/ EndAnnounce \/ EndAdd \/ EndRemove)
    /\ \A d \in 1 .. MaxDepth :
          SF_vars(Len(stack) = d /\ \E ok \in BOOLEAN : ListenerReturns(ok))

FairSpec == Spec /\ Fairness

-----------------------------------------------------------------------------
TypeOK ==
    /\ callbacks \in Seq(Listeners) /\ Len(callbacks) <= MaxLen
    /\ stack \in Seq(Frames) /\ Len(stack) <= MaxDepth

(* Whatever listeners register and announce while they are called, a       *)
(* message that nobody removed a listener under has reached each           *)
(* registration exactly once, in order, those made meanwhile included.     *)
HeardAll == AtEnd /\ Top.removals = 0 => Top.heard = callbacks

(* Each removal makes a walk pass over at most one listener that was       *)
(* registered all the time.                                                *)
MissBound ==
    AtEnd => Cardinality(Top.present \ ToSet(Top.heard)) <= Top.removals

(* Removing and registering again does not keep a walk going for ever:     *)
(* every announcement comes to its end while the list stays bounded.       *)
AnnouncementsEnd == stack # <<>> ~> stack = <<>>

(* MessageChannel.c:40, "Announce the message to every message listener":  *)
(* it reaches every listener that is registered all the time.              *)
EveryListenerHears == AtEnd => Top.present \subseteq ToSet(Top.heard)

=============================================================================
