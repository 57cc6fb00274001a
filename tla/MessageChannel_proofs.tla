----------------------- MODULE MessageChannel_proofs -----------------------
(***************************************************************************)
(* What the walks of AnnounceMessage (MessageChannel.c:36-52) guarantee    *)
(* for any set of listeners and any bounds on the nesting and on the       *)
(* registrations, though the vector changes under them: ChannelInv is      *)
(* inductive and implies TypeOK, HeardAll and MissBound.                   *)
(*                                                                         *)
(* ChannelInv says of every frame of the stack, the interrupted ones       *)
(* included, how far its walk is from the vector as it is now.  Both parts *)
(* are about one frame f and one vector s, so that each change of the      *)
(* vector is a lemma about them: a listener appended (FrameAfterAdd), the  *)
(* first of its occurrences removed (FrameAfterRemove).                    *)
(***************************************************************************)
EXTENDS MessageChannel, SequenceLemmas

(***************************************************************************)
(* The inductive invariant.  f is an announcement under way, s the vector  *)
(* it walks.                                                               *)
(***************************************************************************)
(* How many calls of the walk have been started, and which listeners the   *)
(* walk will still come to if nothing changes.                             *)
Passed(f) == IF f.calling THEN f.i + 1 ELSE f.i

Ahead(f, s) == {s[m] : m \in Passed(f) + 1 .. Len(s)}

Missed(f, s) == f.present \ (ToSet(f.heard) \cup Ahead(f, s))

(* A walk under which nothing was removed has heard the first listeners.   *)
InOrder(f, s) ==
    f.removals = 0 =>
        /\ Len(f.heard) = Passed(f)
        /\ Passed(f) <= Len(s)
        /\ \A m \in 1 .. Passed(f) : f.heard[m] = s[m]

FewMissed(f, s) ==
    /\ f.present \subseteq ToSet(s)
    /\ Cardinality(Missed(f, s)) <= f.removals

FrameOK(f, s) == InOrder(f, s) /\ FewMissed(f, s)

(* A call that is announced has its argument and a place in the vector.    *)
CallsOK ==
    /\ \A k \in DOMAIN stack : stack[k].op # "announce" => stack[k].who \in Listeners
    /\ Len(callbacks) + Cardinality(Adding) <= MaxLen

ChannelInv ==
    /\ TypeOK
    /\ CallsOK
    /\ \A k \in DOMAIN stack : FrameOK(stack[k], callbacks)

-----------------------------------------------------------------------------
(* vec_remove removes one element that equals its argument. *)
LEMMA FirstRemoved ==
    ASSUME NEW S, NEW s \in Seq(S), NEW c \in ToSet(s)
    PROVE  \E r \in 1 .. Len(s) : s[r] = c /\ WithoutFirst(s, c) = RemoveAt(s, r)
<1> DEFINE T == {k \in 1 .. Len(s) : s[k] = c}
<1>1. T # {} /\ T \in SUBSET Nat
  BY DEF ToSet
<1>2. PICK m \in T : \A k \in T : m <= k
  <2> HIDE DEF T
  <2> QED BY <1>1, LeastIndex
<1>3. m \in DOMAIN s /\ s[m] = c /\ \A k \in 1 .. m - 1 : s[k] # c
  BY <1>2
<1> DEFINE r == CHOOSE k \in DOMAIN s : s[k] = c /\ \A n \in 1 .. k - 1 : s[n] # c
<1>4. r \in DOMAIN s /\ s[r] = c
  BY <1>3
<1>5. WithoutFirst(s, c) = RemoveAt(s, r)
  BY Zenon DEF WithoutFirst
<1> HIDE DEF r
<1> QED BY <1>4, <1>5

-----------------------------------------------------------------------------
(* A walk misses finitely many listeners: there are finitely many. *)
LEMMA MissedFinite ==
    ASSUME NEW f \in Frames, NEW s
    PROVE  IsFiniteSet(Missed(f, s)) /\ Cardinality(Missed(f, s)) \in Nat
<1>1. f.present \subseteq Listeners
  BY DEF Frames
<1>2. Missed(f, s) \subseteq Listeners
  BY <1>1 DEF Missed
<1> QED BY <1>2, ListenersAssumption, FS_Subset, FS_CardinalityType

(* A walk that has missed less has missed fewer. *)
LEMMA MissedShrinks ==
    ASSUME NEW f \in Frames, NEW s, NEW g, NEW t, Missed(g, t) \subseteq Missed(f, s)
    PROVE  Cardinality(Missed(g, t)) <= Cardinality(Missed(f, s))
BY MissedFinite, FS_Subset

(* A message just announced. *)
LEMMA NewFrame ==
    ASSUME NEW s \in Seq(Listeners), NEW op \in Ops, NEW c \in Listeners \cup {NoListener},
           NEW f, f = [op |-> op, who |-> c, i |-> 0, stop |-> FALSE, calling |-> FALSE,
                       heard |-> <<>>, present |-> ToSet(s), removals |-> 0]
    PROVE  f \in Frames /\ FrameOK(f, s)
<1>1. f \in Frames
  BY BoundsAssumption DEF Frames, ToSet
<1>2. InOrder(f, s)
  BY DEF InOrder, Passed
<1>3. Ahead(f, s) = ToSet(s)
  BY DEF Ahead, Passed, ToSet
<1>4. Missed(f, s) = {}
  BY <1>3 DEF Missed
<1>5. f.present = ToSet(s) /\ f.removals = 0
  OBVIOUS
<1>6. Cardinality(Missed(f, s)) <= 0
  <2>1. Cardinality(Missed(f, s)) = 0
    BY Zenon, <1>4, FS_EmptySet
  <2> QED BY <2>1
<1>7. FewMissed(f, s)
  BY <1>5, <1>6 DEF FewMissed
<1> QED BY <1>1, <1>2, <1>7 DEF FrameOK

(* The next listener is called: it moves from those ahead to those reached. *)
LEMMA CalledFrame ==
    ASSUME NEW s \in Seq(Listeners), NEW f \in Frames, FrameOK(f, s),
           ~f.calling, f.i < Len(s),
           NEW g, g = [f EXCEPT !.calling = TRUE, !.heard = Append(@, s[f.i + 1])]
    PROVE  g \in Frames /\ FrameOK(g, s)
<1>1. f.i \in Nat /\ f.heard \in Seq(Listeners) /\ s[f.i + 1] \in Listeners
  BY DEF Frames
<1>2. /\ g.i = f.i /\ g.calling = TRUE /\ g.heard = Append(f.heard, s[f.i + 1])
      /\ g.present = f.present /\ g.removals = f.removals
  BY DEF Frames
<1>a. Append(f.heard, s[f.i + 1]) \in Seq(Listeners)
  BY <1>1
<1>b. g \in Frames
  BY <1>a DEF Frames
<1>3. Passed(f) = f.i /\ Passed(g) = f.i + 1
  BY <1>2 DEF Passed
<1>4. ToSet(g.heard) = ToSet(f.heard) \cup {s[f.i + 1]}
  BY <1>1, <1>2, AppendElems
<1>5. InOrder(g, s)
  BY <1>1, <1>2, <1>3 DEF InOrder, FrameOK
<1>6. Ahead(f, s) = Ahead(g, s) \cup {s[f.i + 1]}
  BY <1>1, <1>3 DEF Ahead
<1>7. Missed(g, s) = Missed(f, s)
  BY <1>2, <1>4, <1>6 DEF Missed
<1> QED BY <1>2, <1>b, <1>5, <1>7 DEF FrameOK, FewMissed

(* The listener returns: nothing moves. *)
LEMMA ReturnedFrame ==
    ASSUME NEW s \in Seq(Listeners), NEW f \in Frames, FrameOK(f, s), f.calling,
           NEW ok \in BOOLEAN,
           NEW g, g = [f EXCEPT !.calling = FALSE, !.i = @ + 1, !.stop = @ \/ ~ok]
    PROVE  g \in Frames /\ FrameOK(g, s)
<1>1. /\ g.i = f.i + 1 /\ g.calling = FALSE /\ g.heard = f.heard
      /\ g.present = f.present /\ g.removals = f.removals
  BY DEF Frames
<1>a. (f.stop \/ ~ok) \in BOOLEAN
  OBVIOUS
<1>b. g \in Frames
  <2> DEFINE x == f.stop \/ ~ok
             n == f.i + 1
  <2>1. g = [f EXCEPT !.calling = FALSE, !.i = n, !.stop = x]
    BY DEF Frames
  <2>2. x \in BOOLEAN
    BY <1>a
  <2>3. n \in Nat
    BY DEF Frames
  <2> HIDE DEF x, n
  <2> QED BY <2>1, <2>2, <2>3 DEF Frames
<1>2. Passed(g) = Passed(f)
  BY <1>1 DEF Passed
<1> QED BY <1>1, <1>b, <1>2 DEF FrameOK, InOrder, FewMissed, Missed, Ahead

(* A listener is registered under a walk: there is more ahead of it. *)
LEMMA FrameAfterAdd ==
    ASSUME NEW s \in Seq(Listeners), NEW f \in Frames, FrameOK(f, s), NEW c \in Listeners
    PROVE  FrameOK(f, Append(s, c))
<1> DEFINE t == Append(s, c)
<1>1. /\ Len(t) = Len(s) + 1 /\ Len(s) \in Nat
      /\ DOMAIN t = 1 .. Len(s) + 1 /\ DOMAIN s = 1 .. Len(s)
      /\ \A m \in 1 .. Len(s) : t[m] = s[m]
  OBVIOUS
<1>2. Passed(f) \in Nat
  BY DEF Passed, Frames
<1> HIDE DEF t
<1>3. ToSet(s) \subseteq ToSet(t)
  BY <1>1 DEF ToSet
<1>4. Ahead(f, s) \subseteq Ahead(f, t)
  BY <1>1, <1>2 DEF Ahead
<1>5. Missed(f, t) \subseteq Missed(f, s)
  BY <1>4 DEF Missed
<1>6. Cardinality(Missed(f, t)) <= Cardinality(Missed(f, s))
  BY <1>5, MissedShrinks
<1>7. InOrder(f, t)
  BY <1>1, <1>2 DEF InOrder, FrameOK
<1>8. FewMissed(f, t)
  BY <1>3, <1>6, MissedFinite DEF FewMissed, FrameOK, Frames
<1> QED BY <1>7, <1>8 DEF FrameOK, t

(* A listener is removed under a walk: the walk passes over at most one.   *)
LEMMA FrameAfterRemove ==
    ASSUME NEW s \in Seq(Listeners), Len(s) <= MaxLen, NEW f \in Frames, FrameOK(f, s),
           NEW c \in Listeners, NEW t, t = WithoutFirst(s, c),
           NEW g, g = [f EXCEPT !.present = @ \cap ToSet(t),
                                !.removals = IF t = s \/ @ = MaxLen THEN @ ELSE @ + 1]
    PROVE  g \in Frames /\ FrameOK(g, t)
<1>1. /\ g.i = f.i /\ g.calling = f.calling /\ g.heard = f.heard
      /\ g.present = f.present \cap ToSet(t)
      /\ g.removals = IF t = s \/ f.removals = MaxLen THEN f.removals ELSE f.removals + 1
  BY DEF Frames
<1>a. /\ g.present \in SUBSET Listeners
      /\ g.removals \in 0 .. MaxLen
  BY <1>1, BoundsAssumption DEF Frames
<1>b. g \in Frames
  BY <1>1, <1>a DEF Frames
<1>2. Passed(g) = Passed(f) /\ Passed(f) \in Nat
  BY <1>1 DEF Passed, Frames
<1>3. f.removals \in 0 .. MaxLen /\ MaxLen \in Nat
  BY BoundsAssumption DEF Frames
<1>4. CASE t = s
  <2>1. g.present = f.present /\ g.removals = f.removals
    BY <1>1, <1>4 DEF FrameOK, FewMissed
  <2>2. Ahead(g, t) = Ahead(f, s) /\ Missed(g, t) = Missed(f, s)
    BY <1>1, <1>2, <1>4, <2>1 DEF Ahead, Missed
  <2> QED BY <1>1, <1>b, <1>2, <1>4, <2>1, <2>2 DEF FrameOK, InOrder, FewMissed
<1>5. CASE t # s
  <2>1. c \in ToSet(s)
    BY <1>5 DEF WithoutFirst
  <2>2. PICK r \in 1 .. Len(s) : s[r] = c /\ t = RemoveAt(s, r)
    BY <2>1, FirstRemoved
  <2>3. /\ t \in Seq(Listeners) /\ Len(t) = Len(s) - 1
        /\ \A m \in 1 .. Len(s) - 1 : t[m] = IF m < r THEN s[m] ELSE s[m + 1]
    BY <2>2, RemovedAt
  <2>4. Len(s) \in Nat /\ Len(s) >= 1
    BY <2>2
  <2>5. g.removals # 0
    BY <1>1, <1>3, <1>5, <2>4
  <2>6. CASE f.removals = MaxLen
    <3>1. Missed(g, t) \subseteq ToSet(t)
      BY <1>1 DEF Missed
    <3>2. Cardinality(Missed(g, t)) <= Len(t)
      BY <2>3, <3>1, FewElements, FS_Subset, FS_CardinalityType, MissedFinite, <1>b
    <3> QED BY <1>1, <1>b, <1>3, <2>3, <2>4, <2>5, <2>6, <3>2, MissedFinite
            DEF FrameOK, InOrder, FewMissed
  <2>7. CASE f.removals # MaxLen
    <3> DEFINE x == IF r <= Passed(f) /\ Passed(f) < Len(s) THEN s[Passed(f) + 1] ELSE c
    <3>1. Ahead(f, s) \subseteq Ahead(g, t) \cup {x}
      <4> SUFFICES ASSUME NEW m \in Passed(f) + 1 .. Len(s), s[m] # x
                   PROVE  s[m] \in Ahead(g, t)
        BY DEF Ahead
      <4>1. CASE m < r
        BY <1>2, <2>3, <2>4, <4>1 DEF Ahead
      <4>2. CASE m >= r
        <5>1. m > r /\ m > Passed(f) + 1
          BY <1>2, <2>2, <4>2
        <5>2. m - 1 \in Passed(g) + 1 .. Len(t) /\ t[m - 1] = s[m]
          BY <1>2, <2>3, <2>4, <4>2, <5>1
        <5> QED BY <5>2 DEF Ahead
      <4> QED BY <1>2, <4>1, <4>2
    <3> HIDE DEF x
    <3>2. Missed(g, t) \subseteq Missed(f, s) \cup {x}
      BY <1>1, <3>1 DEF Missed
    <3>3. Cardinality(Missed(g, t)) <= Cardinality(Missed(f, s)) + 1
      <4>1. /\ IsFiniteSet(Missed(f, s) \cup {x})
            /\ Cardinality(Missed(f, s) \cup {x}) <= Cardinality(Missed(f, s)) + 1
        <5>1. IsFiniteSet(Missed(f, s)) /\ Cardinality(Missed(f, s)) \in Nat
          BY MissedFinite
        <5>2. /\ IsFiniteSet(Missed(f, s) \cup {x})
              /\ Cardinality(Missed(f, s) \cup {x})
                   = IF x \in Missed(f, s) THEN Cardinality(Missed(f, s))
                                           ELSE Cardinality(Missed(f, s)) + 1
          BY <5>1, FS_AddElement
        <5> QED BY <5>1, <5>2
      <4>2. Cardinality(Missed(g, t)) <= Cardinality(Missed(f, s) \cup {x})
        BY <3>2, <4>1, FS_Subset
      <4> QED BY <1>b, <4>1, <4>2, MissedFinite, FS_CardinalityType
    <3> QED BY <1>1, <1>b, <1>3, <1>5, <2>5, <2>7, <3>3, MissedFinite
            DEF FrameOK, InOrder, FewMissed
  <2> QED BY <2>6, <2>7
<1> QED BY <1>4, <1>5

-----------------------------------------------------------------------------
(* What the bottom frames and the top frame of the stack become.           *)
LEMMA TopOfStack ==
    ASSUME TypeOK, stack # <<>>
    PROVE  /\ Len(stack) \in 1 .. MaxDepth /\ Len(stack) \in DOMAIN stack
           /\ Top = stack[Len(stack)] /\ Top \in Frames
           /\ Front(stack) \in Seq(Frames) /\ Len(Front(stack)) = Len(stack) - 1
           /\ DOMAIN Front(stack) = 1 .. Len(stack) - 1
           /\ \A k \in 1 .. Len(stack) - 1 : Front(stack)[k] = stack[k]
<1>1. Len(stack) \in 1 .. MaxDepth /\ stack \in Seq(Frames) /\ DOMAIN stack = 1 .. Len(stack)
  BY BoundsAssumption DEF TypeOK
<1>2. Top = stack[Len(stack)] /\ Top \in Frames
  BY <1>1 DEF Top, Last
<1>3. stack \in Seq(Frames) /\ Len(stack) >= 1
  BY <1>1
<1>4. /\ Front(stack) \in Seq(Frames) /\ Len(Front(stack)) = Len(stack) - 1
      /\ \A k \in 1 .. Len(stack) - 1 : Front(stack)[k] = stack[k]
  BY <1>3, FrontOf
<1>5. DOMAIN Front(stack) = 1 .. Len(stack) - 1
  BY <1>4
<1> QED BY <1>1, <1>2, <1>4, <1>5

(* Finitely many registrations are announced and not made yet. *)
LEMMA AddingFinite ==
    TypeOK => IsFiniteSet(Adding) /\ Cardinality(Adding) \in Nat
<1> SUFFICES ASSUME TypeOK PROVE IsFiniteSet(Adding) /\ Cardinality(Adding) \in Nat
  OBVIOUS
<1>1. Adding \subseteq 1 .. Len(stack) /\ Len(stack) \in Nat
  BY DEF Adding, TypeOK
<1>2. IsFiniteSet(1 .. Len(stack))
  BY <1>1, FS_Interval
<1> QED BY <1>1, <1>2, FS_Subset, FS_CardinalityType

(* Every step keeps the invariant: a call, a return, or a change of the   *)
(* vector under all the walks that are interrupted by it.                  *)
LEMMA ChannelStep == ChannelInv /\ [Next]_vars => ChannelInv'
<1> SUFFICES ASSUME ChannelInv, [Next]_vars PROVE ChannelInv'
  OBVIOUS
<1> USE BoundsAssumption, ListenersAssumption
<1>t. /\ TypeOK /\ CallsOK
      /\ callbacks \in Seq(Listeners) /\ stack \in Seq(Frames)
      /\ Len(callbacks) \in Nat /\ Len(stack) \in Nat
      /\ Len(callbacks) <= MaxLen /\ Len(stack) <= MaxDepth
      /\ IsFiniteSet(Adding) /\ Cardinality(Adding) \in Nat
      /\ DOMAIN stack = 1 .. Len(stack)
  BY AddingFinite DEF ChannelInv, TypeOK
<1>f. \A k \in 1 .. Len(stack) : stack[k] \in Frames /\ FrameOK(stack[k], callbacks)
  BY <1>t DEF ChannelInv
<1> DEFINE n == Len(stack)
<1>1. ASSUME NEW op \in Ops, NEW c \in Listeners \cup {NoListener}, Call(op, c),
             op # "announce" => c \in Listeners
      PROVE  ChannelInv'
  <2> DEFINE f == [op |-> op, who |-> c, i |-> 0, stop |-> FALSE, calling |-> FALSE,
                   heard |-> <<>>, present |-> ToSet(callbacks), removals |-> 0]
  <2>1. stack' = Append(stack, f) /\ callbacks' = callbacks /\ n < MaxDepth
    BY <1>1 DEF Call
  <2>2. f \in Frames /\ FrameOK(f, callbacks)
    BY <1>t, NewFrame
  <2>3. f.op = op /\ f.who = c
    OBVIOUS
  <2> HIDE DEF f
  <2>4. /\ stack' \in Seq(Frames) /\ Len(stack') = n + 1 /\ stack'[n + 1] = f
        /\ \A k \in 1 .. n : stack'[k] = stack[k]
    BY <1>t, <2>1, <2>2
  <2>5. TypeOK'
    BY <1>t, <2>1, <2>4 DEF TypeOK
  <2>6. \A k \in DOMAIN stack' : FrameOK(stack'[k], callbacks')
    BY <1>f, <2>1, <2>2, <2>4
  <2>7. CallsOK'
    <3>1. \A k \in DOMAIN stack' : stack'[k].op # "announce" => stack'[k].who \in Listeners
      BY <1>t, <1>1, <2>3, <2>4 DEF CallsOK
    <3>2. CASE op = "add"
      <4>1. Adding' = Adding \cup {n + 1} /\ n + 1 \notin Adding
        BY <1>t, <2>3, <2>4, <3>2 DEF Adding
      <4>2. Cardinality(Adding') = Cardinality(Adding) + 1
        BY <1>t, <4>1, FS_AddElement
      <4>3. Len(callbacks) + Cardinality(Adding) < MaxLen
        BY <1>1, <3>2 DEF Call
      <4> QED BY <1>t, <2>1, <3>1, <4>2, <4>3 DEF CallsOK
    <3>3. CASE op # "add"
      <4>1. Adding' = Adding
        BY <1>t, <2>3, <2>4, <3>3 DEF Adding
      <4> QED BY <1>t, <2>1, <3>1, <4>1 DEF CallsOK
    <3> QED BY <3>2, <3>3
  <2> QED BY <2>5, <2>6, <2>7 DEF ChannelInv
<1>2. ASSUME stack # <<>>, NEW g \in Frames, FrameOK(g, callbacks), Change(g),
             g.op = Top.op, g.who = Top.who, callbacks' = callbacks
      PROVE  ChannelInv'
  <2>1. n >= 1 /\ Top = stack[n] /\ n \in DOMAIN stack
    BY <1>t, <1>2, TopOfStack
  <2>2. /\ stack' \in Seq(Frames) /\ Len(stack') = n /\ stack'[n] = g
        /\ DOMAIN stack' = 1 .. n
        /\ \A k \in 1 .. n - 1 : stack'[k] = stack[k]
    <3>1. stack' = [stack EXCEPT ![n] = g]
      BY <1>2 DEF Change
    <3>2. stack \in [1 .. n -> Frames] /\ g \in Frames
      BY <1>t, <1>2
    <3>3. stack' \in [1 .. n -> Frames]
      BY <3>1, <3>2
    <3>4. n \in Nat
      BY <1>t
    <3> HIDE DEF n
    <3> QED BY <2>1, <3>1, <3>2, <3>3, <3>4
  <2>3. TypeOK'
    BY <1>t, <1>2, <2>2 DEF TypeOK
  <2>4. \A k \in DOMAIN stack' : FrameOK(stack'[k], callbacks')
    BY <1>t, <1>f, <1>2, <2>1, <2>2
  <2>5. Adding' = Adding
    <3>1. DOMAIN stack = 1 .. n
      BY <1>t
    <3>2. stack'[n].op = stack[n].op
      BY <1>2, <2>1, <2>2
    <3>3. n \in Nat
      BY <1>t
    <3> HIDE DEF n
    <3>4. \A k \in 1 .. n : stack'[k].op = stack[k].op
      <4>1. \A k \in 1 .. n : k = n \/ k \in 1 .. n - 1
        BY <3>3
      <4> QED BY <2>2, <3>2, <4>1
    <3> QED BY <2>2, <3>1, <3>4 DEF Adding
  <2>6. CallsOK'
    BY <1>t, <1>2, <2>1, <2>2, <2>5 DEF CallsOK
  <2> QED BY <2>3, <2>4, <2>6 DEF ChannelInv
<1>3. ASSUME CallListener PROVE ChannelInv'
  <2>1. stack # <<>> /\ ~Top.calling /\ Top.i < Len(callbacks) /\ callbacks' = callbacks
    BY <1>3 DEF CallListener
  <2>2. Top \in Frames /\ FrameOK(Top, callbacks)
    BY <1>t, <1>f, <2>1, TopOfStack
  <2> DEFINE g == [Top EXCEPT !.calling = TRUE, !.heard = Append(@, callbacks[Top.i + 1])]
  <2>3. g \in Frames /\ FrameOK(g, callbacks)
    BY <1>t, <2>1, <2>2, CalledFrame
  <2>4. g.op = Top.op /\ g.who = Top.who
    BY <2>2 DEF Frames
  <2>5. Change(g)
    BY <1>3 DEF CallListener
  <2> QED BY <1>2, <2>1, <2>3, <2>4, <2>5
<1>4. ASSUME NEW ok \in BOOLEAN, ListenerReturns(ok) PROVE ChannelInv'
  <2>1. stack # <<>> /\ Top.calling /\ callbacks' = callbacks
    BY <1>4 DEF ListenerReturns
  <2>2. Top \in Frames /\ FrameOK(Top, callbacks)
    BY <1>t, <1>f, <2>1, TopOfStack
  <2> DEFINE g == [Top EXCEPT !.calling = FALSE, !.i = @ + 1, !.stop = @ \/ ~ok]
  <2>3. g \in Frames /\ FrameOK(g, callbacks)
    BY <1>t, <2>1, <2>2, ReturnedFrame
  <2>4. g.op = Top.op /\ g.who = Top.who
    BY <2>2 DEF Frames
  <2>5. Change(g)
    BY <1>4 DEF ListenerReturns
  <2> QED BY <1>2, <2>1, <2>3, <2>4, <2>5
<1>5. ASSUME EndAnnounce PROVE ChannelInv'
  <2>1. stack # <<>> /\ stack' = Front(stack) /\ callbacks' = callbacks
    BY <1>5 DEF EndAnnounce, AtEnd
  <2>2. /\ stack' \in Seq(Frames) /\ Len(stack') = n - 1 /\ n >= 1
        /\ \A k \in 1 .. n - 1 : stack'[k] = stack[k]
        /\ DOMAIN stack' = 1 .. n - 1
    <3>1. Len(stack) \in 1 .. MaxDepth
      BY <1>t, <2>1, TopOfStack
    <3>2. /\ Front(stack) \in Seq(Frames) /\ Len(Front(stack)) = n - 1
          /\ DOMAIN Front(stack) = 1 .. n - 1
          /\ \A k \in 1 .. n - 1 : Front(stack)[k] = stack[k]
      BY <1>t, <2>1, TopOfStack
    <3>3. n >= 1
      BY <3>1
    <3> HIDE DEF n
    <3> QED BY <2>1, <3>2, <3>3
  <2>3. TypeOK'
    BY <1>t, <2>1, <2>2 DEF TypeOK
  <2>4. \A k \in DOMAIN stack' : FrameOK(stack'[k], callbacks')
    BY <1>t, <1>f, <2>1, <2>2
  <2>5. Adding' \subseteq Adding
    BY <1>t, <2>2 DEF Adding
  <2>6. Cardinality(Adding') <= Cardinality(Adding) /\ Cardinality(Adding') \in Nat
    BY <1>t, <2>5, FS_Subset, FS_CardinalityType
  <2>7. CallsOK'
    <3>1. \A k \in DOMAIN stack' : stack'[k].op # "announce" => stack'[k].who \in Listeners
      BY <1>t, <2>2 DEF CallsOK
    <3>2. Len(callbacks') + Cardinality(Adding') <= MaxLen
      BY <1>t, <2>1, <2>6 DEF CallsOK
    <3> QED BY <3>1, <3>2 DEF CallsOK
  <2> QED BY <2>3, <2>4, <2>7 DEF ChannelInv
<1>6. ASSUME EndAdd PROVE ChannelInv'
  <2>1. /\ stack # <<>> /\ stack' = Front(stack) /\ Top.op = "add"
        /\ callbacks' = Append(callbacks, Top.who)
    BY <1>6 DEF EndAdd, AtEnd
  <2>2. /\ stack' \in Seq(Frames) /\ Len(stack') = n - 1 /\ n >= 1
        /\ \A k \in 1 .. n - 1 : stack'[k] = stack[k]
        /\ DOMAIN stack' = 1 .. n - 1
    <3>1. Len(stack) \in 1 .. MaxDepth
      BY <1>t, <2>1, TopOfStack
    <3>2. /\ Front(stack) \in Seq(Frames) /\ Len(Front(stack)) = n - 1
          /\ DOMAIN Front(stack) = 1 .. n - 1
          /\ \A k \in 1 .. n - 1 : Front(stack)[k] = stack[k]
      BY <1>t, <2>1, TopOfStack
    <3>3. n >= 1
      BY <3>1
    <3> HIDE DEF n
    <3> QED BY <2>1, <3>2, <3>3
  <2>a. /\ Top = stack[n] /\ n \in DOMAIN stack /\ DOMAIN stack' = 1 .. n - 1
        /\ Top \in Frames
    BY <1>t, <2>1, <2>2, TopOfStack
  <2>3. Top.who \in Listeners
    BY <1>t, <2>1, <2>a DEF CallsOK
  <2>4. callbacks' \in Seq(Listeners) /\ Len(callbacks') = Len(callbacks) + 1
    BY <1>t, <2>1, <2>3
  <2>5. Adding' = Adding \ {n} /\ n \in Adding
    <3>1. \A k \in 1 .. n - 1 : k \in Adding' <=> k \in Adding
      BY <1>t, <2>2, <2>a DEF Adding
    <3>2. Adding \subseteq 1 .. n /\ Adding' \subseteq 1 .. n - 1 /\ n \in Adding
      BY <1>t, <2>1, <2>2, <2>a DEF Adding
    <3>3. n \in Nat
      BY <1>t
    <3> HIDE DEF n
    <3>4. /\ \A k \in 1 .. n : k # n => k \in 1 .. n - 1
          /\ n \notin 1 .. n - 1
      BY <3>3
    <3> QED BY Zenon, <3>1, <3>2, <3>4
  <2>6. Cardinality(Adding') = Cardinality(Adding) - 1
    BY <1>t, <2>5, FS_RemoveElement
  <2>7. \A k \in DOMAIN stack' : FrameOK(stack'[k], callbacks')
    <3> SUFFICES ASSUME NEW k \in DOMAIN stack' PROVE FrameOK(stack'[k], callbacks')
      OBVIOUS
    <3>1. stack'[k] = stack[k] /\ k \in 1 .. Len(stack)
      BY <1>t, <2>2
    <3>2. stack[k] \in Frames /\ FrameOK(stack[k], callbacks)
      BY <1>f, <3>1
    <3> QED BY <1>t, <2>1, <2>3, <3>1, <3>2, FrameAfterAdd
  <2>8. CallsOK'
    <3>1. \A k \in DOMAIN stack' : stack'[k].op # "announce" => stack'[k].who \in Listeners
      BY <1>t, <2>2, <2>a DEF CallsOK
    <3>2. Len(callbacks') + Cardinality(Adding') <= MaxLen
      BY <1>t, <2>4, <2>6 DEF CallsOK
    <3> QED BY <3>1, <3>2 DEF CallsOK
  <2>9. TypeOK'
    <3>1. Cardinality(Adding') \in Nat
      BY <1>t, <2>5, FS_RemoveElement, FS_CardinalityType
    <3> QED BY <1>t, <2>2, <2>4, <2>8, <3>1 DEF TypeOK, CallsOK
  <2> QED BY <2>7, <2>8, <2>9 DEF ChannelInv
<1>7. ASSUME EndRemove PROVE ChannelInv'
  <2>1. /\ stack # <<>> /\ Top.op = "remove"
        /\ callbacks' = WithoutFirst(callbacks, Top.who)
        /\ stack' = [k \in 1 .. Len(stack) - 1 |->
                       [stack[k] EXCEPT
                           !.present = @ \cap ToSet(callbacks'),
                           !.removals = IF callbacks' = callbacks \/ @ = MaxLen THEN @
                                        ELSE @ + 1]]
    BY <1>7 DEF EndRemove, AtEnd
  <2>2. n \in 1 .. MaxDepth /\ Top = stack[n] /\ n \in DOMAIN stack
    BY <1>t, <2>1, TopOfStack
  <2>3. Top.who \in Listeners
    <3>1. n \in DOMAIN stack /\ Top.op # "announce"
      BY <1>t, <2>1, <2>2
    <3> QED BY <1>t, <2>2, <3>1 DEF CallsOK
  <2>4. callbacks' \in Seq(Listeners) /\ Len(callbacks') <= Len(callbacks)
    <3>1. CASE Top.who \in ToSet(callbacks)
      <4>1. PICK r \in 1 .. Len(callbacks) : callbacks' = RemoveAt(callbacks, r)
        BY <1>t, <2>1, <3>1, FirstRemoved
      <4> QED BY <1>t, <4>1, RemovedAt
    <3>2. CASE Top.who \notin ToSet(callbacks)
      <4>1. callbacks' = callbacks
        BY <2>1, <3>2 DEF WithoutFirst
      <4> QED BY <1>t, <4>1
    <3> QED BY <3>1, <3>2
  <2>5. ASSUME NEW k \in 1 .. n - 1
        PROVE  /\ stack'[k] \in Frames /\ FrameOK(stack'[k], callbacks')
               /\ stack'[k].op = stack[k].op /\ stack'[k].who = stack[k].who
    <3>1. stack'[k] = [stack[k] EXCEPT
                           !.present = @ \cap ToSet(callbacks'),
                           !.removals = IF callbacks' = callbacks \/ @ = MaxLen THEN @
                                        ELSE @ + 1]
      BY <2>1
    <3>2. stack[k] \in Frames /\ FrameOK(stack[k], callbacks)
      BY <1>t, <1>f, <2>2
    <3>3. stack'[k] \in Frames /\ FrameOK(stack'[k], callbacks')
      BY <1>t, <2>1, <2>3, <3>1, <3>2, FrameAfterRemove
    <3> QED BY <3>1, <3>2, <3>3 DEF Frames
  <2>6. stack' \in Seq(Frames) /\ Len(stack') = n - 1 /\ DOMAIN stack' = 1 .. n - 1
    <3>1. n - 1 \in Nat
      BY <2>2
    <3>2. DOMAIN stack' = 1 .. n - 1
      BY <2>1
    <3>3. stack' = [k \in 1 .. n - 1 |-> stack'[k]]
      BY <2>1
    <3> HIDE DEF n
    <3>4. stack' \in [1 .. n - 1 -> Frames]
      BY <2>5, <3>3
    <3> QED BY <3>1, <3>2, <3>4
  <2>7. TypeOK'
    BY <1>t, <2>2, <2>4, <2>6 DEF TypeOK
  <2>8. Adding' = Adding
    <3>1. \A k \in 1 .. n - 1 : k \in Adding' <=> k \in Adding
      BY <1>t, <2>5, <2>6 DEF Adding
    <3>2. Adding \subseteq 1 .. n /\ Adding' \subseteq 1 .. n - 1 /\ n \notin Adding
      BY <1>t, <2>1, <2>2, <2>6 DEF Adding
    <3>3. n \in Nat
      BY <1>t
    <3> HIDE DEF n
    <3>4. /\ \A k \in 1 .. n : k # n => k \in 1 .. n - 1
          /\ n \notin 1 .. n - 1
      BY <3>3
    <3> QED BY Zenon, <3>1, <3>2, <3>4
  <2>9. CallsOK'
    <3>1. \A k \in DOMAIN stack' : stack'[k].op # "announce" => stack'[k].who \in Listeners
      BY <1>t, <2>2, <2>5, <2>6 DEF CallsOK
    <3>2. Len(callbacks') + Cardinality(Adding') <= MaxLen
      BY <1>t, <2>4, <2>8 DEF CallsOK
    <3> QED BY <3>1, <3>2 DEF CallsOK
  <2> QED BY <2>5, <2>6, <2>7, <2>9 DEF ChannelInv
<1>8. CASE UNCHANGED vars
  BY <1>8 DEF vars, ChannelInv, TypeOK, CallsOK, Adding
<1>9. ASSUME NEW c \in Listeners, Call("add", c) \/ Call("remove", c) PROVE ChannelInv'
  BY <1>1, <1>9 DEF Ops
<1>10. ASSUME Call("announce", NoListener) PROVE ChannelInv'
  BY <1>1, <1>10 DEF Ops
<1> QED
  BY <1>3, <1>4, <1>5, <1>6, <1>7, <1>8, <1>9, <1>10 DEF Next, Step

(* It holds of the empty vector and the empty stack. *)
LEMMA ChannelInit == Init => ChannelInv
<1> SUFFICES ASSUME Init PROVE ChannelInv
  OBVIOUS
<1>1. TypeOK
  BY BoundsAssumption DEF Init, TypeOK
<1>2. Adding = {}
  BY DEF Init, Adding
<1>3. CallsOK
  BY <1>2, FS_EmptySet, BoundsAssumption DEF Init, CallsOK
<1> QED BY <1>1, <1>3 DEF ChannelInv, Init

(* Every walk under way is in order and has missed few listeners, at any   *)
(* depth of nesting (MessageChannel.c:36-52).                              *)
THEOREM ChannelInvariant == Spec => []ChannelInv
BY ChannelInit, ChannelStep, PTL DEF Spec

(* The vector and the frames have their types, and the vector never holds  *)
(* more registrations than were admitted.                                  *)
THEOREM ChannelTypeCorrect == Spec => []TypeOK
<1>1. ChannelInv => TypeOK
  BY DEF ChannelInv
<1> QED
  BY <1>1, ChannelInvariant, PTL

(* An announcement under which nothing was removed has called every        *)
(* registration once and in order when it ends, those made under it too.   *)
THEOREM EachRegistrationHearsOnce == Spec => []HeardAll
<1>1. ChannelInv => HeardAll
  <2> SUFFICES ASSUME ChannelInv, AtEnd, Top.removals = 0 PROVE Top.heard = callbacks
    BY DEF HeardAll
  <2>1. stack # <<>> /\ ~Top.calling /\ Top.i >= Len(callbacks)
    BY DEF AtEnd
  <2>2. Len(stack) \in DOMAIN stack /\ Top = stack[Len(stack)] /\ Top \in Frames
    BY <2>1, TopOfStack DEF ChannelInv, TypeOK
  <2>3. InOrder(Top, callbacks)
    BY <2>2 DEF ChannelInv, FrameOK
  <2>4. Top.heard \in Seq(Listeners) /\ Top.i \in Nat /\ callbacks \in Seq(Listeners)
    BY <2>2 DEF Frames, ChannelInv, TypeOK
  <2>5. /\ Len(Top.heard) = Len(callbacks)
        /\ \A m \in 1 .. Len(callbacks) : Top.heard[m] = callbacks[m]
    BY <2>1, <2>3, <2>4 DEF InOrder, Passed
  <2> QED BY <2>4, <2>5, SeqEqual
<1> QED
  BY <1>1, ChannelInvariant, PTL

(* An announcement passes over no more of the listeners that stayed        *)
(* registered than there were removals under it (vec_foreach by index).    *)
THEOREM RemovalsBoundMisses == Spec => []MissBound
<1>1. ChannelInv => MissBound
  <2> SUFFICES ASSUME ChannelInv, AtEnd
               PROVE  Cardinality(Top.present \ ToSet(Top.heard)) <= Top.removals
    BY DEF MissBound
  <2>1. stack # <<>> /\ ~Top.calling /\ Top.i >= Len(callbacks)
    BY DEF AtEnd
  <2>2. Len(stack) \in DOMAIN stack /\ Top = stack[Len(stack)] /\ Top \in Frames
    BY <2>1, TopOfStack DEF ChannelInv, TypeOK
  <2>3. FewMissed(Top, callbacks)
    BY <2>2 DEF ChannelInv, FrameOK
  <2>4. Ahead(Top, callbacks) = {}
    <3>1. Top.i \in Nat /\ Len(callbacks) \in Nat
      BY <2>2 DEF Frames, ChannelInv, TypeOK
    <3> QED BY <2>1, <3>1 DEF Ahead, Passed
  <2>5. Missed(Top, callbacks) = Top.present \ ToSet(Top.heard)
    BY <2>4 DEF Missed
  <2> QED BY <2>3, <2>5 DEF FewMissed
<1> QED
  BY <1>1, ChannelInvariant, PTL
=============================================================================
