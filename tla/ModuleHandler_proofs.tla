------------------------ MODULE ModuleHandler_proofs ------------------------
(***************************************************************************)
(* What loading and unloading guarantee (ModuleHandler.cpp:70-341) for any *)
(* number of modules, any dependencies and any depth of the C stack that   *)
(* has room for one call of each module: ModulesInv is inductive and       *)
(* implies TypeOK, DependenciesHeld, UndefinedNeedsChain, DeepOnlyOnCycle  *)
(* and PermanentLeaves.                                                    *)
(*                                                                         *)
(* Two families of calls never nest in each other: the loads, each made    *)
(* for the sake of the one below, and the deletions, each of a module that *)
(* depends on that of the one below.  A path of needs that comes back to   *)
(* where it was is a cycle; the modules that were loaded with LoadModule   *)
(* have none, because a module enters the list after what it needs         *)
(* (AcyclicOK), and that bounds the deletions.  The loop of DeleteModule   *)
(* has left no dependent behind its iterator (LoopOK).                     *)
(***************************************************************************)
EXTENDS ModuleHandler, SequenceLemmas

Unique(s) == \A i, j \in 1 .. Len(s) : s[i] = s[j] => i = j

(* The elements of s before x, all of them if x is not among them. *)
Before(s, x) == {s[k] : k \in {k \in 1 .. Len(s) : \A j \in 1 .. k : s[j] # x}}

ListOK ==
    /\ needs \subseteq Names \X Names /\ loose \subseteq Names \X Names
    /\ \A m \in Names : <<m, m>> \notin needs
    /\ Modules \in Seq(Names) /\ Unique(Modules)
    /\ handles \subseteq Loaded /\ permanent \subseteq handles
    /\ stack \in Seq(Frames)
    /\ failed \in BOOLEAN
    /\ fate \in {"ok", "undefined", "overflow", "aborted"}

Is(i, call) == stack[i].call = call

LoadsOnly ==
    \A i \in 1 .. Len(stack) : Is(i, "load") \/ (i = 1 /\ Is(i, "loadall"))

DeletesOnly ==
    \A i \in 1 .. Len(stack) : Is(i, "delete") \/ (i = 1 /\ Is(i, "unloadall"))

(* Each call is of a module, and made for the sake of the call below. *)
StackOK ==
    /\ LoadsOnly \/ DeletesOnly
    /\ \A i \in 1 .. Len(stack) : Is(i, "load") \/ Is(i, "delete") => stack[i].mod \in Names
    /\ \A i \in 2 .. Len(stack) :
          /\ Is(i - 1, "load") => <<stack[i - 1].mod, stack[i].mod>> \in needs
          /\ Is(i - 1, "delete") => <<stack[i].mod, stack[i - 1].mod>> \in needs

(* What a module needs has been looked up, or is in the list.              *)
LookupOK ==
    \A i \in 1 .. Len(stack) : Is(i, "load") =>
        \A d \in Names :
            <<stack[i].mod, d>> \in needs => d \in stack[i].deps \/ d \in Loaded

HeldOK ==
    \A m \in handles, d \in Names : <<m, d>> \in needs => d \in Loaded

(* UnloadAll sorts the list by name; but for that, it is in order of need. *)
OrderOK ==
    (\A i \in 1 .. Len(stack) : ~Is(i, "unloadall")) =>
        \A i, j \in 1 .. Len(Modules) :
            Modules[j] \in handles /\ <<Modules[j], Modules[i]>> \in needs => i < j

AcyclicOK ==
    \A S \in SUBSET handles : S # {} => \E m \in S : \A d \in S : <<m, d>> \notin needs

(* The dependents that the iterator has passed are gone, but for the one   *)
(* that is being deleted.                                                  *)
Above(i) == IF i < Len(stack) THEN {stack[i + 1].mod} ELSE {}

LoopOK ==
    \A i \in 1 .. Len(stack) : Is(i, "delete") =>
        /\ stack[i].mod \in handles
        /\ stack[i].it \in Loaded \cup {End} =>
              \A x \in Before(Modules, stack[i].it) :
                  DependsOn(x, stack[i].mod) => x \in Above(i)

DistinctOK ==
    /\ \A i, j \in 1 .. Len(stack) :
          Is(i, "delete") /\ Is(j, "delete") /\ stack[i].mod = stack[j].mod => i = j
    /\ ~Cyclic =>
          /\ \A i, j \in 1 .. Len(stack) :
                Is(i, "load") /\ Is(j, "load") /\ stack[i].mod = stack[j].mod => i = j
          /\ fate # "overflow"

(* Unload was asked for a module that is not permanent. *)
BottomOK ==
    stack # <<>> /\ Is(1, "delete") => stack[1].mod \notin permanent

Chain == \E a, b, c \in Names : <<b, a>> \in needs /\ <<c, b>> \in needs

(* The iterator's element is in the list and is not the one being deleted. *)
IteratorOK ==
    ~Chain =>
        /\ \A i \in 1 .. Len(stack) : Is(i, "delete") =>
              stack[i].it \in Loaded \cup {End} /\ stack[i].it \notin Above(i)
        /\ fate # "undefined"

DepthOK == Len(stack) <= MaxDepth + 1

ModulesInv ==
    /\ ListOK /\ StackOK /\ LookupOK /\ HeldOK /\ OrderOK /\ AcyclicOK
    /\ LoopOK /\ DistinctOK /\ BottomOK /\ IteratorOK /\ DepthOK

-----------------------------------------------------------------------------
(* Where an element is in the list, and what follows it. *)
LEMMA ListFacts ==
    ASSUME ListOK
    PROVE  /\ Begin \in Loaded \cup {End}
           /\ Loaded \subseteq Names
           /\ \A x \in Loaded : /\ Position(x) \in 1 .. Len(Modules)
                                /\ Modules[Position(x)] = x
                                /\ Successor(x) \in Loaded \cup {End}
                                /\ Successor(x) # x
<1>1. Modules \in Seq(Names) /\ Unique(Modules) /\ Len(Modules) \in Nat
  BY DEF ListOK
<1>2. Loaded = {Modules[i] : i \in 1 .. Len(Modules)} /\ Loaded \subseteq Names
  BY <1>1 DEF Loaded, ToSet
<1>3. Begin \in Loaded \cup {End}
  BY <1>1, <1>2 DEF Begin
<1>4. ASSUME NEW x \in Loaded
      PROVE  /\ Position(x) \in 1 .. Len(Modules)
             /\ Modules[Position(x)] = x
             /\ Successor(x) \in Loaded \cup {End}
             /\ Successor(x) # x
  <2>1. Position(x) \in 1 .. Len(Modules) /\ Modules[Position(x)] = x
    BY <1>1, <1>2 DEF Position
  <2>2. CASE Position(x) = Len(Modules)
    <3>1. x # End
      BY <1>2 DEF Names, End
    <3> QED BY <2>1, <2>2, <3>1 DEF Successor
  <2>3. CASE Position(x) # Len(Modules)
    <3>1. Position(x) + 1 \in 1 .. Len(Modules) /\ Successor(x) = Modules[Position(x) + 1]
      BY <1>1, <2>1, <2>3 DEF Successor
    <3>2. Successor(x) # x
      BY <1>1, <2>1, <3>1 DEF Unique
    <3> QED BY <1>2, <2>1, <3>1, <3>2
  <2> QED BY <2>2, <2>3
<1> QED BY <1>2, <1>3, <1>4

(* The iterator starts with nothing behind it and moves over one element. *)
LEMMA BeforeBegin == ListOK => Before(Modules, Begin) = {}
<1> SUFFICES ASSUME ListOK PROVE Before(Modules, Begin) = {}
  OBVIOUS
<1>1. Modules \in Seq(Names)
  BY DEF ListOK
<1> QED BY <1>1 DEF Before, Begin

(* What the loop has passed when its iterator moves on by one. *)
LEMMA BeforeSuccessor ==
    ASSUME ListOK, NEW x \in Loaded
    PROVE  Before(Modules, Successor(x)) \subseteq Before(Modules, x) \cup {x}
<1>1. /\ Modules \in Seq(Names) /\ Unique(Modules) /\ Len(Modules) \in Nat
  BY DEF ListOK
<1>2. Position(x) \in 1 .. Len(Modules) /\ Modules[Position(x)] = x
  BY ListFacts
<1> DEFINE p == Position(x)
<1>3. ASSUME NEW k \in 1 .. Len(Modules), \A j \in 1 .. k : Modules[j] # Successor(x)
      PROVE  k <= p
  <2>1. CASE p = Len(Modules)
    BY <1>1, <1>2, <2>1
  <2>2. CASE p # Len(Modules)
    <3>1. Successor(x) = Modules[p + 1]
      BY <2>2 DEF Successor
    <3>2. ~(p + 1 \in 1 .. k)
      BY <1>3, <3>1
    <3> QED BY <1>1, <1>2, <3>2
  <2> QED BY <2>1, <2>2
<1>4. ASSUME NEW k \in 1 .. Len(Modules), k < p
      PROVE  \A j \in 1 .. k : Modules[j] # x
  BY <1>1, <1>2, <1>4 DEF Unique
<1>5. ASSUME NEW y \in Before(Modules, Successor(x)), y # x
      PROVE  y \in Before(Modules, x)
  <2>1. PICK k \in 1 .. Len(Modules) :
            y = Modules[k] /\ \A j \in 1 .. k : Modules[j] # Successor(x)
    BY DEF Before
  <2>2. k <= p /\ k # p
    BY <1>2, <1>3, <1>5, <2>1
  <2>3. k < p
    BY <1>1, <1>2, <2>2
  <2> QED BY <1>4, <2>1, <2>3 DEF Before
<1> QED BY <1>5

(* Erasing an element of the list changes nothing else in it. *)
LEMMA Erased ==
    ASSUME ListOK, NEW m \in Loaded, NEW t, t = RemoveAt(Modules, Position(m))
    PROVE  /\ t \in Seq(Names) /\ Unique(t) /\ ToSet(t) = Loaded \ {m}
           /\ Len(t) = Len(Modules) - 1
           /\ \A i \in 1 .. Len(t) :
                 t[i] = Modules[IF i < Position(m) THEN i ELSE i + 1]
           /\ \A x \in ToSet(t) \cup {End} : Before(t, x) \subseteq Before(Modules, x) \ {m}
<1> DEFINE p == Position(m)
           at(i) == IF i < p THEN i ELSE i + 1
<1>1. /\ Modules \in Seq(Names) /\ Unique(Modules) /\ Len(Modules) \in Nat
      /\ p \in 1 .. Len(Modules) /\ Modules[p] = m
  BY ListFacts DEF ListOK
<1>2. /\ t \in Seq(Names) /\ Len(t) = Len(Modules) - 1
      /\ \A i \in 1 .. Len(t) : t[i] = Modules[at(i)]
  <2>1. /\ RemoveAt(Modules, p) \in Seq(Names)
        /\ Len(RemoveAt(Modules, p)) = Len(Modules) - 1
        /\ \A i \in 1 .. Len(Modules) - 1 :
              RemoveAt(Modules, p)[i] = IF i < p THEN Modules[i] ELSE Modules[i + 1]
    BY <1>1, RemovedAt
  <2> QED BY <2>1
<1> HIDE DEF p
<1>3. \A i \in 1 .. Len(t) : at(i) \in 1 .. Len(Modules) /\ at(i) # p
  BY <1>1, <1>2
<1>4. \A k \in 1 .. Len(Modules) : k # p =>
          \E i \in 1 .. Len(t) : at(i) = k
  <2> SUFFICES ASSUME NEW k \in 1 .. Len(Modules), k # p
               PROVE  \E i \in 1 .. Len(t) : at(i) = k
    OBVIOUS
  <2>1. CASE k < p
    BY <1>1, <1>2, <2>1
  <2>2. CASE k > p
    <3>1. k - 1 \in 1 .. Len(t) /\ at(k - 1) = k
      BY <1>1, <1>2, <2>2
    <3> QED BY <3>1
  <2> QED BY <1>1, <2>1, <2>2
<1>5. \A i, j \in 1 .. Len(t) : (at(i) = at(j) => i = j) /\ (i <= j <=> at(i) <= at(j))
  BY <1>1, <1>2
<1>6. Unique(t)
  BY <1>1, <1>2, <1>3, <1>5 DEF Unique
<1>7. Loaded = {Modules[i] : i \in 1 .. Len(Modules)} /\ ToSet(t) = {t[i] : i \in 1 .. Len(t)}
  BY <1>1, <1>2 DEF Loaded, ToSet
<1>8. ToSet(t) = Loaded \ {m}
  <2>1. ASSUME NEW y \in ToSet(t) PROVE y \in Loaded \ {m}
    <3>1. PICK i \in 1 .. Len(t) : y = t[i]
      BY <1>7
    <3>2. y = Modules[at(i)] /\ at(i) \in 1 .. Len(Modules) /\ at(i) # p
      BY <1>2, <1>3, <3>1
    <3>3. y # m
      BY <1>1, <3>2 DEF Unique
    <3> QED BY <1>7, <3>2, <3>3
  <2>2. ASSUME NEW y \in Loaded \ {m} PROVE y \in ToSet(t)
    <3>1. PICK k \in 1 .. Len(Modules) : y = Modules[k]
      BY <1>7
    <3>2. k # p
      BY <1>1, <3>1
    <3> QED BY <1>2, <1>4, <1>7, <3>1, <3>2
  <2> QED BY <2>1, <2>2
<1>9. ASSUME NEW x \in ToSet(t) \cup {End}, NEW y \in Before(t, x)
      PROVE  y \in Before(Modules, x) \ {m}
  <2>1. PICK i \in 1 .. Len(t) : y = t[i] /\ \A j \in 1 .. i : t[j] # x
    BY DEF Before
  <2>2. y \in ToSet(t) /\ y = Modules[at(i)] /\ at(i) \in 1 .. Len(Modules)
    BY <1>2, <1>3, <1>7, <2>1
  <2>3. x # m
    <3>1. m \in Names /\ End \notin Names
      BY ListFacts DEF End, Names
    <3> QED BY <1>8, <3>1
  <2>4. ASSUME NEW k \in 1 .. at(i) PROVE Modules[k] # x
    <3>1. CASE k = p
      BY <1>1, <2>3, <3>1
    <3>2. CASE k # p
      <4>1. PICK j \in 1 .. Len(t) : at(j) = k
        BY <1>2, <1>4, <2>2, <3>2
      <4>2. j \in 1 .. i
        BY <1>2, <1>5, <4>1
      <4> QED BY <1>2, <2>1, <4>1, <4>2
    <3> QED BY <3>1, <3>2
  <2> HIDE DEF at
  <2>5. y \in Before(Modules, x)
    BY <2>2, <2>4 DEF Before
  <2> QED BY <1>8, <2>2, <2>5
<1> QED BY <1>2, <1>6, <1>8, <1>9 DEF p

-----------------------------------------------------------------------------
(* What each step does to the stack of calls.                              *)
Same(n) == \A k \in 1 .. n : stack'[k] = stack[k]

Pushes(g) ==
    /\ stack' \in Seq(Frames) /\ Len(stack') = Len(stack) + 1
    /\ Same(Len(stack)) /\ stack'[Len(stack) + 1] = g

Pops ==
    /\ Len(stack) \in Nat \ {0}
    /\ stack' \in Seq(Frames) /\ Len(stack') = Len(stack) - 1
    /\ Same(Len(stack) - 1)

Changes(f) ==
    /\ Len(stack) \in Nat \ {0}
    /\ stack' \in Seq(Frames) /\ Len(stack') = Len(stack)
    /\ Same(Len(stack) - 1) /\ stack'[Len(stack)] = f

ChangesAndPushes(f, g) ==
    /\ Len(stack) \in Nat \ {0}
    /\ stack' \in Seq(Frames) /\ Len(stack') = Len(stack) + 1
    /\ Same(Len(stack) - 1) /\ stack'[Len(stack)] = f /\ stack'[Len(stack) + 1] = g

(* The call that is under way is the last frame of the stack. *)
LEMMA TopFrame ==
    ASSUME ListOK, stack # <<>>
    PROVE  /\ Len(stack) \in Nat \ {0} /\ Len(stack) >= 1
           /\ Top = stack[Len(stack)] /\ Top \in Frames
<1>1. stack \in Seq(Frames)
  BY DEF ListOK
<1>2. Len(stack) \in Nat \ {0}
  BY <1>1
<1> QED BY <1>1, <1>2 DEF Top, Last

(* The frames of new calls of LoadModule and DeleteModule are frames. *)
LEMMA NewFrames ==
    ASSUME ListOK, NEW m \in Names
    PROVE  LoadFrame(m) \in Frames /\ DeleteFrame(m) \in Frames
<1>1. Begin \in Names \cup {End}
  BY ListFacts
<1> QED BY <1>1 DEF LoadFrame, DeleteFrame, Frames

(* A call leaves the frames below it as they are. *)
LEMMA Push1 ==
    ASSUME ListOK, NEW g \in Frames, stack' = Append(stack, g)
    PROVE  Pushes(g)
<1>1. stack \in Seq(Frames) /\ Len(stack) \in Nat
  BY DEF ListOK
<1> QED BY <1>1 DEF Pushes, Same

(* A return leaves the frames below as they are. *)
LEMMA Pop1 ==
    ASSUME ListOK, stack # <<>>, stack' = Front(stack)
    PROVE  Pops
<1>1. stack \in Seq(Frames) /\ Len(stack) >= 1 /\ Len(stack) \in Nat \ {0}
  BY TopFrame DEF ListOK
<1>2. /\ Front(stack) \in Seq(Frames) /\ Len(Front(stack)) = Len(stack) - 1
      /\ \A k \in 1 .. Len(stack) - 1 : Front(stack)[k] = stack[k]
  BY <1>1, FrontOf
<1> QED BY <1>1, <1>2 DEF Pops, Same

(* A call that goes on, or goes on and makes another, leaves those below. *)
LEMMA Change1 ==
    ASSUME ListOK, stack # <<>>, NEW f \in Frames
    PROVE  /\ stack' = Resumed(f) => Changes(f)
           /\ \A g \in Frames : stack' = Append(Resumed(f), g) => ChangesAndPushes(f, g)
<1> DEFINE n == Len(stack)
<1>1. stack \in Seq(Frames) /\ n >= 1 /\ n \in Nat \ {0}
  BY TopFrame DEF ListOK
<1>2. /\ Resumed(f) \in Seq(Frames) /\ Len(Resumed(f)) = n /\ Resumed(f)[n] = f
      /\ \A k \in 1 .. n - 1 : Resumed(f)[k] = stack[k]
  BY <1>1, LastReplaced DEF Resumed
<1>3. ASSUME NEW g \in Frames
      PROVE  LET t == Append(Resumed(f), g)
             IN  /\ t \in Seq(Frames) /\ Len(t) = n + 1 /\ t[n + 1] = g /\ t[n] = f
                 /\ \A k \in 1 .. n - 1 : t[k] = stack[k]
  <2> DEFINE r == Resumed(f)
  <2>1. /\ r \in Seq(Frames) /\ Len(r) = n /\ r[n] = f
        /\ \A k \in 1 .. n - 1 : r[k] = stack[k]
    BY <1>2
  <2> HIDE DEF r, n
  <2>2. n \in Nat /\ n >= 1
    BY <1>1
  <2>3. /\ Append(r, g) \in Seq(Frames) /\ Len(Append(r, g)) = n + 1
        /\ Append(r, g)[n + 1] = g
        /\ \A k \in 1 .. n : Append(r, g)[k] = r[k]
    BY <2>1, AppendProperties
  <2> QED BY <2>1, <2>2, <2>3 DEF r
<1> QED BY <1>1, <1>2, <1>3 DEF Changes, ChangesAndPushes, Same

-----------------------------------------------------------------------------
(* The list and the stack keep their types.                                *)
LEMMA ListStep == ListOK /\ StackOK /\ LoopOK /\ [Next]_vars => ListOK'
<1> SUFFICES ASSUME ListOK, StackOK, LoopOK, [Next]_vars PROVE ListOK'
  OBVIOUS
<1>t. /\ needs \subseteq Names \X Names /\ loose \subseteq Names \X Names
      /\ \A m \in Names : <<m, m>> \notin needs
      /\ Modules \in Seq(Names) /\ Unique(Modules) /\ Len(Modules) \in Nat
      /\ handles \subseteq Loaded /\ permanent \subseteq handles
      /\ Loaded = {Modules[i] : i \in 1 .. Len(Modules)} /\ Loaded \subseteq Names
      /\ stack \in Seq(Frames)
      /\ failed \in BOOLEAN /\ fate \in {"ok", "undefined", "overflow", "aborted"}
  BY ListFacts DEF ListOK, Loaded, ToSet
<1>a. ASSUME stack' \in Seq(Frames), failed' \in BOOLEAN, UNCHANGED <<onDisk>>,
             fate' \in {"ok", "undefined", "overflow", "aborted"},
             Modules' \in Seq(Names), Unique(Modules'),
             handles' \subseteq Loaded', permanent' \subseteq handles'
      PROVE  ListOK'
  BY <1>t, <1>a DEF ListOK, onDisk
<1>b. ASSUME stack' \in Seq(Frames), failed' \in BOOLEAN, UNCHANGED <<onDisk>>,
             fate' \in {"ok", "undefined", "overflow", "aborted"},
             UNCHANGED <<Modules, handles, permanent>>
      PROVE  ListOK'
  BY <1>t, <1>a, <1>b DEF Loaded
<1>c. ASSUME NEW m \in Names, m \notin Loaded, Modules' = Append(Modules, m)
      PROVE  Modules' \in Seq(Names) /\ Unique(Modules') /\ Loaded' = Loaded \cup {m}
  <2>1. Modules' \in Seq(Names)
    BY <1>t, <1>c
  <2>2. Loaded' = Loaded \cup {m}
    BY <1>t, <1>c, AppendElems DEF Loaded
  <2>3. Unique(Modules')
    BY <1>t, <1>c DEF Unique
  <2> QED BY <2>1, <2>2, <2>3
<1>1. ASSUME NEW m \in Names, CallLoad(m) PROVE ListOK'
  <2>1. stack' \in Seq(Frames)
    BY <1>1, NewFrames, Push1 DEF CallLoad, Push, Pushes
  <2> QED BY <1>t, <1>1, <1>b, <2>1 DEF CallLoad
<1>2. ASSUME NEW d \in Names, Satisfied(d) PROVE ListOK'
  <2>1. [Top EXCEPT !.deps = @ \ {d}] \in Frames /\ stack # <<>>
    BY <1>2, TopFrame DEF Satisfied, InCall, Frames
  <2>2. stack' \in Seq(Frames)
    BY <1>2, <2>1, Change1 DEF Satisfied, Changes
  <2> QED BY <1>t, <1>2, <1>b, <2>2 DEF Satisfied
<1>3. ASSUME NEW d \in Names, LoadDependency(d) PROVE ListOK'
  <2>1. stack' \in Seq(Frames)
    BY <1>t, <1>3, NewFrames, Push1 DEF LoadDependency, Push, Pushes
  <2> QED BY <1>t, <1>3, <1>b, <2>1 DEF LoadDependency
<1>4. ASSUME DependencyFailed \/ LoadFails \/ LoadModulesDone \/ UnloadDone PROVE ListOK'
  <2>1. stack' \in Seq(Frames)
    BY <1>4, Pop1
       DEF DependencyFailed, LoadFails, LoadModulesDone, UnloadDone, InCall, Return, Pops
  <2>2. failed' \in BOOLEAN
    <3>1. failed' = (Len(stack) > 1) \/ failed' = FALSE \/ failed' = failed
      BY <1>4 DEF DependencyFailed, LoadFails, LoadModulesDone, UnloadDone
    <3>2. (Len(stack) > 1) \in BOOLEAN
      OBVIOUS
    <3> QED BY Zenon, <1>t, <3>1, <3>2
  <2> QED BY <1>t, <1>4, <1>b, <2>1, <2>2
          DEF DependencyFailed, LoadFails, LoadModulesDone, UnloadDone
<1>5. ASSUME NEW isPermanent \in BOOLEAN, LoadOK(isPermanent) PROVE ListOK'
  <2>1. stack' \in Seq(Frames) /\ stack # <<>>
    BY <1>5, Pop1 DEF LoadOK, InCall, Return, Pops
  <2>2. Top.mod \in Names
    <3>1. Is(Len(stack), "load") /\ Len(stack) \in 1 .. Len(stack) /\ Top = stack[Len(stack)]
      BY <1>5, <2>1, TopFrame DEF LoadOK, InCall, Is
    <3> QED BY <3>1 DEF StackOK
  <2>3. Modules' \in Seq(Names) /\ Unique(Modules') /\ Loaded' = Loaded \cup {Top.mod}
    BY <1>5, <1>c, <2>2 DEF LoadOK
  <2>4. handles' \subseteq Loaded' /\ permanent' \subseteq handles'
    BY <1>t, <1>5, <2>3 DEF LoadOK
  <2> QED BY <1>t, <1>5, <1>a, <2>1, <2>3, <2>4 DEF LoadOK
<1>6. ASSUME LoadModules PROVE ListOK'
  <2>1. [call |-> "loadall", mod |-> End, it |-> End, deps |-> Names] \in Frames
    BY DEF Frames
  <2>2. stack' \in Seq(Frames)
    BY <1>6, <2>1, Push1 DEF LoadModules, Push, Pushes
  <2> QED BY <1>t, <1>6, <1>b, <2>2 DEF LoadModules
<1>7. ASSUME LoadNext PROVE ListOK'
  <2> DEFINE m == Min(Top.deps)
             f == [Top EXCEPT !.deps = @ \ {m}]
  <2>1. stack # <<>> /\ Top \in Frames /\ Top.deps # {} /\ Top.deps \subseteq Names
    BY <1>7, TopFrame DEF LoadNext, InCall, Frames
  <2>2. m \in Names
    <3>1. Top.deps \in SUBSET Nat
      BY <2>1 DEF Names
    <3>2. \E x \in Top.deps : \A y \in Top.deps : x <= y
      BY <2>1, <3>1, LeastIndex
    <3>3. m \in Top.deps
      BY <3>2 DEF Min
    <3> QED BY <2>1, <3>3
  <2>3. stack' = Resumed(f) \/ stack' = Append(Resumed(f), LoadFrame(m))
    BY <1>7 DEF LoadNext
  <2> HIDE DEF m
  <2>4. f \in Frames /\ LoadFrame(m) \in Frames
    BY <2>1, <2>2, NewFrames DEF Frames
  <2>5. stack' \in Seq(Frames)
    BY <2>1, <2>3, <2>4, Change1 DEF Changes, ChangesAndPushes
  <2> QED BY <1>t, <1>7, <1>b, <2>5 DEF LoadNext
<1>8. ASSUME NEW m \in Names, BuiltIn(m) PROVE ListOK'
  <2>1. Modules' \in Seq(Names) /\ Unique(Modules') /\ Loaded' = Loaded \cup {m}
    BY <1>8, <1>c DEF BuiltIn
  <2> QED BY <1>t, <1>8, <1>a, <2>1 DEF BuiltIn
<1>9. ASSUME NEW m \in Names, Unload(m) PROVE ListOK'
  <2>1. stack' \in Seq(Frames)
    BY <1>9, NewFrames, Push1 DEF Unload, Push, Pushes
  <2> QED BY <1>t, <1>9, <1>b, <2>1 DEF Unload
<1>10. ASSUME Visit PROVE ListOK'
  <2> DEFINE f == [Top EXCEPT !.it = Successor(Top.it)]
             g == DeleteFrame(Top.it)
  <2>1. stack # <<>> /\ Top \in Frames /\ Top.it \in Loaded
    BY <1>10, TopFrame DEF Visit, InCall
  <2>2. stack' = Resumed(f) \/ stack' = Append(Resumed(f), g)
    BY <1>10 DEF Visit
  <2>3. Successor(Top.it) \in Names \cup {End}
    BY <1>t, <2>1, ListFacts
  <2>4. f \in Frames /\ g \in Frames
    BY <1>t, <2>1, <2>3, NewFrames DEF Frames
  <2>5. stack' \in Seq(Frames)
    BY <2>1, <2>2, <2>4, Change1 DEF Changes, ChangesAndPushes
  <2> QED BY <1>t, <1>10, <1>b, <2>5 DEF Visit
<1>11. ASSUME VisitFreed PROVE ListOK'
  BY <1>t, <1>b, <1>11 DEF VisitFreed
<1>12. ASSUME Destroy PROVE ListOK'
  <2>1. stack' \in Seq(Frames)
    BY <1>12, Pop1 DEF Destroy, InCall, Return, Pops
  <2>2. Modules' \in Seq(Names) /\ Unique(Modules') /\ Loaded' = Loaded \ {Top.mod}
    <3>1. CASE Top.mod \in Loaded
      <4>1. Modules' = RemoveAt(Modules, Position(Top.mod))
        BY <1>12, <3>1 DEF Destroy
      <4> QED BY <3>1, <4>1, Erased DEF Loaded
    <3>2. CASE Top.mod \notin Loaded
      <4>1. Modules' = Modules
        BY <1>12, <3>2 DEF Destroy
      <4> QED BY <1>t, <3>2, <4>1 DEF Loaded
    <3> QED BY <3>1, <3>2
  <2>3. handles' \subseteq Loaded' /\ permanent' \subseteq handles'
    BY <1>t, <1>12, <2>2 DEF Destroy
  <2> QED BY <1>t, <1>12, <1>a, <2>1, <2>2, <2>3 DEF Destroy
<1>13. ASSUME UnloadAll PROVE ListOK'
  <2>1. [call |-> "unloadall", mod |-> End, deps |-> {}, it |-> End] \in Frames
    BY DEF Frames
  <2>2. stack' \in Seq(Frames)
    BY <1>13, <2>1, Push1 DEF UnloadAll, Push, Pushes
  <2>3. Modules' \in Seq(Names) /\ Unique(Modules') /\ Loaded' = Loaded
    <3>1. Loaded \in SUBSET Nat /\ IsFiniteSet(Loaded)
      <4>1. Names \subseteq Nat
        BY DEF Names
      <4>2. IsFiniteSet(ToSet(Modules))
        BY <1>t, DistinctElements
      <4>3. IsFiniteSet(Loaded)
        BY Zenon, <4>2 DEF Loaded
      <4> QED BY <1>t, <4>1, <4>3
    <3>2. /\ Modules' \in [1 .. Cardinality(Loaded) -> Loaded]
          /\ \A i, j \in DOMAIN Modules' : i < j => Modules'[i] < Modules'[j]
      BY <1>13, <3>1, Sortable DEF UnloadAll, Sorted
    <3>3. /\ Modules' \in Seq(Loaded) /\ ToSet(Modules') = Loaded
          /\ Unique(Modules')
      BY <3>1, <3>2, SortedComplete DEF Unique
    <3>4. Modules' \in Seq(Names)
      BY <1>t, <3>3
    <3> QED BY <3>3, <3>4 DEF Loaded
  <2> QED BY <1>t, <1>13, <1>a, <2>2, <2>3 DEF UnloadAll
<1>14. ASSUME UnloadFront PROVE ListOK'
  <2>1. stack' \in Seq(Frames)
    BY <1>t, <1>14, NewFrames, Push1 DEF UnloadFront, Push, Pushes
  <2> QED BY <1>t, <1>14, <1>b, <2>1 DEF UnloadFront
<1>15. CASE UNCHANGED vars
  BY <1>t, <1>15, <1>b DEF vars
<1>16. ASSUME NEW m \in Names, CopyAborts(m) PROVE ListOK'
  BY <1>t, <1>16, <1>b DEF CopyAborts
<1> QED
  BY <1>1, <1>2, <1>3, <1>4, <1>5, <1>6, <1>7, <1>8, <1>9, <1>10, <1>11, <1>12, <1>13,
     <1>14, <1>15, <1>16 DEF Next, Step, Application

-----------------------------------------------------------------------------
(* The kinds of steps, by what they do to the stack and to the list.       *)
N == Len(stack)
ListKept == UNCHANGED <<Modules, handles, permanent>>
Kept == ListKept /\ fate' = fate

(* Nothing changes, or the process ends in an assertion. *)
DoesNothing == ListKept /\ stack' = stack /\ fate' \in {fate, "aborted"}

(* The application calls; the stack was empty. *)
Begins(g) ==
    /\ N = 0 /\ Pushes(g) /\ Kept
    /\ \/ g.call = "loadall"
       \/ \E m \in Names : g = LoadFrame(m)
       \/ \E m \in handles \ permanent : g = DeleteFrame(m)

BeginsUnloadAll(g) ==
    /\ N = 0 /\ Pushes(g) /\ g.call = "unloadall"
    /\ UNCHANGED <<handles, permanent, fate>> /\ Loaded' = Loaded

AddsBuiltIn(m) ==
    /\ N = 0 /\ stack' = stack /\ UNCHANGED <<handles, permanent, fate>>
    /\ m \in Names \ Loaded /\ Modules' = Append(Modules, m)

(* In a load. *)
LooksUp(f) ==
    /\ N >= 1 /\ Changes(f) /\ Kept
    /\ f.call = stack[N].call /\ f.mod = stack[N].mod
    /\ \/ Is(N, "loadall")
       \/ Is(N, "load") /\ stack[N].deps \subseteq f.deps \cup Loaded

LoadsNeeded(m) ==
    /\ N >= 1 /\ Is(N, "load") /\ m \in Names /\ <<stack[N].mod, m>> \in needs
    /\ Pushes(LoadFrame(m)) /\ Kept /\ N < MaxDepth

Overflows(m) ==
    /\ N >= 1 /\ Is(N, "load") /\ m \in Names /\ <<stack[N].mod, m>> \in needs
    /\ N >= MaxDepth /\ stack' = stack /\ ListKept /\ fate' = "overflow"

LoadsFile(f, m) ==
    /\ N >= 1 /\ Is(N, "loadall") /\ m \in Names
    /\ f.call = stack[N].call /\ f.mod = stack[N].mod
    /\ ChangesAndPushes(f, LoadFrame(m)) /\ Kept

FinishesLoad ==
    /\ N >= 1 /\ Is(N, "load") /\ Pops /\ fate' = fate
    /\ stack[N].deps = {} /\ stack[N].mod \notin Loaded
    /\ Modules' = Append(Modules, stack[N].mod)
    /\ handles' = handles \cup {stack[N].mod}
    /\ permanent' \subseteq permanent \cup {stack[N].mod} /\ permanent \subseteq permanent'

(* Any other return, but for that of a DeleteModule. *)
Returns ==
    /\ N >= 1 /\ ~Is(N, "delete") /\ Pops /\ Kept
    /\ Is(N, "unloadall") => Modules = <<>>

(* In a deletion. *)
Passes(f) ==
    /\ N >= 1 /\ Is(N, "delete") /\ Changes(f) /\ Kept
    /\ stack[N].it \in Loaded /\ ~DependsOn(stack[N].it, stack[N].mod)
    /\ f.call = "delete" /\ f.mod = stack[N].mod /\ f.it = Successor(stack[N].it)

DeletesDependent(f) ==
    /\ N >= 1 /\ Is(N, "delete") /\ Kept
    /\ stack[N].it \in Loaded /\ DependsOn(stack[N].it, stack[N].mod)
    /\ f.call = "delete" /\ f.mod = stack[N].mod /\ f.it = Successor(stack[N].it)
    /\ ChangesAndPushes(f, DeleteFrame(stack[N].it))

UsesErased ==
    /\ N >= 1 /\ Is(N, "delete") /\ stack' = stack /\ ListKept
    /\ stack[N].it # End /\ stack[N].it \notin Loaded /\ fate' = "undefined"

Destroys(m) ==
    /\ N >= 1 /\ Is(N, "delete") /\ Pops /\ fate' = fate
    /\ m = stack[N].mod /\ stack[N].it = End
    /\ Modules' = IF m \in Loaded THEN RemoveAt(Modules, Position(m)) ELSE Modules
    /\ handles' = handles \ {m} /\ permanent' = permanent \ {m}

DeletesFront(m) ==
    /\ N >= 1 /\ Is(N, "unloadall") /\ Kept
    /\ m \in handles /\ Pushes(DeleteFrame(m))

Kind ==
    \/ DoesNothing
    \/ \E g \in Frames : Begins(g) \/ BeginsUnloadAll(g)
    \/ \E m \in Names : AddsBuiltIn(m)
    \/ \E f \in Frames : LooksUp(f)
    \/ \E m \in Names : LoadsNeeded(m) \/ Overflows(m)
    \/ \E f \in Frames, m \in Names : LoadsFile(f, m)
    \/ FinishesLoad
    \/ Returns
    \/ \E f \in Frames : Passes(f) \/ DeletesDependent(f)
    \/ UsesErased
    \/ \E m \in Names \cup {End} : Destroys(m)
    \/ \E m \in Names : DeletesFront(m)

(* Every step is of one of these kinds, and the files stay as they are. *)
LEMMA StepKinds ==
    ASSUME ListOK, [Next]_vars
    PROVE  needs' = needs /\ Kind
<1> DEFINE Goal == needs' = needs /\ Kind
<1>t. /\ Loaded \subseteq Names /\ handles \subseteq Loaded
      /\ Modules \in Seq(Names) /\ stack \in Seq(Frames) /\ N \in Nat
  BY ListFacts DEF ListOK, N
<1>e. stack = <<>> => N = 0
  BY DEF N
<1>n. stack # <<>> => N >= 1 /\ Top = stack[N] /\ Top \in Frames
  BY TopFrame DEF N
<1> USE DEF Kind
<1>1. ASSUME NEW m \in Names, CallLoad(m) PROVE Goal
  <2>1. LoadFrame(m) \in Frames /\ Pushes(LoadFrame(m))
    BY <1>1, NewFrames, Push1 DEF CallLoad, Push
  <2>2. Begins(LoadFrame(m))
    BY <1>1, <1>e, <2>1 DEF CallLoad, Begins, Kept, ListKept
  <2> QED BY <1>1, <2>1, <2>2 DEF CallLoad, onDisk
<1>2. ASSUME NEW d \in Names, Satisfied(d) PROVE Goal
  <2> DEFINE f == [Top EXCEPT !.deps = @ \ {d}]
  <2>1. stack # <<>> /\ Top.call = "load" /\ d \in Loaded /\ stack' = Resumed(f)
    BY <1>2 DEF Satisfied, InCall
  <2>2. /\ f \in Frames /\ f.call = Top.call /\ f.mod = Top.mod
        /\ Top.deps \subseteq f.deps \cup Loaded
    BY <1>n, <2>1 DEF Frames
  <2> HIDE DEF f
  <2>3. Changes(f)
    BY <2>1, <2>2, Change1
  <2>4. LooksUp(f)
    BY <1>2, <1>n, <2>1, <2>2, <2>3 DEF Satisfied, LooksUp, Kept, ListKept, Is
  <2> QED BY <1>2, <2>2, <2>4 DEF Satisfied, onDisk
<1>3. ASSUME NEW d \in Names, LoadDependency(d) PROVE Goal
  <2>1. stack # <<>> /\ Top.call = "load" /\ <<Top.mod, d>> \in needs /\ needs' = needs
    BY <1>3 DEF LoadDependency, InCall, onDisk
  <2>2. CASE N < MaxDepth
    <3>1. Pushes(LoadFrame(d))
      BY <1>3, <2>2, NewFrames, Push1 DEF LoadDependency, Push, N
    <3>2. LoadsNeeded(d)
      BY <1>3, <1>n, <2>1, <2>2, <3>1 DEF LoadDependency, LoadsNeeded, Kept, ListKept, Is, N
    <3> QED BY <2>1, <3>2
  <2>3. CASE ~(N < MaxDepth)
    <3>1. Overflows(d)
      BY <1>3, <1>n, <1>t, <2>1, <2>3, DepthAssumption
         DEF LoadDependency, Overflows, ListKept, Is, N
    <3> QED BY <2>1, <3>1
  <2> QED BY <2>2, <2>3
<1>4. ASSUME DependencyFailed \/ LoadFails \/ LoadModulesDone \/ UnloadDone PROVE Goal
  <2>1. /\ stack # <<>> /\ stack' = Front(stack) /\ Top.call # "delete" /\ Kept
        /\ Top.call = "unloadall" => Modules = <<>>
    BY <1>4 DEF DependencyFailed, LoadFails, LoadModulesDone, UnloadDone, InCall, Return,
                Kept, ListKept
  <2>2. Pops
    BY <2>1, Pop1
  <2>3. Returns
    BY <1>n, <2>1, <2>2 DEF Returns, Is
  <2> QED BY <1>4, <2>3
          DEF DependencyFailed, LoadFails, LoadModulesDone, UnloadDone, onDisk
<1>5. ASSUME NEW isPermanent \in BOOLEAN, LoadOK(isPermanent) PROVE Goal
  <2>1. stack # <<>> /\ Top.call = "load" /\ stack' = Front(stack)
    BY <1>5 DEF LoadOK, InCall, Return
  <2>2. FinishesLoad
    BY <1>5, <1>n, <2>1, Pop1 DEF LoadOK, FinishesLoad, Is
  <2> QED BY <1>5, <2>2 DEF LoadOK, onDisk
<1>6. ASSUME LoadModules PROVE Goal
  <2> DEFINE g == [call |-> "loadall", mod |-> End, it |-> End, deps |-> Names]
  <2>1. g \in Frames /\ g.call = "loadall"
    BY DEF Frames
  <2>2. stack' = Append(stack, g)
    BY <1>6 DEF LoadModules, Push
  <2> HIDE DEF g
  <2>3. Begins(g)
    BY <1>6, <1>e, <2>1, <2>2, Push1 DEF LoadModules, Begins, Kept, ListKept
  <2> QED BY <1>6, <2>1, <2>3 DEF LoadModules, onDisk
<1>7. ASSUME LoadNext PROVE Goal
  <2> DEFINE m == Min(Top.deps)
             f == [Top EXCEPT !.deps = @ \ {m}]
  <2>1. stack # <<>> /\ Top.call = "loadall" /\ Top.deps # {}
    BY <1>7 DEF LoadNext, InCall
  <2>2. m \in Names
    <3>1. Top.deps \in SUBSET Nat /\ Top.deps \subseteq Names
      BY <1>n, <2>1 DEF Names, Frames
    <3>2. \E x \in Top.deps : \A y \in Top.deps : x <= y
      BY <2>1, <3>1, LeastIndex
    <3>3. m \in Top.deps
      BY <3>2 DEF Min
    <3> QED BY <3>1, <3>3
  <2>3. stack' = IF m \in Loaded THEN Resumed(f) ELSE Append(Resumed(f), LoadFrame(m))
    BY <1>7 DEF LoadNext
  <2> HIDE DEF m
  <2>4. f \in Frames /\ LoadFrame(m) \in Frames /\ f.call = Top.call /\ f.mod = Top.mod
    BY <1>n, <2>1, <2>2, NewFrames DEF Frames
  <2> HIDE DEF f
  <2>5. Kept /\ needs' = needs
    BY <1>7 DEF LoadNext, onDisk, Kept, ListKept
  <2>6. CASE m \in Loaded
    <3>1. Changes(f)
      BY <2>1, <2>3, <2>4, <2>6, Change1
    <3>2. LooksUp(f)
      BY <1>n, <2>1, <2>4, <2>5, <3>1 DEF LooksUp, Is
    <3> QED BY <2>4, <2>5, <3>2
  <2>7. CASE m \notin Loaded
    <3>1. ChangesAndPushes(f, LoadFrame(m))
      BY <2>1, <2>3, <2>4, <2>7, Change1
    <3>2. LoadsFile(f, m)
      BY <1>n, <2>1, <2>2, <2>4, <2>5, <3>1 DEF LoadsFile, Is
    <3> QED BY <2>2, <2>4, <2>5, <3>2
  <2> QED BY <2>6, <2>7
<1>8. ASSUME NEW m \in Names, BuiltIn(m) PROVE Goal
  BY <1>8, <1>e DEF BuiltIn, AddsBuiltIn, onDisk
<1>9. ASSUME NEW m \in Names, Unload(m) PROVE Goal
  <2>1. DeleteFrame(m) \in Frames /\ Pushes(DeleteFrame(m))
    BY <1>9, NewFrames, Push1 DEF Unload, Push
  <2>2. Begins(DeleteFrame(m))
    BY <1>9, <1>e, <2>1 DEF Unload, Begins, Kept, ListKept
  <2> QED BY <1>9, <2>1, <2>2 DEF Unload, onDisk
<1>10. ASSUME Visit PROVE Goal
  <2> DEFINE f == [Top EXCEPT !.it = Successor(Top.it)]
             g == DeleteFrame(Top.it)
  <2>1. stack # <<>> /\ Top.call = "delete" /\ Top.it \in Loaded
    BY <1>10 DEF Visit, InCall
  <2>2. stack' = IF DependsOn(Top.it, Top.mod) THEN Append(Resumed(f), g) ELSE Resumed(f)
    BY <1>10 DEF Visit
  <2>3. Successor(Top.it) \in Names \cup {End}
    BY <1>t, <2>1, ListFacts
  <2>4. /\ f \in Frames /\ g \in Frames
        /\ f.call = "delete" /\ f.mod = Top.mod /\ f.it = Successor(Top.it)
    BY <1>t, <1>n, <2>1, <2>3, NewFrames DEF Frames
  <2> HIDE DEF f
  <2>5. Kept /\ needs' = needs
    BY <1>10 DEF Visit, onDisk, Kept, ListKept
  <2>6. CASE DependsOn(Top.it, Top.mod)
    <3>1. ChangesAndPushes(f, g)
      BY <2>1, <2>2, <2>4, <2>6, Change1
    <3>2. DeletesDependent(f)
      BY <1>n, <2>1, <2>4, <2>5, <2>6, <3>1 DEF DeletesDependent, Is
    <3> QED BY <2>4, <2>5, <3>2
  <2>7. CASE ~DependsOn(Top.it, Top.mod)
    <3>1. Changes(f)
      BY <2>1, <2>2, <2>4, <2>7, Change1
    <3>2. Passes(f)
      BY <1>n, <2>1, <2>4, <2>5, <2>7, <3>1 DEF Passes, Is
    <3> QED BY <2>4, <2>5, <3>2
  <2> QED BY <2>6, <2>7
<1>11. ASSUME VisitFreed PROVE Goal
  BY <1>11, <1>n DEF VisitFreed, InCall, UsesErased, ListKept, Is, onDisk
<1>12. ASSUME Destroy PROVE Goal
  <2>1. stack # <<>> /\ Top.call = "delete" /\ stack' = Front(stack)
    BY <1>12 DEF Destroy, InCall, Return
  <2>2. Top.mod \in Names \cup {End}
    BY <1>n, <2>1 DEF Frames
  <2>3. Destroys(Top.mod)
    BY <1>12, <1>n, <2>1, Pop1 DEF Destroy, Destroys, Is
  <2> QED BY <1>12, <2>2, <2>3 DEF Destroy, onDisk
<1>13. ASSUME UnloadAll PROVE Goal
  <2> DEFINE g == [call |-> "unloadall", mod |-> End, deps |-> {}, it |-> End]
  <2>1. g \in Frames /\ g.call = "unloadall"
    BY DEF Frames
  <2>2. stack' = Append(stack, g)
    BY <1>13 DEF UnloadAll, Push
  <2> HIDE DEF g
  <2>3. Loaded' = Loaded
    <3>1. Loaded \in SUBSET Nat /\ IsFiniteSet(Loaded)
      <4>1. Names \subseteq Nat
        BY DEF Names
      <4>2. IsFiniteSet(ToSet(Modules))
        BY <1>t, DistinctElements
      <4>3. IsFiniteSet(Loaded)
        BY Zenon, <4>2 DEF Loaded
      <4> QED BY <1>t, <4>1, <4>3
    <3>2. /\ Modules' \in [1 .. Cardinality(Loaded) -> Loaded]
          /\ \A i, j \in DOMAIN Modules' : i < j => Modules'[i] < Modules'[j]
      BY <1>13, <3>1, Sortable DEF UnloadAll, Sorted
    <3>3. ToSet(Modules') = Loaded
      BY <3>1, <3>2, SortedComplete
    <3> QED BY <3>3 DEF Loaded
  <2>4. BeginsUnloadAll(g)
    BY <1>13, <1>e, <2>1, <2>2, <2>3, Push1 DEF UnloadAll, BeginsUnloadAll
  <2> QED BY <1>13, <2>1, <2>4 DEF UnloadAll, onDisk
<1>14. ASSUME UnloadFront PROVE Goal
  <2>1. stack # <<>> /\ Top.call = "unloadall" /\ Kept /\ needs' = needs
    BY <1>14 DEF UnloadFront, InCall, Kept, ListKept, onDisk
  <2>2. CASE Modules[1] \in handles
    <3>1. Modules[1] \in Names
      BY <1>t, <2>2
    <3>2. Pushes(DeleteFrame(Modules[1]))
      BY <1>14, <2>2, <3>1, NewFrames, Push1 DEF UnloadFront, Push
    <3>3. DeletesFront(Modules[1])
      BY <1>n, <2>1, <2>2, <3>2 DEF DeletesFront, Is
    <3> QED BY <2>1, <3>1, <3>3
  <2>3. CASE Modules[1] \notin handles
    BY <1>14, <2>1, <2>3 DEF UnloadFront, DoesNothing, Kept
  <2> QED BY <2>2, <2>3
<1>15. ASSUME UNCHANGED vars PROVE Goal
  BY <1>15 DEF vars, onDisk, DoesNothing, ListKept
<1>19. ASSUME NEW m \in Names, CopyAborts(m) PROVE Goal
  BY <1>19 DEF CopyAborts, onDisk, DoesNothing, ListKept
<1> HIDE DEF Goal, Kind
<1>16. ASSUME Step PROVE Goal
  BY <1>2, <1>3, <1>4, <1>5, <1>7, <1>10, <1>11, <1>12, <1>14, <1>16 DEF Step
<1>17. ASSUME Application PROVE Goal
  BY <1>1, <1>6, <1>8, <1>9, <1>13, <1>17 DEF Application
<1>18. Goal
  BY <1>15, <1>16, <1>17, <1>19 DEF Next
<1> QED BY <1>18 DEF Goal

-----------------------------------------------------------------------------
(* A step returns from the last call, leaves the calls as they are or adds *)
(* one, which is made for the sake of the last.                            *)
Reason(g) ==
    \/ N = 0 /\ g.call \in {"loadall", "unloadall"}
    \/ N = 0 /\ g.call \in {"load", "delete"} /\ g.mod \in Names
    \/ /\ N >= 1 /\ g.call = "load" /\ g.mod \in Names
       /\ \/ Is(N, "loadall")
          \/ Is(N, "load") /\ <<stack[N].mod, g.mod>> \in needs
    \/ /\ N >= 1 /\ g.call = "delete" /\ g.mod \in Names \cap handles
       /\ \/ Is(N, "unloadall")
          \/ Is(N, "delete") /\ <<g.mod, stack[N].mod>> \in needs

CallsStep ==
    /\ N \in Nat /\ N' \in Nat
    /\ N' \in {N - 1, N, N + 1}
    /\ \A k \in 1 .. N :
          k <= N' => stack'[k].call = stack[k].call /\ stack'[k].mod = stack[k].mod
    /\ N' = N + 1 => Reason(stack'[N + 1])

(* What each kind of step does to the calls. *)
LEMMA KindCalls == ListOK /\ Kind => CallsStep
<1> SUFFICES ASSUME ListOK, Kind PROVE CallsStep
  OBVIOUS
<1>t. /\ N \in Nat /\ handles \subseteq Loaded /\ Loaded \subseteq Names
      /\ N = Len(stack) /\ N' = Len(stack')
  BY ListFacts DEF ListOK, N
<1>f. \A m \in Names : /\ LoadFrame(m).call = "load" /\ LoadFrame(m).mod = m
                       /\ DeleteFrame(m).call = "delete" /\ DeleteFrame(m).mod = m
  BY DEF LoadFrame, DeleteFrame
<1>a. ASSUME stack' = stack PROVE CallsStep
  BY <1>t, <1>a DEF CallsStep
<1>b. ASSUME Pops PROVE CallsStep
  BY <1>t, <1>b DEF CallsStep, Pops, Same
<1>c. ASSUME NEW g, Pushes(g), Reason(g) PROVE CallsStep
  BY <1>t, <1>c DEF CallsStep, Pushes, Same
<1>d. ASSUME NEW f, Changes(f), f.call = stack[N].call, f.mod = stack[N].mod
      PROVE  CallsStep
  BY <1>t, <1>d DEF CallsStep, Changes, Same
<1>e. ASSUME NEW f, NEW g, ChangesAndPushes(f, g), Reason(g),
             f.call = stack[N].call, f.mod = stack[N].mod
      PROVE  CallsStep
  BY <1>t, <1>e DEF CallsStep, ChangesAndPushes, Same
<1>1. CASE DoesNothing \/ UsesErased \/ \E m \in Names : AddsBuiltIn(m) \/ Overflows(m)
  BY <1>1, <1>a DEF DoesNothing, UsesErased, AddsBuiltIn, Overflows
<1>2. ASSUME NEW g \in Frames, Begins(g) PROVE CallsStep
  <2>1. Reason(g)
    BY <1>2, <1>t, <1>f DEF Begins, Reason
  <2> QED BY <1>2, <1>c, <2>1 DEF Begins
<1>3. ASSUME NEW g \in Frames, BeginsUnloadAll(g) PROVE CallsStep
  BY <1>3, <1>c DEF BeginsUnloadAll, Reason
<1>4. ASSUME NEW f \in Frames, LooksUp(f) \/ Passes(f) PROVE CallsStep
  BY <1>4, <1>d DEF LooksUp, Passes, Is
<1>5. ASSUME NEW m \in Names, LoadsNeeded(m) PROVE CallsStep
  <2>1. Reason(LoadFrame(m))
    BY <1>5, <1>f DEF LoadsNeeded, Reason
  <2> QED BY <1>5, <1>c, <2>1 DEF LoadsNeeded
<1>6. ASSUME NEW f \in Frames, NEW m \in Names, LoadsFile(f, m) PROVE CallsStep
  <2>1. Reason(LoadFrame(m))
    BY <1>6, <1>f DEF LoadsFile, Reason
  <2> QED BY <1>6, <1>e, <2>1 DEF LoadsFile
<1>7. CASE FinishesLoad \/ Returns \/ \E m \in Names \cup {End} : Destroys(m)
  BY <1>7, <1>b DEF FinishesLoad, Returns, Destroys
<1>8. ASSUME NEW f \in Frames, DeletesDependent(f) PROVE CallsStep
  <2>1. Reason(DeleteFrame(stack[N].it))
    BY <1>8, <1>t, <1>f DEF DeletesDependent, Reason, DependsOn
  <2>2. f.call = stack[N].call
    BY <1>8 DEF DeletesDependent, Is
  <2> QED BY <1>8, <1>e, <2>1, <2>2 DEF DeletesDependent
<1>9. ASSUME NEW m \in Names, DeletesFront(m) PROVE CallsStep
  <2>1. Reason(DeleteFrame(m))
    BY <1>9, <1>f DEF DeletesFront, Reason
  <2> QED BY <1>9, <1>c, <2>1 DEF DeletesFront
<1> QED
  BY <1>1, <1>2, <1>3, <1>4, <1>5, <1>6, <1>7, <1>8, <1>9 DEF Kind

(* The calls stay of one family, each made for the sake of the one below.  *)
LEMMA StackStep ==
    ASSUME ListOK, StackOK, CallsStep, needs' = needs
    PROVE  StackOK'
<1>t. /\ N \in Nat /\ N' \in Nat /\ Len(stack) = N /\ Len(stack') = N'
      /\ N' \in {N - 1, N, N + 1}
  BY DEF CallsStep, N
<1>k. \A k \in 1 .. N : k <= N' =>
          stack'[k].call = stack[k].call /\ stack'[k].mod = stack[k].mod
  BY DEF CallsStep
<1>g. N' = N + 1 => Reason(stack'[N + 1])
  BY DEF CallsStep
<1>s. /\ LoadsOnly \/ DeletesOnly
      /\ \A i \in 1 .. N : Is(i, "load") \/ Is(i, "delete") => stack[i].mod \in Names
      /\ \A i \in 2 .. N :
            /\ Is(i - 1, "load") => <<stack[i - 1].mod, stack[i].mod>> \in needs
            /\ Is(i - 1, "delete") => <<stack[i].mod, stack[i - 1].mod>> \in needs
  BY <1>t DEF StackOK
<1>1. LoadsOnly' \/ DeletesOnly'
  <2>1. CASE N' # N + 1
    <3>1. \A i \in 1 .. N' : i \in 1 .. N /\ stack'[i].call = stack[i].call
      BY <1>t, <1>k, <2>1
    <3> QED BY <1>t, <1>s, <3>1 DEF LoadsOnly, DeletesOnly, Is
  <2>2. CASE N' = N + 1 /\ N = 0
    <3>1. stack'[1].call \in {"load", "loadall", "delete", "unloadall"}
      BY <1>g, <2>2 DEF Reason
    <3> QED BY <1>t, <2>2, <3>1 DEF LoadsOnly, DeletesOnly, Is
  <2>3. CASE N' = N + 1 /\ N >= 1
    <3>1. \A i \in 1 .. N : stack'[i].call = stack[i].call
      BY <1>t, <1>k, <2>3
    <3>2. \/ stack'[N'].call = "load" /\ stack[N].call \in {"load", "loadall"}
          \/ stack'[N'].call = "delete" /\ stack[N].call \in {"delete", "unloadall"}
      BY <1>g, <2>3 DEF Reason, Is
    <3>3. \A i \in 1 .. N' : i \in 1 .. N \/ i = N'
      BY <1>t, <2>3
    <3>4. N \in 1 .. N
      BY <1>t, <2>3
    <3> QED BY <1>t, <1>s, <2>3, <3>1, <3>2, <3>3, <3>4 DEF LoadsOnly, DeletesOnly, Is
  <2> QED BY <1>t, <2>1, <2>2, <2>3
<1>2. ASSUME NEW i \in 1 .. N',
             stack'[i].call = "load" \/ stack'[i].call = "delete"
      PROVE  stack'[i].mod \in Names
  <2>1. CASE i \in 1 .. N
    BY <1>t, <1>k, <1>s, <1>2, <2>1 DEF Is
  <2>2. CASE i \notin 1 .. N
    <3>1. N' = N + 1 /\ i = N + 1
      BY <1>t, <2>2
    <3> QED BY <1>g, <1>2, <3>1 DEF Reason
  <2> QED BY <2>1, <2>2
<1>3. ASSUME NEW i \in 2 .. N'
      PROVE  /\ stack'[i - 1].call = "load" => <<stack'[i - 1].mod, stack'[i].mod>> \in needs
             /\ stack'[i - 1].call = "delete" => <<stack'[i].mod, stack'[i - 1].mod>> \in needs
  <2>1. /\ i - 1 \in 1 .. N /\ i - 1 <= N'
        /\ stack'[i - 1].call = stack[i - 1].call /\ stack'[i - 1].mod = stack[i - 1].mod
    BY <1>t, <1>k
  <2>2. CASE i \in 2 .. N
    BY <1>t, <1>k, <1>s, <2>1, <2>2 DEF Is
  <2>3. CASE i \notin 2 .. N
    <3>1. N' = N + 1 /\ i = N + 1 /\ N >= 1 /\ i - 1 = N
      BY <1>t, <2>3
    <3> QED BY <1>g, <2>1, <3>1 DEF Reason, Is
  <2> QED BY <2>2, <2>3
<1> QED BY <1>t, <1>1, <1>2, <1>3 DEF StackOK, Is

(* The call below a load is a load or LoadModules, that below a deletion a *)
(* deletion or UnloadAll, and these two are at the bottom.                 *)
LEMMA Families ==
    ASSUME ListOK, StackOK, N >= 1
    PROVE  /\ N \in Nat /\ N = Len(stack) /\ N \in 1 .. N
           /\ Is(N, "load") \/ Is(N, "loadall") \/ Is(N, "delete") \/ Is(N, "unloadall")
           /\ Is(N, "load") \/ Is(N, "loadall") => LoadsOnly
           /\ Is(N, "delete") \/ Is(N, "unloadall") => DeletesOnly
           /\ Is(N, "loadall") \/ Is(N, "unloadall") => N = 1
           /\ Is(N, "load") \/ Is(N, "delete") => stack[N].mod \in Names
<1>1. N \in Nat /\ N = Len(stack) /\ N \in 1 .. N /\ stack \in Seq(Frames)
  BY DEF ListOK, N
<1>2. stack[N] \in Frames
  BY <1>1
<1>3. stack[N].call \in {"load", "loadall", "delete", "unloadall"}
  BY <1>2 DEF Frames
<1>4. LoadsOnly \/ DeletesOnly
  BY DEF StackOK
<1> QED BY <1>1, <1>3, <1>4 DEF StackOK, LoadsOnly, DeletesOnly, Is

(* The list after the steps that change it. *)
LEMMA ListChanges ==
    ASSUME ListOK
    PROVE  /\ \A m \in Names : AddsBuiltIn(m) => Loaded' = Loaded \cup {m}
           /\ FinishesLoad => Loaded' = Loaded \cup {stack[N].mod}
           /\ \A m : Destroys(m) => Loaded' = Loaded \ {m}
           /\ ListKept => Loaded' = Loaded
<1>1. Modules \in Seq(Names) /\ Loaded = ToSet(Modules) /\ Loaded' = ToSet(Modules')
  BY DEF ListOK, Loaded
<1>2. \A m : Modules' = Append(Modules, m) => Loaded' = Loaded \cup {m}
  BY <1>1, AppendElems
<1>3. ASSUME NEW m, Destroys(m) PROVE Loaded' = Loaded \ {m}
  <2>1. CASE m \in Loaded
    <3>1. Modules' = RemoveAt(Modules, Position(m))
      BY <1>3, <2>1 DEF Destroys
    <3>2. ToSet(Modules') = Loaded \ {m}
      BY <2>1, <3>1, Erased
    <3> QED BY <1>1, <3>2
  <2>2. CASE m \notin Loaded
    BY <1>1, <1>3, <2>2 DEF Destroys
  <2> QED BY <2>1, <2>2
<1> QED BY <1>1, <1>2, <1>3 DEF AddsBuiltIn, FinishesLoad, ListKept

(* What a load has still to look up. *)
LEMMA LookupStep ==
    ASSUME ListOK, StackOK, LookupOK, Kind, needs' = needs
    PROVE  LookupOK'
<1>t. /\ N \in Nat /\ Len(stack) = N /\ Len(stack') = N'
      /\ ListKept => Loaded' = Loaded
  BY ListChanges DEF ListOK, N
<1>l. \A i \in 1 .. N : stack[i].call = "load" =>
         \A d \in Names : <<stack[i].mod, d>> \in needs => d \in stack[i].deps \/ d \in Loaded
  BY <1>t DEF LookupOK, Is
<1>n. \A m, d \in Names : <<m, d>> \in needs => d \in LoadFrame(m).deps
  BY DEF LoadFrame
<1>f. \A m \in Names : /\ LoadFrame(m).mod = m
                       /\ DeleteFrame(m).call = "delete"
  BY DEF LoadFrame, DeleteFrame
<1> DEFINE Found(i) == stack'[i].call = "load" =>
              \A d \in Names :
                 <<stack'[i].mod, d>> \in needs => d \in stack'[i].deps \/ d \in Loaded'
<1> SUFFICES ASSUME NEW i \in 1 .. N' PROVE Found(i)
  BY <1>t DEF LookupOK, Is
<1>a. ASSUME i \in 1 .. N, stack'[i] = stack[i], Loaded \subseteq Loaded' PROVE Found(i)
  BY <1>l, <1>a
<1>b. ASSUME NEW m \in Names, stack'[i] = LoadFrame(m) PROVE Found(i)
  BY <1>n, <1>f, <1>b
<1>c. ASSUME stack'[i].call # "load" PROVE Found(i)
  BY <1>c
<1> HIDE DEF Found
<1>1. CASE DoesNothing \/ UsesErased \/ \E m \in Names : AddsBuiltIn(m) \/ Overflows(m)
  <2>1. stack' = stack /\ Loaded \subseteq Loaded'
    BY <1>t, <1>1, ListChanges DEF DoesNothing, UsesErased, AddsBuiltIn, Overflows, Kept
  <2> QED BY <1>t, <1>a, <2>1
<1>2. ASSUME NEW g \in Frames, Begins(g) \/ BeginsUnloadAll(g) PROVE Found(i)
  <2>1. /\ N = 0 /\ N' = 1 /\ i = 1 /\ stack'[1] = g
    BY <1>t, <1>2 DEF Begins, BeginsUnloadAll, Pushes
  <2>2. g.call # "load" \/ \E m \in Names : g = LoadFrame(m)
    <3>1. \A m \in handles : m \in Names
      BY ListFacts DEF ListOK
    <3> QED BY <1>2, <1>f, <3>1 DEF Begins, BeginsUnloadAll
  <2> QED BY <1>b, <1>c, <2>1, <2>2
<1>3. ASSUME NEW f \in Frames, LooksUp(f) PROVE Found(i)
  <2>1. /\ N >= 1 /\ N' = N /\ stack'[N] = f /\ Loaded' = Loaded
        /\ \A k \in 1 .. N - 1 : stack'[k] = stack[k]
        /\ f.call = stack[N].call /\ f.mod = stack[N].mod
        /\ stack[N].call = "load" => stack[N].deps \subseteq f.deps \cup Loaded
    BY <1>t, <1>3 DEF LooksUp, Changes, Same, Kept, Is
  <2>2. CASE i = N
    <3>1. N \in 1 .. N
      BY <1>t, <2>1
    <3> QED BY <1>l, <2>1, <2>2, <3>1 DEF Found
  <2>3. CASE i # N
    <3>1. i \in 1 .. N - 1 /\ i \in 1 .. N
      BY <1>t, <2>1, <2>3
    <3> QED BY <1>a, <2>1, <3>1
  <2> QED BY <2>2, <2>3
<1>4. ASSUME NEW m \in Names, LoadsNeeded(m) \/ DeletesFront(m) PROVE Found(i)
  <2>1. /\ N' = N + 1 /\ \A k \in 1 .. N : stack'[k] = stack[k]
        /\ stack'[N + 1] = LoadFrame(m) \/ stack'[N + 1] = DeleteFrame(m)
        /\ Loaded' = Loaded
    BY <1>t, <1>4 DEF LoadsNeeded, DeletesFront, Pushes, Same, Kept
  <2>2. CASE i = N + 1
    BY <1>b, <1>c, <1>f, <2>1, <2>2
  <2>3. CASE i # N + 1
    <3>1. i \in 1 .. N
      BY <1>t, <2>1, <2>3
    <3> QED BY <1>a, <2>1, <3>1
  <2> QED BY <2>2, <2>3
<1>5. ASSUME NEW f \in Frames, NEW m \in Names, LoadsFile(f, m) PROVE Found(i)
  <2>1. /\ N >= 1 /\ N' = N + 1 /\ stack'[N] = f /\ f.call = "loadall"
        /\ \A k \in 1 .. N - 1 : stack'[k] = stack[k]
        /\ stack'[N + 1] = LoadFrame(m) /\ Loaded' = Loaded
    BY <1>t, <1>5 DEF LoadsFile, ChangesAndPushes, Same, Kept, Is
  <2>2. i \in 1 .. N - 1 \/ i = N \/ i = N + 1
    BY <1>t, <2>1
  <2>3. CASE i \in 1 .. N - 1
    <3>1. i \in 1 .. N
      BY <1>t, <2>3
    <3> QED BY <1>a, <2>1, <2>3, <3>1
  <2> QED BY <1>b, <1>c, <2>1, <2>2, <2>3
<1>6. CASE FinishesLoad \/ Returns
  <2>1. /\ N >= 1 /\ N' = N - 1 /\ \A k \in 1 .. N - 1 : stack'[k] = stack[k]
        /\ Loaded \subseteq Loaded'
    BY <1>t, <1>6, ListChanges DEF FinishesLoad, Returns, Pops, Same, Kept
  <2>2. i \in 1 .. N - 1 /\ i \in 1 .. N
    BY <1>t, <2>1
  <2> QED BY <1>a, <2>1, <2>2
<1>7. ASSUME \/ \E f \in Frames : Passes(f) \/ DeletesDependent(f)
             \/ \E m \in Names \cup {End} : Destroys(m)
      PROVE  Found(i)
  <2>1. N >= 1 /\ Is(N, "delete")
    BY <1>7 DEF Passes, DeletesDependent, Destroys
  <2>2. DeletesOnly
    BY <2>1, Families
  <2>3. CallsStep
    BY KindCalls
  <2>4. StackOK'
    BY <2>3, StackStep
  <2>5. \A k \in 1 .. N : stack[k].call # "load"
    BY <1>t, <2>2 DEF DeletesOnly, Is
  <2>6. stack'[i].call # "load"
    <3>1. CASE i \in 1 .. N
      <4>1. stack'[i].call = stack[i].call
        BY <1>t, <2>3, <3>1 DEF CallsStep
      <4> QED BY <2>5, <3>1, <4>1
    <3>2. CASE i \notin 1 .. N
      <4>1. N' = N + 1 /\ i = N + 1
        BY <1>t, <2>3, <3>2 DEF CallsStep
      <4>2. Reason(stack'[i])
        BY <2>3, <4>1 DEF CallsStep
      <4> QED BY <1>t, <2>1, <4>2 DEF Reason, Is
    <3> QED BY <3>1, <3>2
  <2> QED BY <1>c, <2>6
<1>8. Kind
  OBVIOUS
<1> QED
  BY <1>1, <1>2, <1>3, <1>4, <1>5, <1>6, <1>7, <1>8 DEF Kind

(* The handles, the list and the fate change in these ways and no other.   *)
LEMMA HandleChanges ==
    Kind => \/ ListKept
            \/ handles' = handles /\ permanent' = permanent
                  /\ \E g \in Frames : BeginsUnloadAll(g)
            \/ handles' = handles /\ permanent' = permanent
                  /\ \E m \in Names : AddsBuiltIn(m)
            \/ FinishesLoad
            \/ \E m \in Names \cup {End} : Destroys(m)
  BY DEF Kind, DoesNothing, Begins, BeginsUnloadAll, AddsBuiltIn, LooksUp, LoadsNeeded,
         Overflows, LoadsFile, Returns, Passes, DeletesDependent, UsesErased, DeletesFront,
         Kept

(* When the last of the calls deletes its module, nothing depends on it.   *)
LEMMA NothingDepends ==
    ASSUME ListOK, LoopOK, NEW m, Destroys(m)
    PROVE  m \in handles /\ m \in Loaded /\ \A x \in handles : <<x, m>> \notin needs
<1>1. /\ N >= 1 /\ N \in Nat /\ Len(stack) = N /\ N \in 1 .. N
      /\ Is(N, "delete") /\ m = stack[N].mod /\ stack[N].it = End
  BY DEF Destroys, ListOK, N
<1>2. /\ m \in handles
      /\ \A x \in Before(Modules, End) : DependsOn(x, m) => x \in Above(N)
  BY <1>1 DEF LoopOK
<1>3. Above(N) = {}
  BY <1>1 DEF Above
<1>4. Modules \in Seq(Names) /\ handles \subseteq Loaded
      /\ Loaded = {Modules[i] : i \in 1 .. Len(Modules)}
  BY DEF ListOK, Loaded, ToSet
<1>5. ASSUME NEW x \in handles PROVE x \in Before(Modules, End)
  <2>1. PICK k \in 1 .. Len(Modules) : x = Modules[k]
    BY <1>4
  <2>2. \A j \in 1 .. k : Modules[j] # End
    <3>1. \A j \in 1 .. k : Modules[j] \in Names
      BY <1>4
    <3> QED BY <3>1 DEF Names, End
  <2> QED BY <2>1, <2>2 DEF Before
<1> QED BY <1>2, <1>3, <1>4, <1>5 DEF DependsOn

(* What a module that was loaded needs is loaded. *)
LEMMA HeldStep ==
    ASSUME ListOK, StackOK, LookupOK, HeldOK, LoopOK, Kind, needs' = needs
    PROVE  HeldOK'
<1>1. CASE ListKept
  BY <1>1, ListChanges DEF HeldOK, ListKept
<1>2. CASE handles' = handles /\ \E g \in Frames : BeginsUnloadAll(g)
  BY <1>2 DEF HeldOK, BeginsUnloadAll
<1>3. CASE handles' = handles /\ \E m \in Names : AddsBuiltIn(m)
  BY <1>3, ListChanges DEF HeldOK
<1>4. CASE FinishesLoad
  <2>1. /\ N >= 1 /\ N \in Nat /\ Len(stack) = N /\ Is(N, "load") /\ stack[N].deps = {}
        /\ handles' = handles \cup {stack[N].mod}
    BY <1>4 DEF FinishesLoad, ListOK, N
  <2>2. Loaded \subseteq Loaded'
    BY <1>4, ListChanges
  <2>3. N \in 1 .. Len(stack)
    BY <2>1
  <2>4. \A d \in Names : <<stack[N].mod, d>> \in needs => d \in Loaded
    BY <2>1, <2>3 DEF LookupOK
  <2> QED BY <2>1, <2>2, <2>4 DEF HeldOK
<1>5. ASSUME NEW m \in Names \cup {End}, Destroys(m) PROVE HeldOK'
  <2>1. /\ \A x \in handles : <<x, m>> \notin needs
        /\ Loaded' = Loaded \ {m} /\ handles' = handles \ {m}
    BY <1>5, NothingDepends, ListChanges DEF Destroys
  <2> QED BY <2>1 DEF HeldOK
<1> QED BY <1>1, <1>2, <1>3, <1>4, <1>5, HandleChanges

(* No cycle of needs comes about among the modules that were loaded. *)
LEMMA AcyclicStep ==
    ASSUME ListOK, StackOK, HeldOK, AcyclicOK, Kind, needs' = needs
    PROVE  AcyclicOK'
<1> SUFFICES ASSUME NEW S \in SUBSET handles', S # {}
             PROVE  \E m \in S : \A d \in S : <<m, d>> \notin needs
  BY DEF AcyclicOK
<1>1. CASE S \subseteq handles
  BY <1>1 DEF AcyclicOK
<1>2. CASE ~(S \subseteq handles)
  <2>1. FinishesLoad
    BY <1>2, HandleChanges DEF ListKept, Destroys
  <2> DEFINE m == stack[N].mod
  <2>2. handles' = handles \cup {m} /\ m \notin Loaded /\ Is(N, "load") /\ N >= 1
    BY <2>1 DEF FinishesLoad
  <2>3. m \in S /\ m \in Names
    BY <1>2, <2>2, Families
  <2> HIDE DEF m
  <2>4. \A x \in handles : x \in Names /\ <<x, m>> \notin needs
    <3>1. handles \subseteq Names
      BY ListFacts DEF ListOK
    <3> QED BY <2>2, <2>3, <3>1 DEF HeldOK
  <2>5. CASE S = {m}
    <3>1. <<m, m>> \notin needs
      BY <2>3 DEF ListOK
    <3> QED BY <2>5, <3>1
  <2>6. CASE S # {m}
    <3>1. S \ {m} \in SUBSET handles /\ S \ {m} # {}
      BY <2>2, <2>3, <2>6
    <3>2. PICK x \in S \ {m} : \A d \in S \ {m} : <<x, d>> \notin needs
      BY <3>1 DEF AcyclicOK
    <3> QED BY <2>4, <3>1, <3>2
  <2> QED BY <2>5, <2>6
<1> QED BY <1>1, <1>2

(* A module is in the list after what it needs. *)
LEMMA OrderStep ==
    ASSUME ListOK, StackOK, HeldOK, OrderOK, LoopOK, Kind, needs' = needs
    PROVE  OrderOK'
<1>t. /\ N \in Nat /\ Len(stack) = N /\ Len(stack') = N' /\ Modules \in Seq(Names)
      /\ Loaded = {Modules[i] : i \in 1 .. Len(Modules)} /\ Len(Modules) \in Nat
      /\ handles \subseteq Loaded /\ Loaded \subseteq Names
      /\ \A m \in Names : <<m, m>> \notin needs
  BY ListFacts DEF ListOK, N, Loaded, ToSet
<1>k. CallsStep
  BY KindCalls
<1> SUFFICES ASSUME \A k \in 1 .. N' : stack'[k].call # "unloadall",
                    NEW i \in 1 .. Len(Modules'), NEW j \in 1 .. Len(Modules'),
                    Modules'[j] \in handles', <<Modules'[j], Modules'[i]>> \in needs
             PROVE  i < j
  BY <1>t DEF OrderOK, Is
<1>c. ASSUME NEW m \in Names, m \notin Loaded, Modules' = Append(Modules, m),
             handles' \subseteq handles \cup {m},
             \A k \in 1 .. N : stack[k].call # "unloadall"
      PROVE  i < j
  <2>1. /\ Len(Modules') = Len(Modules) + 1 /\ Modules'[Len(Modules) + 1] = m
        /\ \A k \in 1 .. Len(Modules) : Modules'[k] = Modules[k]
    BY <1>t, <1>c
  <2>2. \A x \in handles : <<x, m>> \notin needs
    BY <1>t, <1>c DEF HeldOK
  <2>3. i # Len(Modules) + 1
    BY <1>t, <1>c, <2>1, <2>2
  <2>4. i \in 1 .. Len(Modules)
    BY <1>t, <2>1, <2>3
  <2>5. CASE j = Len(Modules) + 1
    BY <1>t, <2>4, <2>5
  <2>6. CASE j # Len(Modules) + 1
    <3>1. j \in 1 .. Len(Modules)
      BY <1>t, <2>1, <2>6
    <3>2. Modules[j] \in handles
      BY <1>t, <1>c, <2>1, <3>1
    <3> QED BY <1>t, <1>c, <2>1, <2>4, <3>1, <3>2 DEF OrderOK, Is
  <2> QED BY <2>5, <2>6
<1>1. CASE ListKept
  <2>1. CASE \A k \in 1 .. N : stack[k].call # "unloadall"
    <3>1. Modules' = Modules /\ handles' = handles
      BY <1>1 DEF ListKept
    <3> QED BY <1>t, <2>1, <3>1 DEF OrderOK, Is
  <2>2. ASSUME NEW k \in 1 .. N, stack[k].call = "unloadall" PROVE FALSE
    <3>1. k > N'
      BY <1>t, <1>k, <2>2 DEF CallsStep
    <3>2. k = N /\ N >= 1 /\ N' = N - 1
      BY <1>t, <1>k, <3>1 DEF CallsStep
    <3>3. Is(N, "unloadall")
      BY <2>2, <3>2 DEF Is
    <3>4. N = 1
      BY <3>2, <3>3, Families
    <3>5. Returns
      BY <1>t, <1>1, <3>2, <3>3
         DEF Kind, DoesNothing, Begins, BeginsUnloadAll, AddsBuiltIn, LooksUp, LoadsNeeded,
             Overflows, LoadsFile, FinishesLoad, Passes, DeletesDependent,
             UsesErased, Destroys, DeletesFront, Changes, Pushes, ChangesAndPushes, Is
    <3>6. Modules' = <<>>
      BY <3>3, <3>5 DEF Returns, Kept, ListKept
    <3> QED BY <3>6
  <2> QED BY <2>1, <2>2
<1>2. ASSUME NEW g \in Frames, BeginsUnloadAll(g) PROVE FALSE
  <2>1. N' = 1 /\ stack'[1].call = "unloadall"
    BY <1>t, <1>2 DEF BeginsUnloadAll, Pushes
  <2> QED BY <2>1
<1>3. ASSUME NEW m \in Names, AddsBuiltIn(m) PROVE i < j
  <2>1. N = 0 /\ m \notin Loaded /\ Modules' = Append(Modules, m) /\ handles' = handles
    BY <1>3 DEF AddsBuiltIn
  <2> QED BY <1>c, <2>1
<1>4. CASE FinishesLoad
  <2>1. /\ N >= 1 /\ Is(N, "load") /\ stack[N].mod \notin Loaded
        /\ Modules' = Append(Modules, stack[N].mod)
        /\ handles' = handles \cup {stack[N].mod}
    BY <1>4 DEF FinishesLoad
  <2>2. stack[N].mod \in Names /\ LoadsOnly
    BY <2>1, Families
  <2>3. \A k \in 1 .. N : stack[k].call # "unloadall"
    BY <1>t, <2>2 DEF LoadsOnly, Is
  <2> QED BY <1>c, <2>1, <2>2, <2>3
<1>5. ASSUME NEW m \in Names \cup {End}, Destroys(m) PROVE i < j
  <2>1. /\ N >= 1 /\ Is(N, "delete") /\ N' = N - 1 /\ handles' = handles \ {m}
        /\ m \in Loaded /\ Modules' = RemoveAt(Modules, Position(m))
    BY <1>t, <1>5, NothingDepends DEF Destroys, Pops
  <2>2. \A k \in 1 .. N : stack[k].call # "unloadall"
    <3>1. ASSUME NEW k \in 1 .. N - 1 PROVE stack[k].call # "unloadall"
      <4>1. N \in Nat /\ k \in 1 .. N /\ k \in 1 .. N' /\ k <= N'
        BY <1>t, <2>1
      <4>2. stack'[k].call = stack[k].call
        BY <1>k, <4>1 DEF CallsStep
      <4> QED BY <4>1, <4>2
    <3>2. \A k \in 1 .. N : k \in 1 .. N - 1 \/ k = N
      BY <1>t, <2>1
    <3> QED BY <2>1, <3>1, <3>2 DEF Is
  <2> DEFINE at(k) == IF k < Position(m) THEN k ELSE k + 1
  <2>3. /\ Len(Modules') = Len(Modules) - 1 /\ Modules'[i] = Modules[at(i)]
        /\ Modules'[j] = Modules[at(j)] /\ Position(m) \in 1 .. Len(Modules)
    <3>1. /\ Len(Modules') = Len(Modules) - 1
          /\ \A k \in 1 .. Len(Modules') : Modules'[k] = Modules[at(k)]
      BY <2>1, Erased
    <3> QED BY <2>1, <3>1, ListFacts
  <2>4. at(i) \in 1 .. Len(Modules) /\ at(j) \in 1 .. Len(Modules)
    BY <1>t, <2>3
  <2>5. at(i) < at(j)
    BY <1>t, <2>1, <2>2, <2>3, <2>4 DEF OrderOK, Is
  <2> QED BY <2>3, <2>5
<1> QED BY <1>1, <1>2, <1>3, <1>4, <1>5, HandleChanges

(* A call that a deletion is not nested in leaves no deletion.             *)
LEMMA NoDeletes ==
    ASSUME ListOK, StackOK, CallsStep, N >= 1, ~Is(N, "delete"),
           N' = N + 1 => stack'[N + 1].call # "delete"
    PROVE  \A k \in 1 .. N' : stack'[k].call # "delete"
<1>1. N \in Nat /\ Len(stack) = N
  BY DEF CallsStep, N
<1>2. \A k \in 1 .. N : stack[k].call # "delete"
  <2>1. CASE LoadsOnly
    BY <1>1, <2>1 DEF LoadsOnly, Is
  <2>2. CASE ~LoadsOnly
    <3>1. Is(N, "unloadall") /\ N = 1
      BY <2>2, Families
    <3> QED BY <1>1, <3>1 DEF Is
  <2> QED BY <2>1, <2>2
<1>3. SUFFICES ASSUME NEW k \in 1 .. N' PROVE stack'[k].call # "delete"
  OBVIOUS
<1>4. CASE k \in 1 .. N
  BY <1>2, <1>4 DEF CallsStep
<1>5. CASE k \notin 1 .. N
  <2>1. N' = N + 1 /\ k = N + 1
    BY <1>1, <1>5 DEF CallsStep
  <2> QED BY <2>1
<1> QED BY <1>4, <1>5

Looped(i) ==
    stack[i].call = "delete" =>
        /\ stack[i].mod \in handles
        /\ stack[i].it \in Loaded \cup {End} =>
              \A x \in Before(Modules, stack[i].it) :
                  DependsOn(x, stack[i].mod) => x \in Above(i)

(* The loop of DeleteModule leaves no dependent behind its iterator. *)
LEMMA LoopStep ==
    ASSUME ListOK, ListOK', StackOK, DistinctOK, LoopOK, Kind, needs' = needs
    PROVE  LoopOK'
<1>t. /\ N \in Nat /\ Len(stack) = N /\ Len(stack') = N'
      /\ handles \subseteq Loaded
      /\ \A x, m : DependsOn(x, m) <=> x \in handles /\ <<x, m>> \in needs
      /\ \A x, m : DependsOn(x, m)' <=> x \in handles' /\ <<x, m>> \in needs
      /\ ListKept => Loaded' = Loaded
  BY ListChanges DEF ListOK, N, DependsOn
<1>k. CallsStep
  BY KindCalls
<1>l. \A i \in 1 .. N : Looped(i)
  BY <1>t DEF LoopOK, Looped, Is
<1> SUFFICES ASSUME NEW i \in 1 .. N', stack'[i].call = "delete" PROVE Looped(i)'
  <2>1. \A i \in 1 .. N' : Looped(i)'
    BY DEF Looped
  <2> QED BY <1>t, <2>1 DEF LoopOK, Looped, Is
<1>a. ASSUME i \in 1 .. N, stack'[i] = stack[i], ListKept, Above(i)' = Above(i)
      PROVE  Looped(i)'
  BY <1>t, <1>l, <1>a DEF Looped, ListKept
<1>b. ASSUME stack'[i].mod \in handles, stack'[i].it = Begin, ListKept
      PROVE  Looped(i)'
  <2>1. Before(Modules, stack'[i].it) = {}
    BY <1>b, BeforeBegin
  <2> QED BY <1>b, <2>1 DEF Looped, ListKept
<1>f. \A m \in Names : DeleteFrame(m).mod = m /\ DeleteFrame(m).it = Begin
  BY DEF DeleteFrame
<1>1. CASE DoesNothing \/ UsesErased \/ \E m \in Names : Overflows(m)
  <2>1. stack' = stack /\ ListKept
    BY <1>1 DEF DoesNothing, UsesErased, Overflows, Kept
  <2>2. Above(i)' = Above(i)
    BY <2>1 DEF Above
  <2> QED BY <1>t, <1>a, <2>1, <2>2
<1>2. ASSUME NEW g \in Frames, Begins(g) PROVE Looped(i)'
  <2>1. N = 0 /\ N' = 1 /\ stack'[1] = g /\ i = 1 /\ ListKept
    BY <1>t, <1>2 DEF Begins, Pushes, Kept
  <2>2. \E m \in handles : g = DeleteFrame(m)
    BY <1>2, <2>1 DEF Begins, LoadFrame
  <2>3. handles \subseteq Names
    BY <1>t, ListFacts
  <2> QED BY <1>b, <1>f, <2>1, <2>2, <2>3
<1>3. ASSUME NEW g \in Frames, BeginsUnloadAll(g) PROVE FALSE
  <2>1. N' = 1 /\ stack'[1] = g /\ i = 1 /\ g.call = "unloadall"
    BY <1>t, <1>3 DEF BeginsUnloadAll, Pushes
  <2> QED BY <2>1
<1>4. ASSUME NEW m \in Names, AddsBuiltIn(m) PROVE FALSE
  BY <1>t, <1>4 DEF AddsBuiltIn
<1>5. CASE \/ \E f \in Frames : LooksUp(f)
           \/ \E m \in Names : LoadsNeeded(m)
           \/ \E f \in Frames, m \in Names : LoadsFile(f, m)
           \/ FinishesLoad \/ Returns
  <2>1. N >= 1 /\ ~Is(N, "delete")
    BY <1>5 DEF LooksUp, LoadsNeeded, LoadsFile, FinishesLoad, Returns, Is
  <2>2. N' = N + 1 => stack'[N + 1].call # "delete"
    <3>1. \A m \in Names : LoadFrame(m).call = "load"
      BY DEF LoadFrame
    <3>2. ASSUME NEW f \in Frames, LooksUp(f) PROVE N' # N + 1
      BY <1>t, <3>2 DEF LooksUp, Changes
    <3>3. ASSUME FinishesLoad \/ Returns PROVE N' # N + 1
      BY <1>t, <3>3 DEF FinishesLoad, Returns, Pops
    <3>4. ASSUME NEW m \in Names, LoadsNeeded(m) PROVE stack'[N + 1].call # "delete"
      BY <1>t, <3>1, <3>4 DEF LoadsNeeded, Pushes
    <3>5. ASSUME NEW f \in Frames, NEW m \in Names, LoadsFile(f, m)
          PROVE  stack'[N + 1].call # "delete"
      BY <1>t, <3>1, <3>5 DEF LoadsFile, ChangesAndPushes
    <3> QED BY <1>5, <3>2, <3>3, <3>4, <3>5
  <2> QED BY <1>k, <2>1, <2>2, NoDeletes
<1>6. ASSUME NEW m \in Names, DeletesFront(m) PROVE Looped(i)'
  <2>1. /\ N >= 1 /\ N' = N + 1 /\ \A k \in 1 .. N : stack'[k] = stack[k]
        /\ stack'[N + 1] = DeleteFrame(m) /\ ListKept /\ m \in handles
        /\ Is(N, "unloadall")
    BY <1>t, <1>6 DEF DeletesFront, Pushes, Same, Kept
  <2>2. N = 1
    BY <2>1, Families
  <2>3. i = N + 1
    BY <1>t, <2>1, <2>2 DEF Is
  <2> QED BY <1>b, <1>f, <2>1, <2>3
<1>7. ASSUME NEW f \in Frames, Passes(f) PROVE Looped(i)'
  <2>1. /\ N >= 1 /\ N' = N /\ stack'[N] = f /\ ListKept /\ stack[N].call = "delete"
        /\ \A k \in 1 .. N - 1 : stack'[k] = stack[k]
        /\ stack[N].it \in Loaded /\ ~DependsOn(stack[N].it, stack[N].mod)
        /\ f.mod = stack[N].mod /\ f.it = Successor(stack[N].it)
    BY <1>t, <1>7 DEF Passes, Changes, Same, Kept, Is
  <2>2. CASE i = N
    <3>1. N \in 1 .. N
      BY <1>t, <2>1
    <3>2. /\ f.mod \in handles
          /\ \A x \in Before(Modules, stack[N].it) : DependsOn(x, f.mod) => x \in Above(N)
      BY <1>l, <2>1, <3>1 DEF Looped
    <3>3. Before(Modules, f.it) \subseteq Before(Modules, stack[N].it) \cup {stack[N].it}
      BY <2>1, BeforeSuccessor
    <3>4. Above(N) = {}
      BY <1>t DEF Above
    <3>5. \A x \in Before(Modules, f.it) : ~DependsOn(x, f.mod)
      BY <2>1, <3>2, <3>3, <3>4
    <3> QED BY <1>t, <2>1, <2>2, <3>2, <3>5 DEF Looped, ListKept
  <2>3. CASE i # N
    <3>1. i \in 1 .. N - 1 /\ i \in 1 .. N /\ i + 1 \in 1 .. N /\ i + 1 <= N'
      BY <1>t, <2>1, <2>3
    <3>2. stack'[i + 1].mod = stack[i + 1].mod
      BY <1>k, <3>1 DEF CallsStep
    <3>3. Above(i)' = Above(i)
      BY <1>t, <2>1, <3>1, <3>2 DEF Above
    <3> QED BY <1>a, <2>1, <3>1, <3>3
  <2> QED BY <2>2, <2>3
<1>8. ASSUME NEW f \in Frames, DeletesDependent(f) PROVE Looped(i)'
  <2> DEFINE y == stack[N].it
  <2>1. /\ N >= 1 /\ N' = N + 1 /\ stack'[N] = f /\ ListKept /\ stack[N].call = "delete"
        /\ \A k \in 1 .. N - 1 : stack'[k] = stack[k]
        /\ y \in Loaded /\ DependsOn(y, stack[N].mod)
        /\ f.mod = stack[N].mod /\ f.it = Successor(y)
        /\ stack'[N + 1] = DeleteFrame(y)
    BY <1>t, <1>8 DEF DeletesDependent, ChangesAndPushes, Same, Kept, Is
  <2>2. y \in Names /\ y \in handles
    BY <1>t, <2>1, ListFacts
  <2> HIDE DEF y
  <2>3. i \in 1 .. N - 1 \/ i = N \/ i = N + 1
    BY <1>t, <2>1
  <2>4. CASE i = N + 1
    BY <1>b, <1>f, <2>1, <2>2, <2>4
  <2>5. CASE i = N
    <3>1. N \in 1 .. N
      BY <1>t, <2>1
    <3>2. /\ f.mod \in handles
          /\ \A x \in Before(Modules, y) : DependsOn(x, f.mod) => x \in Above(N)
      BY <1>l, <2>1, <3>1 DEF Looped, y
    <3>3. Before(Modules, f.it) \subseteq Before(Modules, y) \cup {y}
      BY <2>1, BeforeSuccessor
    <3>4. Above(N) = {} /\ Above(i)' = {y}
      BY <1>t, <1>f, <2>1, <2>2, <2>5 DEF Above
    <3>5. \A x \in Before(Modules, f.it) : DependsOn(x, f.mod) => x \in Above(i)'
      BY <3>2, <3>3, <3>4
    <3> QED BY <1>t, <2>1, <2>5, <3>2, <3>5 DEF Looped, ListKept
  <2>6. CASE i \in 1 .. N - 1
    <3>1. i \in 1 .. N /\ i + 1 \in 1 .. N /\ i + 1 <= N'
      BY <1>t, <2>1, <2>6
    <3>2. stack'[i + 1].mod = stack[i + 1].mod
      BY <1>k, <3>1 DEF CallsStep
    <3>3. Above(i)' = Above(i)
      BY <1>t, <2>1, <3>1, <3>2 DEF Above
    <3> QED BY <1>a, <2>1, <2>6, <3>1, <3>3
  <2> QED BY <2>3, <2>4, <2>5, <2>6
<1>9. ASSUME NEW m \in Names \cup {End}, Destroys(m) PROVE Looped(i)'
  <2>1. /\ N >= 1 /\ N' = N - 1 /\ \A k \in 1 .. N - 1 : stack'[k] = stack[k]
        /\ stack[N].call = "delete" /\ m = stack[N].mod /\ handles' = handles \ {m}
        /\ m \in Loaded /\ Modules' = RemoveAt(Modules, Position(m))
        /\ Loaded' = Loaded \ {m}
    BY <1>t, <1>9, NothingDepends, ListChanges DEF Destroys, Pops, Same, Is
  <2>2. i \in 1 .. N - 1 /\ i \in 1 .. N /\ i # N /\ N \in 1 .. N /\ i < N
    BY <1>t, <2>1
  <2>3. stack'[i] = stack[i] /\ stack[i].call = "delete"
    BY <2>1, <2>2
  <2>4. /\ stack[i].mod \in handles
        /\ stack[i].it \in Loaded \cup {End} =>
              \A x \in Before(Modules, stack[i].it) :
                 DependsOn(x, stack[i].mod) => x \in Above(i)
    BY <1>l, <2>2, <2>3 DEF Looped
  <2>5. stack[i].mod # m
    BY <1>t, <2>1, <2>2, <2>3 DEF DistinctOK, Is
  <2>6. Above(i) \subseteq Above(i)' \cup {m}
    <3>1. CASE i + 1 = N
      BY <1>t, <2>1, <3>1 DEF Above
    <3>2. CASE i + 1 # N
      <4>1. i + 1 \in 1 .. N - 1 /\ i < N' /\ i < N
        BY <1>t, <2>1, <2>2, <3>2
      <4>2. stack'[i + 1] = stack[i + 1]
        BY <2>1, <4>1
      <4> QED BY <1>t, <4>1, <4>2 DEF Above
    <3> QED BY <3>1, <3>2
  <2>7. ASSUME stack[i].it \in Loaded' \cup {End}, NEW x \in Before(Modules', stack[i].it),
               DependsOn(x, stack[i].mod)'
        PROVE  x \in Above(i)'
    <3>1. \A y \in ToSet(Modules') \cup {End} :
              Before(Modules', y) \subseteq Before(Modules, y) \ {m}
      BY <2>1, Erased
    <3>2. x \in Before(Modules, stack[i].it) /\ x # m
      BY <2>7, <3>1 DEF Loaded
    <3>3. x \in Above(i)
      BY <1>t, <2>1, <2>4, <2>7, <3>2
    <3> QED BY <2>6, <3>2, <3>3
  <2> QED BY <2>1, <2>3, <2>4, <2>5, <2>7 DEF Looped
<1> QED
  BY <1>1, <1>2, <1>3, <1>4, <1>5, <1>6, <1>7, <1>8, <1>9 DEF Kind

-----------------------------------------------------------------------------
(* Without a cycle of needs, a module is not loaded for its own sake.      *)
LEMMA LoadsAreFresh ==
    ASSUME ListOK, StackOK, ~Cyclic, N >= 1, Is(N, "load"),
           NEW m \in Names, <<stack[N].mod, m>> \in needs
    PROVE  \A j \in 1 .. N : Is(j, "load") => stack[j].mod # m
<1> SUFFICES ASSUME NEW j \in 1 .. N, Is(j, "load"), stack[j].mod = m PROVE FALSE
  OBVIOUS
<1> DEFINE S == {stack[k].mod : k \in j .. N}
<1>1. N \in Nat /\ Len(stack) = N /\ LoadsOnly /\ N \in j .. N /\ j \in j .. N
  BY Families DEF N
<1>2. \A k \in j .. N : k \in 1 .. N /\ Is(k, "load")
  <2>1. \A k \in j .. N : k \in 1 .. N /\ (k = j \/ k # 1)
    BY <1>1
  <2> QED BY <1>1, <2>1 DEF LoadsOnly
<1>3. \A k \in j .. N : stack[k].mod \in Names
  BY <1>1, <1>2 DEF StackOK
<1>4. ASSUME NEW k \in j .. N PROVE \E d \in S : <<stack[k].mod, d>> \in needs
  <2>1. CASE k = N
    <3>1. m \in S
      BY <1>1
    <3> QED BY <2>1, <3>1
  <2>2. CASE k # N
    <3>1. k + 1 \in 2 .. N /\ k + 1 \in j .. N /\ (k + 1) - 1 = k
      BY <1>1, <2>2
    <3>2. <<stack[k].mod, stack[k + 1].mod>> \in needs
      BY <1>1, <1>2, <3>1 DEF StackOK
    <3> QED BY <3>1, <3>2
  <2> QED BY <2>1, <2>2
<1>5. S \in (SUBSET Names) \ {{}}
  <2>1. S \subseteq Names /\ stack[N].mod \in S
    BY <1>1, <1>3
  <2> HIDE DEF S
  <2> QED BY <2>1
<1>6. \A x \in S : \E d \in S : <<x, d>> \in needs
  BY <1>4
<1> QED BY <1>5, <1>6 DEF Cyclic

(* A module is not deleted while its deletion is under way. *)
LEMMA DeletesAreFresh ==
    ASSUME ListOK, StackOK, AcyclicOK, LoopOK, N >= 1, Is(N, "delete"),
           NEW m \in handles, <<m, stack[N].mod>> \in needs
    PROVE  \A j \in 1 .. N : Is(j, "delete") => stack[j].mod # m
<1> SUFFICES ASSUME NEW j \in 1 .. N, Is(j, "delete"), stack[j].mod = m PROVE FALSE
  OBVIOUS
<1> DEFINE S == {stack[k].mod : k \in j .. N}
<1>1. N \in Nat /\ Len(stack) = N /\ DeletesOnly /\ N \in j .. N /\ j \in j .. N
  BY Families DEF N
<1>2. \A k \in j .. N : k \in 1 .. N /\ Is(k, "delete")
  <2>1. \A k \in j .. N : k \in 1 .. N /\ (k = j \/ k # 1)
    BY <1>1
  <2> QED BY <1>1, <2>1 DEF DeletesOnly
<1>3. \A k \in j .. N : stack[k].mod \in handles
  BY <1>1, <1>2 DEF LoopOK
<1>4. ASSUME NEW k \in j .. N PROVE \E d \in S : <<stack[k].mod, d>> \in needs
  <2>1. CASE k = j
    <3>1. stack[N].mod \in S
      BY <1>1
    <3> QED BY <2>1, <3>1
  <2>2. CASE k # j
    <3>1. k \in 2 .. N /\ k - 1 \in j .. N
      BY <1>1, <2>2
    <3>2. <<stack[k].mod, stack[k - 1].mod>> \in needs
      BY <1>1, <1>2, <3>1 DEF StackOK
    <3> QED BY <3>1, <3>2
  <2> QED BY <2>1, <2>2
<1>5. S \in SUBSET handles /\ S # {}
  BY <1>1, <1>3
<1>6. \A x \in S : \E d \in S : <<x, d>> \in needs
  BY <1>4
<1> QED BY <1>5, <1>6 DEF AcyclicOK

(* Modules that are loaded, or deleted, one inside the other, and are all  *)
(* different, bound the depth of the calls.                                *)
LEMMA FewCalls ==
    ASSUME ListOK, StackOK, NEW m \in Names, NEW call \in {"load", "delete"},
           Is(N, call), N >= 1,
           \A i, j \in 1 .. N :
              Is(i, call) /\ Is(j, call) /\ stack[i].mod = stack[j].mod => i = j,
           \A j \in 1 .. N : Is(j, call) => stack[j].mod # m
    PROVE  N <= NumNames
<1> DEFINE f == [i \in 1 .. N |-> IF i < N THEN stack[i + 1].mod ELSE m]
<1>1. N \in Nat /\ Len(stack) = N
  BY Families DEF N
<1>2. \A k \in 2 .. N : k \in 1 .. N /\ Is(k, call)
  <2>1. \A k \in 2 .. N : k \in 1 .. N /\ k # 1
    BY <1>1
  <2>2. CASE call = "load"
    BY <1>1, <2>1, <2>2, Families DEF LoadsOnly
  <2>3. CASE call = "delete"
    BY <1>1, <2>1, <2>3, Families DEF DeletesOnly
  <2> QED BY <2>2, <2>3
<1>3. \A k \in 2 .. N : stack[k].mod \in Names
  BY <1>1, <1>2 DEF StackOK
<1>4. \A i \in 1 .. N : i < N => i + 1 \in 2 .. N
  BY <1>1
<1>5. f \in [1 .. N -> 1 .. NumNames]
  <2>1. \A i \in 1 .. N : (IF i < N THEN stack[i + 1].mod ELSE m) \in Names
    BY <1>3, <1>4
  <2> QED BY <2>1 DEF Names
<1>6. \A i, j \in 1 .. N : f[i] = f[j] => i = j
  <2> SUFFICES ASSUME NEW i \in 1 .. N, NEW j \in 1 .. N, f[i] = f[j] PROVE i = j
    OBVIOUS
  <2>1. CASE i < N /\ j < N
    <3>1. i + 1 = j + 1
      BY <1>2, <1>4, <2>1
    <3> QED BY <1>1, <3>1
  <2>2. CASE i < N /\ ~(j < N)
    BY <1>2, <1>4, <2>2
  <2>3. CASE ~(i < N) /\ j < N
    BY <1>2, <1>4, <2>3
  <2>4. CASE ~(i < N) /\ ~(j < N)
    BY <1>1, <2>4
  <2> QED BY <2>1, <2>2, <2>3, <2>4
<1> HIDE DEF f
<1> QED BY <1>1, <1>5, <1>6, NamesAssumption, FewDistinct

(* Without a cycle of needs, no call is inside one for the same module. *)
LEMMA DistinctStep ==
    ASSUME ListOK, StackOK, AcyclicOK, LoopOK, DistinctOK, Kind, needs' = needs
    PROVE  DistinctOK'
<1>t. N \in Nat /\ N' \in Nat /\ Len(stack) = N /\ Len(stack') = N' /\ N' \in {N - 1, N, N + 1}
  BY KindCalls DEF CallsStep, N
<1>k. \A k \in 1 .. N : k <= N' =>
          stack'[k].call = stack[k].call /\ stack'[k].mod = stack[k].mod
  BY KindCalls DEF CallsStep
<1>g. N' = N + 1 => Reason(stack'[N + 1])
  BY KindCalls DEF CallsStep
<1>c. Cyclic' <=> Cyclic
  BY DEF Cyclic
<1>o. \A i \in 1 .. N' : i \in 1 .. N \/ (N' = N + 1 /\ i = N + 1)
  BY <1>t
<1> DEFINE Old(call) == \A i, j \in 1 .. N :
              stack[i].call = call /\ stack[j].call = call /\ stack[i].mod = stack[j].mod
                 => i = j
           New(call) == \A i, j \in 1 .. N' :
              stack'[i].call = call /\ stack'[j].call = call /\ stack'[i].mod = stack'[j].mod
                 => i = j
           Fresh(call) == N' = N + 1 /\ stack'[N + 1].call = call =>
              \A j \in 1 .. N : stack[j].call = call => stack[j].mod # stack'[N + 1].mod
<1>1. ASSUME NEW call, Old(call), Fresh(call) PROVE New(call)
  <2> SUFFICES ASSUME NEW i \in 1 .. N', NEW j \in 1 .. N',
                      stack'[i].call = call, stack'[j].call = call,
                      stack'[i].mod = stack'[j].mod
               PROVE  i = j
    OBVIOUS
  <2>1. \A k \in 1 .. N' : k <= N' /\ k \in Nat
    BY <1>t
  <2>2. CASE i \in 1 .. N /\ j \in 1 .. N
    BY <1>k, <1>1, <2>1, <2>2
  <2>3. CASE i \in 1 .. N /\ j \notin 1 .. N
    BY <1>o, <1>k, <1>1, <2>1, <2>3
  <2>4. CASE i \notin 1 .. N /\ j \in 1 .. N
    BY <1>o, <1>k, <1>1, <2>1, <2>4
  <2>5. CASE i \notin 1 .. N /\ j \notin 1 .. N
    BY <1>o, <2>5
  <2> QED BY <2>2, <2>3, <2>4, <2>5
<1>2. Fresh("delete")
  <2> SUFFICES ASSUME N' = N + 1, stack'[N + 1].call = "delete", NEW j \in 1 .. N,
                      stack[j].call = "delete", stack[j].mod = stack'[N + 1].mod
               PROVE  FALSE
    OBVIOUS
  <2>1. /\ N >= 1 /\ stack'[N + 1].mod \in handles
        /\ \/ Is(N, "unloadall")
           \/ Is(N, "delete") /\ <<stack'[N + 1].mod, stack[N].mod>> \in needs
    BY <1>t, <1>g DEF Reason
  <2>2. CASE Is(N, "unloadall")
    <3>1. N = 1
      BY <2>1, <2>2, Families
    <3> QED BY <2>2, <3>1 DEF Is
  <2>3. CASE Is(N, "delete")
    <3>1. <<stack'[N + 1].mod, stack[N].mod>> \in needs
      BY <2>1, <2>3 DEF Is
    <3> QED BY <2>1, <2>3, <3>1, DeletesAreFresh DEF Is
  <2> QED BY <2>1, <2>2, <2>3
<1>3. ASSUME ~Cyclic PROVE Fresh("load")
  <2> SUFFICES ASSUME N' = N + 1, stack'[N + 1].call = "load", NEW j \in 1 .. N,
                      stack[j].call = "load", stack[j].mod = stack'[N + 1].mod
               PROVE  FALSE
    OBVIOUS
  <2>1. /\ N >= 1 /\ stack'[N + 1].mod \in Names
        /\ \/ Is(N, "loadall")
           \/ Is(N, "load") /\ <<stack[N].mod, stack'[N + 1].mod>> \in needs
    BY <1>t, <1>g DEF Reason
  <2>2. CASE Is(N, "loadall")
    <3>1. N = 1
      BY <2>1, <2>2, Families
    <3> QED BY <2>2, <3>1 DEF Is
  <2>3. CASE Is(N, "load")
    <3>1. <<stack[N].mod, stack'[N + 1].mod>> \in needs
      BY <2>1, <2>3 DEF Is
    <3> QED BY <1>3, <2>1, <2>3, <3>1, LoadsAreFresh DEF Is
  <2> QED BY <2>1, <2>2, <2>3
<1>4. ASSUME ~Cyclic, NEW m \in Names, Overflows(m) PROVE FALSE
  <2>1. N >= 1 /\ Is(N, "load") /\ <<stack[N].mod, m>> \in needs /\ N >= MaxDepth
    BY <1>4 DEF Overflows
  <2>2. \A j \in 1 .. N : Is(j, "load") => stack[j].mod # m
    BY <1>4, <2>1, LoadsAreFresh
  <2>3. \A i, j \in 1 .. N :
           Is(i, "load") /\ Is(j, "load") /\ stack[i].mod = stack[j].mod => i = j
    BY <1>t, <1>4 DEF DistinctOK
  <2>4. N <= NumNames
    BY <2>1, <2>2, <2>3, FewCalls
  <2> QED BY <1>t, <2>1, <2>4, NamesAssumption, DepthAssumption
<1>5. fate' = "overflow" => fate = "overflow" \/ \E m \in Names : Overflows(m)
  BY DEF Kind, DoesNothing, Begins, BeginsUnloadAll, AddsBuiltIn, LooksUp, LoadsNeeded,
         LoadsFile, FinishesLoad, Returns, Passes, DeletesDependent, UsesErased, Destroys,
         DeletesFront, Kept
<1>6. New("delete")
  <2>1. Old("delete")
    BY <1>t DEF DistinctOK, Is
  <2> QED BY <1>1, <1>2, <2>1
<1>7. ASSUME ~Cyclic PROVE New("load")
  <2>1. Old("load")
    BY <1>t, <1>7 DEF DistinctOK, Is
  <2> QED BY <1>1, <1>3, <1>7, <2>1
<1>8. ASSUME ~Cyclic PROVE fate' # "overflow"
  BY <1>4, <1>5, <1>8 DEF DistinctOK
<1> QED BY <1>t, <1>c, <1>6, <1>7, <1>8 DEF DistinctOK, Is

(* A call of DeleteModule at the bottom is for a module that Unload did    *)
(* not refuse.                                                             *)
LEMMA BottomStep ==
    ASSUME ListOK, StackOK, BottomOK, Kind
    PROVE  BottomOK'
<1>t. N \in Nat /\ Len(stack) = N /\ Len(stack') = N' /\ stack \in Seq(Frames)
  BY DEF ListOK, N
<1> SUFFICES ASSUME stack' # <<>>, stack'[1].call = "delete"
             PROVE  stack'[1].mod \notin permanent'
  BY DEF BottomOK, Is
<1>1. N' \in Nat
  BY KindCalls DEF CallsStep
<1>2. CASE N >= 1 /\ N' >= 1
  <2>1. stack'[1].call = stack[1].call /\ stack'[1].mod = stack[1].mod
    BY <1>t, <1>1, <1>2, KindCalls DEF CallsStep
  <2>2. stack # <<>>
    BY <1>t, <1>2
  <2>3. stack[1].mod \notin permanent
    BY <2>1, <2>2 DEF BottomOK, Is
  <2>4. ~LoadsOnly
    BY <1>t, <1>2, <2>1 DEF LoadsOnly, Is
  <2>5. ~FinishesLoad
    BY <1>2, <2>4, Families DEF FinishesLoad
  <2>6. permanent' \subseteq permanent
    BY <2>5, HandleChanges DEF ListKept, Destroys
  <2> QED BY <2>1, <2>3, <2>6
<1>3. CASE N = 0
  <2>1. \A m \in Names : LoadFrame(m).call = "load"
    BY DEF LoadFrame
  <2>2. ASSUME NEW g \in Frames, Begins(g) PROVE stack'[1].mod \notin permanent'
    <3>1. stack'[1] = g /\ permanent' = permanent
      BY <1>t, <1>3, <2>2 DEF Begins, Pushes, Kept, ListKept
    <3>2. \E m \in handles \ permanent : g = DeleteFrame(m)
      BY <2>1, <2>2, <3>1 DEF Begins
    <3> QED BY <3>1, <3>2 DEF DeleteFrame
  <2>3. ASSUME NEW g \in Frames, BeginsUnloadAll(g) PROVE FALSE
    BY <1>t, <1>3, <2>3 DEF BeginsUnloadAll, Pushes
  <2>4. ASSUME stack' = stack PROVE FALSE
    BY <1>t, <1>3, <2>4
  <2> QED BY <1>t, <1>3, <2>2, <2>3, <2>4
          DEF Kind, DoesNothing, AddsBuiltIn, LooksUp, LoadsNeeded, Overflows, LoadsFile,
              FinishesLoad, Returns, Passes, DeletesDependent, UsesErased, Destroys,
              DeletesFront
<1>4. CASE N >= 1 /\ N' = 0
  <2>1. stack' \in Seq(Frames)
    BY <1>t, <1>4 DEF Kind, DoesNothing, Begins, BeginsUnloadAll, AddsBuiltIn, LooksUp,
                      LoadsNeeded, Overflows, LoadsFile, FinishesLoad, Returns, Passes,
                      DeletesDependent, UsesErased, Destroys, DeletesFront, Pops, Changes,
                      Pushes, ChangesAndPushes
  <2> QED BY <1>t, <1>4, <2>1
<1> QED BY <1>t, <1>1, <1>2, <1>3, <1>4

(* The calls nest no deeper than the C stack allows. *)
LEMMA DepthStep ==
    ASSUME ListOK, StackOK, AcyclicOK, LoopOK, DistinctOK, DepthOK, Kind
    PROVE  DepthOK'
<1>t. /\ N \in Nat /\ Len(stack) = N /\ Len(stack') = N' /\ N <= MaxDepth + 1
      /\ MaxDepth \in Nat /\ MaxDepth >= 1 /\ NumNames \in Nat /\ MaxDepth > NumNames
  BY NamesAssumption, DepthAssumption DEF ListOK, N, DepthOK
<1>k. N' \in Nat /\ N' \in {N - 1, N, N + 1} /\ (N' = N + 1 => Reason(stack'[N + 1]))
  BY KindCalls DEF CallsStep
<1>1. CASE N' # N + 1
  BY <1>t, <1>k, <1>1 DEF DepthOK
<1>2. CASE N = 0 \/ N = 1
  BY <1>t, <1>k, <1>2 DEF DepthOK
<1>3. CASE N' = N + 1 /\ N >= 2
  <2>g. N >= 1 /\ N # 1
    BY <1>t, <1>3
  <2>1. Is(N, "load") \/ Is(N, "delete")
    BY <2>g, Families
  <2>2. CASE Is(N, "load")
    <3>1. stack' # stack /\ N # 0
      BY <1>t, <1>3
    <3>2. ~Pops /\ \A f : ~Changes(f)
      BY <1>t, <1>3 DEF Pops, Changes
    <3>3. stack[N].call # "loadall" /\ stack[N].call # "delete" /\ stack[N].call # "unloadall"
      BY <2>2 DEF Is
    <3>4. \E m \in Names : LoadsNeeded(m)
      BY <3>1, <3>2, <3>3
         DEF Kind, DoesNothing, Begins, BeginsUnloadAll, AddsBuiltIn, LooksUp, Overflows,
             LoadsFile, FinishesLoad, Returns, Passes, DeletesDependent, UsesErased, Destroys,
             DeletesFront, Is
    <3>5. N < MaxDepth
      BY <3>4 DEF LoadsNeeded
    <3> QED BY <1>t, <1>3, <3>5 DEF DepthOK
  <2>3. CASE Is(N, "delete")
    <3> DEFINE m == stack'[N + 1].mod
    <3>1. m \in Names /\ m \in handles /\ <<m, stack[N].mod>> \in needs
      BY <1>t, <1>k, <1>3, <2>3 DEF Reason, Is
    <3> HIDE DEF m
    <3>2. \A j \in 1 .. N : Is(j, "delete") => stack[j].mod # m
      BY <2>g, <2>3, <3>1, DeletesAreFresh
    <3>3. \A i, j \in 1 .. N :
             Is(i, "delete") /\ Is(j, "delete") /\ stack[i].mod = stack[j].mod => i = j
      BY <1>t DEF DistinctOK
    <3>4. N <= NumNames
      BY <2>g, <2>3, <3>1, <3>2, <3>3, FewCalls
    <3> QED BY <1>t, <1>3, <3>4 DEF DepthOK
  <2> QED BY <2>1, <2>2, <2>3
<1> QED BY <1>t, <1>k, <1>1, <1>2, <1>3

Sound(i) ==
    stack[i].call = "delete" =>
        stack[i].it \in Loaded \cup {End} /\ stack[i].it \notin Above(i)

(* Without a chain of two needs the iterator does not dangle. *)
LEMMA IteratorStep ==
    ASSUME ListOK, StackOK, LoopOK, IteratorOK, Kind, needs' = needs
    PROVE  IteratorOK'
<1>c. Chain' <=> Chain
  BY DEF Chain
<1>t. /\ N \in Nat /\ Len(stack) = N /\ Len(stack') = N'
      /\ handles \subseteq Loaded /\ Begin \in Loaded \cup {End} /\ Loaded \subseteq Names
      /\ ListKept => Loaded' = Loaded
      /\ \A x \in Loaded : Successor(x) \in Loaded \cup {End} /\ Successor(x) # x
  BY ListChanges, ListFacts DEF ListOK, N
<1>k. CallsStep
  BY KindCalls
<1> SUFFICES ASSUME ~Chain
             PROVE  (\A i \in 1 .. N' : Sound(i)') /\ fate' # "undefined"
  BY <1>t, <1>c DEF IteratorOK, Sound, Is
<1>l. (\A i \in 1 .. N : Sound(i)) /\ fate # "undefined"
  BY <1>t DEF IteratorOK, Sound, Is
<1>u. ~UsesErased
  <2> SUFFICES ASSUME UsesErased PROVE FALSE
    OBVIOUS
  <2>1. /\ N >= 1 /\ stack[N].call = "delete" /\ stack[N].it # End
        /\ stack[N].it \notin Loaded
    BY DEF UsesErased, Is
  <2>2. N \in 1 .. N
    BY <1>t, <2>1
  <2> QED BY <1>l, <2>1, <2>2 DEF Sound
<1>v. fate' # "undefined"
  BY <1>l, <1>u
     DEF Kind, DoesNothing, Begins, BeginsUnloadAll, AddsBuiltIn, LooksUp, LoadsNeeded,
         Overflows, LoadsFile, FinishesLoad, Returns, Passes, DeletesDependent, Destroys,
         DeletesFront, Kept
<1> SUFFICES ASSUME NEW i \in 1 .. N', stack'[i].call = "delete" PROVE Sound(i)'
  BY <1>v DEF Sound
<1>f. \A m \in Names : DeleteFrame(m).mod = m /\ DeleteFrame(m).it = Begin
  BY DEF DeleteFrame
<1>n. i \in 1 .. N /\ i + 1 \in 1 .. N /\ i + 1 <= N' => Above(i)' = Above(i)
  <2> SUFFICES ASSUME i \in 1 .. N, i + 1 \in 1 .. N, i + 1 <= N'
               PROVE  Above(i)' = Above(i)
    OBVIOUS
  <2>1. stack'[i + 1].mod = stack[i + 1].mod /\ i < N /\ i < N'
    BY <1>t, <1>k DEF CallsStep
  <2> QED BY <1>t, <2>1 DEF Above
<1>a. ASSUME stack'[i].it \in Loaded' \cup {End}, i = N' PROVE Sound(i)'
  BY <1>t, <1>a DEF Sound, Above
<1>1. CASE DoesNothing \/ \E m \in Names : Overflows(m)
  <2>1. stack' = stack /\ ListKept
    BY <1>1 DEF DoesNothing, Overflows, Kept
  <2>2. Above(i)' = Above(i)
    BY <2>1 DEF Above
  <2> QED BY <1>t, <1>l, <2>1, <2>2 DEF Sound
<1>2. ASSUME NEW g \in Frames, Begins(g) PROVE Sound(i)'
  <2>1. N = 0 /\ N' = 1 /\ stack'[1] = g /\ i = 1 /\ ListKept
    BY <1>t, <1>2 DEF Begins, Pushes, Kept
  <2>2. \E m \in handles : g = DeleteFrame(m)
    BY <1>2, <2>1 DEF Begins, LoadFrame
  <2> QED BY <1>a, <1>f, <1>t, <2>1, <2>2
<1>3. ASSUME NEW g \in Frames, BeginsUnloadAll(g) PROVE FALSE
  <2>1. N' = 1 /\ stack'[1] = g /\ i = 1 /\ g.call = "unloadall"
    BY <1>t, <1>3 DEF BeginsUnloadAll, Pushes
  <2> QED BY <2>1
<1>4. ASSUME NEW m \in Names, AddsBuiltIn(m) PROVE FALSE
  BY <1>t, <1>4 DEF AddsBuiltIn
<1>5. CASE \/ \E f \in Frames : LooksUp(f)
           \/ \E m \in Names : LoadsNeeded(m)
           \/ \E f \in Frames, m \in Names : LoadsFile(f, m)
           \/ FinishesLoad \/ Returns
  <2>1. N >= 1 /\ ~Is(N, "delete")
    BY <1>5 DEF LooksUp, LoadsNeeded, LoadsFile, FinishesLoad, Returns, Is
  <2>2. N' = N + 1 => stack'[N + 1].call # "delete"
    <3>1. \A m \in Names : LoadFrame(m).call = "load"
      BY DEF LoadFrame
    <3>2. ASSUME NEW f \in Frames, LooksUp(f) PROVE N' # N + 1
      BY <1>t, <3>2 DEF LooksUp, Changes
    <3>3. ASSUME FinishesLoad \/ Returns PROVE N' # N + 1
      BY <1>t, <3>3 DEF FinishesLoad, Returns, Pops
    <3>4. ASSUME NEW m \in Names, LoadsNeeded(m) PROVE stack'[N + 1].call # "delete"
      BY <1>t, <3>1, <3>4 DEF LoadsNeeded, Pushes
    <3>5. ASSUME NEW f \in Frames, NEW m \in Names, LoadsFile(f, m)
          PROVE  stack'[N + 1].call # "delete"
      BY <1>t, <3>1, <3>5 DEF LoadsFile, ChangesAndPushes
    <3> QED BY <1>5, <3>2, <3>3, <3>4, <3>5
  <2> QED BY <1>k, <2>1, <2>2, NoDeletes
<1>6. ASSUME NEW m \in Names, DeletesFront(m) PROVE Sound(i)'
  <2>1. /\ N >= 1 /\ N' = N + 1 /\ \A k \in 1 .. N : stack'[k] = stack[k]
        /\ stack'[N + 1] = DeleteFrame(m) /\ ListKept /\ Is(N, "unloadall")
    BY <1>t, <1>6 DEF DeletesFront, Pushes, Same, Kept
  <2>2. N = 1
    BY <2>1, Families
  <2>3. i = N + 1
    BY <1>t, <2>1, <2>2 DEF Is
  <2> QED BY <1>a, <1>f, <1>t, <2>1, <2>3
<1>7. ASSUME NEW f \in Frames, Passes(f) PROVE Sound(i)'
  <2>1. /\ N >= 1 /\ N' = N /\ stack'[N] = f /\ ListKept /\ stack[N].call = "delete"
        /\ \A k \in 1 .. N - 1 : stack'[k] = stack[k]
        /\ stack[N].it \in Loaded /\ f.it = Successor(stack[N].it)
    BY <1>t, <1>7 DEF Passes, Changes, Same, Kept, Is
  <2>2. CASE i = N
    BY <1>a, <1>t, <2>1, <2>2
  <2>3. CASE i # N
    <3>1. i \in 1 .. N - 1 /\ i \in 1 .. N /\ i + 1 \in 1 .. N /\ i + 1 <= N'
      BY <1>t, <2>1, <2>3
    <3> QED BY <1>t, <1>l, <1>n, <2>1, <3>1 DEF Sound
  <2> QED BY <2>2, <2>3
<1>8. ASSUME NEW f \in Frames, DeletesDependent(f) PROVE Sound(i)'
  <2> DEFINE y == stack[N].it
  <2>1. /\ N >= 1 /\ N' = N + 1 /\ stack'[N] = f /\ ListKept /\ stack[N].call = "delete"
        /\ \A k \in 1 .. N - 1 : stack'[k] = stack[k]
        /\ y \in Loaded /\ f.it = Successor(y) /\ stack'[N + 1] = DeleteFrame(y)
    BY <1>t, <1>8 DEF DeletesDependent, ChangesAndPushes, Same, Kept, Is
  <2> HIDE DEF y
  <2>2. i \in 1 .. N - 1 \/ i = N \/ i = N + 1
    BY <1>t, <2>1
  <2>3. CASE i = N + 1
    BY <1>a, <1>f, <1>t, <2>1, <2>3
  <2>4. CASE i = N
    <3>1. Above(i)' = {y}
      BY <1>t, <1>f, <2>1, <2>4 DEF Above
    <3> QED BY <1>t, <2>1, <2>4, <3>1 DEF Sound
  <2>5. CASE i \in 1 .. N - 1
    <3>1. i \in 1 .. N /\ i + 1 \in 1 .. N /\ i + 1 <= N'
      BY <1>t, <2>1, <2>5
    <3> QED BY <1>t, <1>l, <1>n, <2>1, <2>5, <3>1 DEF Sound
  <2> QED BY <2>2, <2>3, <2>4, <2>5
<1>9. ASSUME NEW m \in Names \cup {End}, Destroys(m) PROVE Sound(i)'
  <2>1. /\ N >= 1 /\ N' = N - 1 /\ \A k \in 1 .. N - 1 : stack'[k] = stack[k]
        /\ stack[N].call = "delete" /\ m = stack[N].mod /\ Loaded' = Loaded \ {m}
        /\ m \in Loaded
    BY <1>t, <1>9, NothingDepends, ListChanges DEF Destroys, Pops, Same, Is
  <2>2. i \in 1 .. N - 1 /\ i \in 1 .. N /\ i + 1 \in 1 .. N
    BY <1>t, <2>1
  <2>3. stack'[i] = stack[i] /\ stack[i].call = "delete"
    BY <2>1, <2>2
  <2>4. i + 1 = N
    <3> SUFFICES ASSUME i + 1 # N PROVE FALSE
      OBVIOUS
    <3>1. /\ i + 1 \in 2 .. N /\ i + 2 \in 2 .. N /\ i + 1 \in 1 .. N /\ i + 2 \in 1 .. N
          /\ (i + 1) - 1 = i /\ (i + 2) - 1 = i + 1 /\ i + 1 # 1 /\ i + 2 # 1
      BY <1>t, <2>2
    <3>2. DeletesOnly
      BY <2>1, Families DEF Is
    <3>3. Is(i, "delete") /\ Is(i + 1, "delete") /\ Is(i + 2, "delete")
      BY <1>t, <2>3, <3>1, <3>2 DEF DeletesOnly, Is
    <3>4. /\ <<stack[i + 1].mod, stack[i].mod>> \in needs
          /\ <<stack[i + 2].mod, stack[i + 1].mod>> \in needs
          /\ stack[i].mod \in Names /\ stack[i + 1].mod \in Names /\ stack[i + 2].mod \in Names
      BY <1>t, <2>2, <3>1, <3>3 DEF StackOK
    <3> QED BY <3>4 DEF Chain
  <2>5. stack[i].it \in Loaded \cup {End} /\ stack[i].it \notin Above(i)
    BY <1>l, <2>2, <2>3 DEF Sound
  <2>6. Above(i) = {m}
    BY <1>t, <2>1, <2>2, <2>4 DEF Above
  <2>7. i = N'
    BY <1>t, <2>1, <2>4
  <2> QED BY <1>a, <2>1, <2>3, <2>5, <2>6, <2>7
<1> QED
  BY <1>u, <1>1, <1>2, <1>3, <1>4, <1>5, <1>6, <1>7, <1>8, <1>9 DEF Kind

-----------------------------------------------------------------------------
(* The invariant holds of every reachable state, whatever the modules on   *)
(* disk depend on and whatever the application loads and unloads.          *)
THEOREM ModulesInvariant == Spec => []ModulesInv
<1>1. Init => ModulesInv
  <2> SUFFICES ASSUME Init PROVE ModulesInv
    OBVIOUS
  <2>1. /\ needs \subseteq Names \X Names /\ loose \subseteq Names \X Names
        /\ \A m \in Names : <<m, m>> \notin needs
    BY DEF Init
  <2>2. /\ Modules = <<>> /\ handles = {} /\ permanent = {} /\ stack = <<>>
        /\ failed \in BOOLEAN /\ fate = "ok"
    BY DEF Init
  <2>3. /\ Modules \in Seq(Names) /\ Len(Modules) = 0
        /\ stack \in Seq(Frames) /\ Len(stack) = 0
    BY <2>2
  <2>4. ListOK
    BY <2>1, <2>2, <2>3 DEF ListOK, Unique
  <2>5. StackOK /\ LookupOK /\ LoopOK /\ BottomOK
    BY <2>2, <2>3 DEF StackOK, LoadsOnly, LookupOK, LoopOK, BottomOK
  <2>6. HeldOK /\ OrderOK /\ AcyclicOK
    BY <2>2, <2>3 DEF HeldOK, OrderOK, AcyclicOK
  <2>7. DistinctOK /\ IteratorOK /\ DepthOK
    BY <2>2, <2>3, DepthAssumption DEF DistinctOK, IteratorOK, DepthOK
  <2> QED BY <2>4, <2>5, <2>6, <2>7 DEF ModulesInv
<1>2. ModulesInv /\ [Next]_vars => ModulesInv'
  <2> SUFFICES ASSUME ModulesInv, [Next]_vars PROVE ModulesInv'
    OBVIOUS
  <2>1. /\ ListOK /\ StackOK /\ LookupOK /\ HeldOK /\ OrderOK /\ AcyclicOK
        /\ LoopOK /\ DistinctOK /\ BottomOK /\ IteratorOK /\ DepthOK
    BY DEF ModulesInv
  <2>2. Kind /\ needs' = needs
    BY <2>1, StepKinds
  <2>3. ListOK' /\ CallsStep
    BY <2>1, <2>2, ListStep, KindCalls
  <2>4. StackOK' /\ LookupOK'
    BY <2>1, <2>2, <2>3, StackStep, LookupStep
  <2>5. HeldOK' /\ OrderOK' /\ AcyclicOK'
    BY <2>1, <2>2, HeldStep, OrderStep, AcyclicStep
  <2>6. LoopOK' /\ DistinctOK'
    BY <2>1, <2>2, <2>3, LoopStep, DistinctStep
  <2>7. BottomOK' /\ IteratorOK' /\ DepthOK'
    BY <2>1, <2>2, BottomStep, IteratorStep, DepthStep
  <2> QED BY <2>3, <2>4, <2>5, <2>6, <2>7 DEF ModulesInv
<1> QED BY <1>1, <1>2, PTL DEF Spec

(* Types, one entry of each module in the list, and the depth of the calls *)
(* (ModuleHandler.cpp:70-341, Module.cpp:22-50).                           *)
THEOREM ModulesTypeCorrect == Spec => []TypeOK
<1>1. ModulesInv => TypeOK
  <2> SUFFICES ASSUME ListOK, DepthOK PROVE TypeOK
    BY DEF ModulesInv
  <2>1. Cardinality(Loaded) = Len(Modules)
    <3>1. Modules \in Seq(Names) /\ \A i, j \in 1 .. Len(Modules) : Modules[i] = Modules[j] => i = j
      BY DEF ListOK, Unique
    <3>2. Cardinality(ToSet(Modules)) = Len(Modules)
      BY <3>1, DistinctElements
    <3> QED BY Zenon, <3>2 DEF Loaded
  <2> QED BY <2>1 DEF ListOK, DepthOK, TypeOK
<1> QED BY <1>1, ModulesInvariant, PTL

(* Between two calls of the application, what a loaded module depends on   *)
(* is loaded and before it in the list (ModuleHandler.cpp:111-160, 253-292). *)
THEOREM DependenciesAlwaysHeld == Spec => []DependenciesHeld
<1>1. ModulesInv => DependenciesHeld
  <2> SUFFICES ASSUME ListOK, HeldOK, OrderOK, stack = <<>>,
                      NEW m \in handles, NEW d \in Names, <<m, d>> \in needs
               PROVE  d \in Loaded /\ Position(d) < Position(m)
    BY DEF ModulesInv, DependenciesHeld
  <2>1. d \in Loaded /\ m \in Loaded
    BY DEF HeldOK, ListOK
  <2>2. /\ Position(d) \in 1 .. Len(Modules) /\ Modules[Position(d)] = d
        /\ Position(m) \in 1 .. Len(Modules) /\ Modules[Position(m)] = m
    BY <2>1, ListFacts
  <2>3. \A i \in 1 .. Len(stack) : ~Is(i, "unloadall")
    OBVIOUS
  <2> QED BY <2>1, <2>2, <2>3 DEF OrderOK
<1> QED BY <1>1, ModulesInvariant, PTL

(* The iterator of DeleteModule is used after its element was erased only  *)
(* where one module depends on another that depends on a third             *)
(* (ModuleHandler.cpp:262-272).                                            *)
THEOREM DanglingNeedsChain == Spec => []UndefinedNeedsChain
<1>1. ModulesInv => UndefinedNeedsChain
  BY DEF ModulesInv, IteratorOK, Chain, UndefinedNeedsChain
<1> QED BY <1>1, ModulesInvariant, PTL

(* LoadModule and DeleteModule nest deeper than there are modules, and so  *)
(* exhaust the C stack, only on a cycle of dependencies                    *)
(* (ModuleHandler.cpp:134-143).                                            *)
THEOREM OverflowNeedsCycle == Spec => []DeepOnlyOnCycle
<1>1. ModulesInv => DeepOnlyOnCycle
  <2> SUFFICES ASSUME ListOK, StackOK, DistinctOK, ~Cyclic, Len(stack) > NumNames + 1
               PROVE  FALSE
    BY DEF ModulesInv, DeepOnlyOnCycle, DistinctOK
  <2>1. N \in Nat /\ Len(stack) = N /\ N > NumNames + 1 /\ NumNames \in Nat /\ N - 1 \in Nat
    BY NamesAssumption DEF ListOK, N
  <2> DEFINE f == [i \in 1 .. N - 1 |-> stack[i + 1].mod]
  <2>2. \A i \in 1 .. N - 1 : i + 1 \in 2 .. N /\ i + 1 \in 1 .. N /\ i + 1 # 1
    BY <2>1
  <2>3. \/ \A i \in 1 .. N - 1 : Is(i + 1, "load")
        \/ \A i \in 1 .. N - 1 : Is(i + 1, "delete")
    BY <2>1, <2>2 DEF StackOK, LoadsOnly, DeletesOnly
  <2>4. \A i \in 1 .. N - 1 : stack[i + 1].mod \in 1 .. NumNames
    BY <2>1, <2>2, <2>3 DEF StackOK, Names
  <2>5. \A i, j \in 1 .. N - 1 : stack[i + 1].mod = stack[j + 1].mod => i = j
    <3>1. \A i, j \in 1 .. N - 1 : stack[i + 1].mod = stack[j + 1].mod => i + 1 = j + 1
      BY <2>1, <2>2, <2>3 DEF DistinctOK
    <3> QED BY <2>1, <3>1
  <2>6. f \in [1 .. N - 1 -> 1 .. NumNames] /\ \A i, j \in 1 .. N - 1 : f[i] = f[j] => i = j
    BY <2>4, <2>5
  <2> HIDE DEF f
  <2>7. N - 1 <= NumNames
    BY <2>1, <2>6, FewDistinct
  <2> QED BY <2>1, <2>7
<1> QED BY <1>1, ModulesInvariant, PTL

(* A permanent module leaves the list only in UnloadAll or because a       *)
(* module it depends on is being deleted (ModuleHandler.cpp:207-292).      *)
THEOREM PermanentLeavesOnlyThus == Spec => PermanentLeaves
<1> DEFINE Leaves == \A m \in permanent \ permanent' :
              \E i \in DOMAIN stack :
                  \/ stack[i].call = "unloadall"
                  \/ /\ i < Len(stack) /\ stack[i].call = "delete"
                     /\ DependsOn(m, stack[i].mod)
<1>1. ModulesInv /\ [Next]_vars => [Leaves]_vars
  <2> SUFFICES ASSUME ListOK, StackOK, LoopOK, BottomOK, [Next]_vars,
                      NEW m \in permanent \ permanent'
               PROVE  \E i \in DOMAIN stack :
                          \/ stack[i].call = "unloadall"
                          \/ /\ i < Len(stack) /\ stack[i].call = "delete"
                             /\ DependsOn(m, stack[i].mod)
    BY DEF ModulesInv
  <2>1. Kind
    BY StepKinds
  <2>2. Destroys(m)
    <3>1. PICK x \in Names \cup {End} : Destroys(x)
      BY <2>1, HandleChanges DEF ListKept, FinishesLoad
    <3>2. x = m
      BY <3>1 DEF Destroys
    <3> QED BY <3>1, <3>2
  <2>3. /\ N >= 1 /\ N \in Nat /\ Len(stack) = N /\ Is(N, "delete") /\ m = stack[N].mod
        /\ DOMAIN stack = 1 .. N /\ stack # <<>>
    BY <2>2 DEF Destroys, ListOK, N
  <2>4. DeletesOnly /\ m \in handles
    BY <2>2, <2>3, Families, NothingDepends
  <2>5. N # 1
    BY <2>3 DEF BottomOK
  <2>6. N - 1 \in DOMAIN stack /\ N - 1 < Len(stack) /\ N \in 2 .. N
    BY <2>3, <2>5
  <2>7. CASE Is(N - 1, "unloadall")
    BY <2>6, <2>7 DEF Is
  <2>8. CASE Is(N - 1, "delete")
    <3>1. <<m, stack[N - 1].mod>> \in needs
      BY <2>3, <2>6, <2>8 DEF StackOK
    <3> QED BY <2>4, <2>6, <2>8, <3>1 DEF DependsOn, Is
  <2> QED BY <2>3, <2>4, <2>6, <2>7, <2>8 DEF DeletesOnly
<1>2. Spec => [][Leaves]_vars
  BY <1>1, ModulesInvariant, PTL DEF Spec
<1> QED BY <1>2 DEF PermanentLeaves
=============================================================================
