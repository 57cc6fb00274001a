--------------------------- MODULE ModuleHandler ---------------------------
(***************************************************************************)
(* Loading and unloading of modules with dependencies, from                *)
(* src/src/ModuleHandler.cpp and src/src/Module.cpp.                       *)
(*                                                                         *)
(* A module is its name; names are numbers in the order std::list::sort    *)
(* puts them in.  What a module depends on is fixed: an entry <<m, d>> of  *)
(* `needs' stands for d in m's `dependencies' symbol, and one of `loose'   *)
(* for an entry that spells d with another case, which FindModule accepts  *)
(* and DeleteModule and the file system do not.  The recursion of          *)
(* LoadModule and DeleteModule is explicit in `stack', innermost call      *)
(* last.  A dependency list has no repeated entry and a module does not   *)
(* name itself.                                                            *)
(***************************************************************************)
EXTENDS Naturals, Sequences, FiniteSets, SequencesExt

CONSTANTS
    NumNames,   \* how many modules there are
    MaxDepth    \* bound: calls nested in each other, room for one of each module;
                \* past it the C stack is exhausted

ASSUME NamesAssumption == NumNames \in Nat
ASSUME DepthAssumption == MaxDepth \in Nat /\ MaxDepth > NumNames

Names == 1 .. NumNames
End == 0    \* Modules.end()

VARIABLES
    needs, loose,   \* the dependency entries of the modules on disk
    Modules,        \* the global list
    handles,        \* the modules whose handle is set (not built into the program)
    permanent,      \* the modules that called SetPermanent(true)
    stack,          \* the calls of LoadModule, LoadModules, DeleteModule, UnloadAll
    failed,         \* whether the LoadModule that just returned reported an error
    fate            \* "ok", "undefined" (freed memory used), "overflow" or "aborted"

onDisk == <<needs, loose>>
vars == <<onDisk, Modules, handles, permanent, stack, failed, fate>>

Loaded == ToSet(Modules)

(* deps: what LoadModule has still to look up, or LoadModules to load; it: *)
(* the iterator of DeleteModule, already past the element being looked at. *)
Frames == [call : {"load", "loadall", "delete", "unloadall"}, mod : Names \cup {End},
           deps : SUBSET Names, it : Names \cup {End}]

Top == Last(stack)
Push(frame) == stack' = Append(stack, frame)
Resumed(frame) == [stack EXCEPT ![Len(stack)] = frame]
Return == stack' = Front(stack)
InCall(name) == fate = "ok" /\ stack # <<>> /\ Top.call = name

Begin == IF Modules = <<>> THEN End ELSE Modules[1]

Position(m) == CHOOSE i \in DOMAIN Modules : Modules[i] = m

Successor(m) ==
    IF Position(m) = Len(Modules) THEN End ELSE Modules[Position(m) + 1]

LoadFrame(m) == [call |-> "load", mod |-> m, it |-> End,
                 deps |-> {d \in Names : <<m, d>> \in needs \cup loose}]

Init ==
    /\ needs \in SUBSET {p \in Names \X Names : p[1] # p[2]}
    /\ loose \in SUBSET {p \in Names \X Names : p[1] # p[2]}
    /\ needs \cap loose = {}
    /\ Modules = <<>>
    /\ handles = {} /\ permanent = {}
    /\ stack = <<>>
    /\ failed = FALSE
    /\ fate = "ok"

-----------------------------------------------------------------------------
(* LoadModule.                                                             *)

(* The application loads a module that FindModule does not find. *)
CallLoad(m) ==
    /\ stack = <<>> /\ fate = "ok"
    /\ m \notin Loaded
    /\ Push(LoadFrame(m))
    /\ UNCHANGED <<onDisk, Modules, handles, permanent, failed, fate>>

Satisfied(d) ==
    /\ InCall("load") /\ ~failed
    /\ d \in Top.deps \cap Loaded
    /\ stack' = Resumed([Top EXCEPT !.deps = @ \ {d}])
    /\ UNCHANGED <<onDisk, Modules, handles, permanent, failed, fate>>

(* Faulty variant: loads what is loaded already. *)
LoadAgain(d) ==
    /\ InCall("load") /\ ~failed
    /\ d \in Top.deps
    /\ <<Top.mod, d>> \in needs
    /\ IF Len(stack) < MaxDepth
          THEN Push(LoadFrame(Top.mod)) /\ UNCHANGED fate
          ELSE fate' = "overflow" /\ UNCHANGED stack
    /\ UNCHANGED <<onDisk, Modules, handles, permanent, failed>>

(* LoadModule("modules/" + d), which recurses without end on a cycle. *)
LoadDependency(d) ==
    /\ InCall("load") /\ ~failed
    /\ d \in Top.deps \ Loaded
    /\ <<Top.mod, d>> \in needs
    /\ IF Len(stack) < MaxDepth
          THEN Push(LoadFrame(d)) /\ UNCHANGED fate
          ELSE fate' = "overflow" /\ UNCHANGED stack
    /\ UNCHANGED <<onDisk, Modules, handles, permanent, failed>>

(* Faulty variant: a dependency that fails to load is only logged. *)
IgnoreFailure ==
    /\ InCall("load") /\ failed
    /\ failed' = FALSE
    /\ stack' = Resumed([Top EXCEPT !.deps = {}])
    /\ UNCHANGED <<onDisk, Modules, handles, permanent, fate>>

(* MOD_ERR_DEPENDS; what was loaded for the sake of this module stays. *)
DependencyFailed ==
    /\ InCall("load") /\ failed
    /\ Return
    /\ failed' = (Len(stack) > 1)
    /\ UNCHANGED <<onDisk, Modules, handles, permanent, fate>>

(* LoadModule(m), in any of its three callers, does not get to dlopen: the *)
(* copy into runtime/ could not be opened, so assert(CopyFile(dest, src))  *)
(* fails, or, compiled with NDEBUG, dest->GetPath() is called on null.     *)
CopyAborts(m) ==
    /\ m \notin Loaded
    /\ \/ stack = <<>> /\ fate = "ok"
       \/ InCall("load") /\ ~failed /\ m \in Top.deps /\ <<Top.mod, m>> \in needs
       \/ InCall("loadall") /\ Top.deps # {} /\ m = Min(Top.deps)
    /\ fate' = "aborted"
    /\ UNCHANGED <<onDisk, Modules, handles, permanent, stack, failed>>

(* MOD_ERR_NOLOAD or MOD_ERR_EXCEPTION: what was copied is no module, a    *)
(* dependency of another spelling or the symbol is missing, or the         *)
(* constructor throws.                                                     *)
LoadFails ==
    /\ InCall("load") /\ ~failed
    /\ Return
    /\ failed' = (Len(stack) > 1)
    /\ UNCHANGED <<onDisk, Modules, handles, permanent, fate>>

(* The constructor of Module puts it at the end of the list. *)
LoadOK(isPermanent) ==
    /\ InCall("load") /\ ~failed
    /\ Top.deps = {}
    /\ Top.mod \notin Loaded
    /\ Modules' = Append(Modules, Top.mod)
    /\ handles' = handles \cup {Top.mod}
    /\ permanent' = IF isPermanent THEN permanent \cup {Top.mod} ELSE permanent
    /\ Return
    /\ UNCHANGED <<onDisk, failed, fate>>

(* LoadModules: the files of modules/ in their order, each loaded unless   *)
(* FindModule finds it; an error is logged and the loop goes on.           *)
LoadModules ==
    /\ stack = <<>> /\ fate = "ok"
    /\ Push([call |-> "loadall", mod |-> End, it |-> End, deps |-> Names])
    /\ UNCHANGED <<onDisk, Modules, handles, permanent, failed, fate>>

LoadNext ==
    /\ InCall("loadall") /\ Top.deps # {}
    /\ LET m == Min(Top.deps)
           rest == Resumed([Top EXCEPT !.deps = @ \ {m}])
       IN  stack' = IF m \in Loaded THEN rest ELSE Append(rest, LoadFrame(m))
    /\ failed' = FALSE
    /\ UNCHANGED <<onDisk, Modules, handles, permanent, fate>>

LoadModulesDone ==
    /\ InCall("loadall") /\ Top.deps = {}
    /\ Return
    /\ failed' = FALSE
    /\ UNCHANGED <<onDisk, Modules, handles, permanent, fate>>

(* Faulty variant: does not look for a module of the same name. *)
BuiltInUnchecked(m) ==
    /\ stack = <<>> /\ fate = "ok"
    /\ Modules' = Append(Modules, m)
    /\ UNCHANGED <<onDisk, handles, permanent, stack, failed, fate>>

(* The program constructs a Module of its own, which has no handle. *)
BuiltIn(m) ==
    /\ stack = <<>> /\ fate = "ok"
    /\ m \notin Loaded
    /\ Modules' = Append(Modules, m)
    /\ UNCHANGED <<onDisk, handles, permanent, stack, failed, fate>>

-----------------------------------------------------------------------------
(* DeleteModule, Unload and UnloadAll.                                     *)

DeleteFrame(m) == [call |-> "delete", mod |-> m, deps |-> {}, it |-> Begin]

(* Faulty variant: does not look at the permanent flag. *)
UnloadAny(m) ==
    /\ stack = <<>> /\ fate = "ok"
    /\ m \in handles
    /\ Push(DeleteFrame(m))
    /\ UNCHANGED <<onDisk, Modules, handles, permanent, failed, fate>>

(* Unload refuses a permanent module; DeleteModule one without a handle. *)
Unload(m) ==
    /\ stack = <<>> /\ fate = "ok"
    /\ m \in Loaded \ permanent
    /\ m \in handles
    /\ Push(DeleteFrame(m))
    /\ UNCHANGED <<onDisk, Modules, handles, permanent, failed, fate>>

DependsOn(mod, m) == mod \in handles /\ <<mod, m>> \in needs

(* Faulty variant: moves the iterator on only if it deletes nothing. *)
VisitInPlace ==
    /\ InCall("delete")
    /\ Top.it \in Loaded
    /\ IF DependsOn(Top.it, Top.mod)
          THEN Push(DeleteFrame(Top.it))
          ELSE stack' = Resumed([Top EXCEPT !.it = Successor(Top.it)])
    /\ UNCHANGED <<onDisk, Modules, handles, permanent, failed, fate>>

(* The loop looks at the element under the iterator, which it moves on     *)
(* before it deletes that element if it depends on the module.             *)
Visit ==
    /\ InCall("delete")
    /\ Top.it \in Loaded
    /\ LET mod == Top.it
           moved == Resumed([Top EXCEPT !.it = Successor(mod)])
       IN  stack' = IF DependsOn(mod, Top.mod) THEN Append(moved, DeleteFrame(mod))
                    ELSE moved
    /\ UNCHANGED <<onDisk, Modules, handles, permanent, failed, fate>>

(* The element the iterator was moved to is gone. *)
VisitFreed ==
    /\ InCall("delete")
    /\ Top.it # End /\ Top.it \notin Loaded
    /\ fate' = "undefined"
    /\ UNCHANGED <<onDisk, Modules, handles, permanent, stack, failed>>

(* terminate(m), or `delete m' where there is no such symbol: ~Module      *)
(* erases it from the list if it is there.                                 *)
Destroy ==
    /\ InCall("delete")
    /\ Top.it = End
    /\ Modules' = IF Top.mod \in Loaded THEN RemoveAt(Modules, Position(Top.mod))
                  ELSE Modules
    /\ handles' = handles \ {Top.mod}
    /\ permanent' = permanent \ {Top.mod}
    /\ Return
    /\ UNCHANGED <<onDisk, failed, fate>>

(* std::list::sort by name. *)
Sorted(S) ==
    CHOOSE s \in [1 .. Cardinality(S) -> S] : \A i, j \in DOMAIN s : i < j => s[i] < s[j]

UnloadAll ==
    /\ stack = <<>> /\ fate = "ok"
    /\ Modules' = Sorted(Loaded)
    /\ Push([call |-> "unloadall", mod |-> End, deps |-> {}, it |-> End])
    /\ UNCHANGED <<onDisk, handles, permanent, failed, fate>>

(* Faulty variant: leaves permanent modules alone. *)
UnloadFrontUnlessPermanent ==
    /\ InCall("unloadall")
    /\ Modules # <<>>
    /\ IF Modules[1] \in handles \ permanent
          THEN Push(DeleteFrame(Modules[1])) ELSE UNCHANGED stack
    /\ UNCHANGED <<onDisk, Modules, handles, permanent, failed, fate>>

(* Always the front of the list. *)
UnloadFront ==
    /\ InCall("unloadall")
    /\ Modules # <<>>
    /\ IF Modules[1] \in handles THEN Push(DeleteFrame(Modules[1])) ELSE UNCHANGED stack
    /\ UNCHANGED <<onDisk, Modules, handles, permanent, failed, fate>>

UnloadDone ==
    /\ InCall("unloadall")
    /\ Modules = <<>>
    /\ Return
    /\ UNCHANGED <<onDisk, Modules, handles, permanent, failed, fate>>

-----------------------------------------------------------------------------
Step ==
    \/ \E d \in Names : Satisfied(d) \/ LoadDependency(d)
    \/ DependencyFailed
    \/ LoadFails
    \/ \E isPermanent \in BOOLEAN : LoadOK(isPermanent)
    \/ LoadNext
    \/ LoadModulesDone
    \/ Visit
    \/ VisitFreed
    \/ Destroy
    \/ UnloadFront
    \/ UnloadDone

Application ==
    \/ \E m \in Names : CallLoad(m) \/ BuiltIn(m) \/ Unload(m)
    \/ LoadModules
    \/ UnloadAll

Next == Step \/ Application \/ \E m \in Names : CopyAborts(m)

Spec == Init /\ [][Next]_vars

(* The one thread goes on with the call it is in. *)
FairSpec == Spec /\ WF_vars(Step)

-----------------------------------------------------------------------------
TypeOK ==
    /\ needs \subseteq Names \X Names /\ loose \subseteq Names \X Names
    /\ Modules \in Seq(Names) /\ Cardinality(Loaded) = Len(Modules)
    /\ handles \subseteq Loaded /\ permanent \subseteq handles
    /\ stack \in Seq(Frames) /\ Len(stack) <= MaxDepth + 1
    /\ failed \in BOOLEAN
    /\ fate \in {"ok", "undefined", "overflow", "aborted"}

(* Between two calls every module finds what it depends on (as it spells   *)
(* it) loaded, and before it in the list.                                  *)
DependenciesHeld ==
    stack = <<>> =>
        \A m \in handles, d \in Names :
            <<m, d>> \in needs => d \in Loaded /\ Position(d) < Position(m)

(* The iterator of DeleteModule dangles only where a module depends on one *)
(* that itself depends on the module being deleted.                        *)
UndefinedNeedsChain ==
    fate = "undefined" =>
        \E a, b, c \in Names : <<b, a>> \in needs /\ <<c, b>> \in needs

(* LoadModule nests deeper than there are modules only on a cycle. *)
Cyclic == \E S \in (SUBSET Names) \ {{}} : \A m \in S : \E d \in S : <<m, d>> \in needs

DeepOnlyOnCycle ==
    (fate = "overflow" \/ Len(stack) > NumNames + 1) => Cyclic

(* A permanent module leaves the list in UnloadAll, or because one that it *)
(* depends on is being deleted, and in no other way.  (Unload refuses it;  *)
(* DeleteModule, ModuleHandler.cpp:224, does not, and so PermanentUntilEnd *)
(* below fails.)                                                           *)
PermanentLeaves ==
    [][\A m \in permanent \ permanent' :
          \E i \in DOMAIN stack :
              \/ stack[i].call = "unloadall"
              \/ /\ i < Len(stack) /\ stack[i].call = "delete"
                 /\ DependsOn(m, stack[i].mod)]_vars

(* UnloadAll comes to its end, unless the program has a module of its own  *)
(* (whose missing handle makes DeleteModule give up) or the walk dangles.  *)
Unloading == \E i \in DOMAIN stack : stack[i].call = "unloadall"

UnloadAllEnds == Unloading ~> (~Unloading \/ Loaded # handles \/ fate = "undefined")

(* ModuleHandler.cpp:276-280: deleting a module and what depends on it     *)
(* does not make "a memory error".                                         *)
NoMemoryError == fate # "undefined"

(* Module.h:73, "Whether the module should stay within the application     *)
(* until application termination": a permanent module leaves the list only *)
(* in UnloadAll, which the application calls when it ends.                 *)
PermanentUntilEnd ==
    [][\A m \in permanent \ permanent' :
          \E i \in DOMAIN stack : stack[i].call = "unloadall"]_vars

=============================================================================
