---------------------------- MODULE Directories ----------------------------
(***************************************************************************)
(* ModuleHandler::SanitizeRuntime, which empties the directory runtime/,   *)
(* and the FileSystem functions of src/src/File.cpp it does it with.       *)
(* DirectoryList replaces every entry by its RealPath before it looks into *)
(* it, so a symbolic link is never deleted, and what it points to is.      *)
(*                                                                         *)
(* A node of the file system is in one directory, its parent.  RealPath of *)
(* a link that points to nothing is a null pointer, of which no string can *)
(* be made.  Only the names of nodes are listed; their order is left open. *)
(***************************************************************************)
EXTENDS Naturals, Sequences, FiniteSets

CONSTANTS
    Dirs, PlainFiles, Links,   \* what may be in the file system
    Runtime,                   \* the directory runtime/
    Elsewhere,                 \* the directory it is in
    Nowhere                    \* no node

Nodes == Dirs \cup PlainFiles \cup Links \cup {Runtime, Elsewhere}

(* A node is a directory, a file or a link. *)
ASSUME DirectoriesAssumption ==
    /\ IsFiniteSet(Nodes) /\ Nowhere \notin Nodes
    /\ {Runtime, Elsewhere} \cap (Dirs \cup PlainFiles \cup Links) = {}
    /\ Dirs \cap PlainFiles = {} /\ Dirs \cap Links = {} /\ PlainFiles \cap Links = {}
    /\ Runtime # Elsewhere

VARIABLES
    parent,     \* node -> the directory it is in, or Nowhere
    target,     \* link -> what it points to
    stack,      \* DirectoryList calls, innermost first: directories to look into
    listed,     \* the paths collected so far
    sanitizing, \* "no", "list", "delete", "done" or, if it ends badly,
                \* "exception" (a null path) or "overflow" (of the stack)
    todelete,   \* listed paths not yet deleted
    deleted     \* history: what is gone

DirectoryVars == <<parent, target, stack, listed, sanitizing, todelete, deleted>>

DirectoryInit ==
    /\ parent = [n \in Nodes |-> Nowhere]
    /\ target = [l \in Links |-> Nowhere]
    /\ stack = <<>> /\ listed = {} /\ todelete = {} /\ deleted = {}
    /\ sanitizing = "no"

Exists(n) == n = Elsewhere \/ (n # Nowhere /\ parent[n] # Nowhere)
Entries(d) == {n \in Nodes : parent[n] = d}

(* stat() follows links. *)
Follow(n) == IF n \in Links THEN target[n] ELSE n
IsDirectory(n) == Exists(Follow(n)) /\ Follow(n) \in Dirs \cup {Runtime, Elsewhere}

(* RealPath: links point to directories and files here, not to links.      *)
RealPath(n) == IF Exists(Follow(n)) THEN Follow(n) ELSE Nowhere

-----------------------------------------------------------------------------
(* Whatever is in runtime/ before the library is started. *)
Create(n, d) ==
    /\ sanitizing = "no" /\ ~Exists(n)
    /\ Exists(d) /\ d \in Dirs \cup {Runtime, Elsewhere} /\ d # n
    /\ n = Runtime => d = Elsewhere
    /\ parent' = [parent EXCEPT ![n] = d]
    /\ \E to \in (Nodes \cup {Nowhere}) \ Links :
         target' = [l \in Links |-> IF l = n THEN to ELSE target[l]]
    /\ n \notin Links => target' = target
    /\ UNCHANGED <<stack, listed, sanitizing, todelete, deleted>>

(* MakeDirectory("runtime/"). *)
MakeDirectory ==
    /\ sanitizing = "no" /\ ~IsDirectory(Runtime)
    /\ parent' = [parent EXCEPT ![Runtime] = Elsewhere]
    /\ sanitizing' = "done"
    /\ UNCHANGED <<target, stack, listed, todelete, deleted>>

SanitizeRuntime ==
    /\ sanitizing = "no" /\ IsDirectory(Runtime)
    /\ stack' = <<{Runtime}>>
    /\ sanitizing' = "list"
    /\ UNCHANGED <<parent, target, listed, todelete, deleted>>

(* Faulty variant: a directory below the first level is not looked into. *)
ListFlat(d) ==
    /\ sanitizing = "list" /\ stack # <<>> /\ d \in Head(stack)
    /\ LET files == {RealPath(n) : n \in Entries(d)}
       IN  IF Nowhere \in files
             THEN sanitizing' = "exception" /\ UNCHANGED <<stack, listed>>
             ELSE /\ listed' = listed \cup files
                  /\ stack' = <<Head(stack) \ {d}>> \o Tail(stack)
                  /\ UNCHANGED sanitizing
    /\ UNCHANGED <<parent, target, todelete, deleted>>

(* DirectoryList(d): getdir lists it, and the directories in it are next.  *)
(* The calls are nested deeper than there are directories only where one   *)
(* is listed below itself, which goes on to the end of the stack.          *)
DirectoryList(d) ==
    /\ sanitizing = "list" /\ stack # <<>> /\ d \in Head(stack)
    /\ LET files == {RealPath(n) : n \in Entries(d)}
       IN  IF Nowhere \in files
             THEN sanitizing' = "exception" /\ UNCHANGED <<stack, listed>>
             ELSE /\ listed' = listed \cup files
                  /\ stack' = <<{n \in files : IsDirectory(n)}, Head(stack) \ {d}>>
                              \o Tail(stack)
                  /\ sanitizing' = IF Len(stack') > Cardinality(Dirs) + 3
                                     THEN "overflow" ELSE "list"
    /\ UNCHANGED <<parent, target, todelete, deleted>>

(* A directory has been looked through, or the whole tree. *)
ListReturns ==
    /\ sanitizing = "list" /\ Head(stack) = {}
    /\ stack' = Tail(stack)
    /\ sanitizing' = IF Tail(stack) = <<>> THEN "delete" ELSE "list"
    /\ todelete' = IF Tail(stack) = <<>> THEN listed ELSE {}
    /\ UNCHANGED <<parent, target, listed, deleted>>

(* Delete: unlink() fails for a directory, and the result is not looked at. *)
Delete(n) ==
    /\ sanitizing = "delete" /\ n \in todelete
    /\ todelete' = todelete \ {n}
    /\ IF n \in PlainFiles
         THEN parent' = [parent EXCEPT ![n] = Nowhere] /\ deleted' = deleted \cup {n}
         ELSE UNCHANGED <<parent, deleted>>
    /\ sanitizing' = IF todelete' = {} THEN "done" ELSE "delete"
    /\ UNCHANGED <<target, stack, listed>>

(* There was nothing in runtime/. *)
DeleteNothing ==
    /\ sanitizing = "delete" /\ todelete = {}
    /\ sanitizing' = "done"
    /\ UNCHANGED <<parent, target, stack, listed, todelete, deleted>>

DirectoryNext ==
    \/ \E n \in Nodes, d \in Nodes : Create(n, d)
    \/ MakeDirectory \/ SanitizeRuntime
    \/ \E d \in Nodes : DirectoryList(d)
    \/ ListReturns
    \/ \E n \in Nodes : Delete(n)
    \/ DeleteNothing

DirectorySpec == DirectoryInit /\ [][DirectoryNext]_DirectoryVars

-----------------------------------------------------------------------------
(* What is found from the nodes in S by looking into directories again and *)
(* again: the least set that has S and what is inside of its members.      *)
Inside(S) == {RealPath(n) : n \in {m \in Nodes : parent[m] \in S \ {Nowhere}}}
Below(S) ==
    {n \in Nodes \cup {Nowhere} :
        \A T \in SUBSET (Nodes \cup {Nowhere}) :
           S \subseteq T /\ Inside(T) \subseteq T => n \in T}
Cyclic == \E d \in Below({Runtime}) : d \in Below(Inside({d}))

(* SanitizeRuntime deletes every file below runtime/ and every file that a *)
(* link below it leads to, wherever that is, and nothing else, unless a    *)
(* link leads back to a directory above it or to nothing: it ends badly    *)
(* exactly then, with nothing deleted.  (ModuleHandler.cpp:296-301,        *)
(* File.cpp:392, :410-412)                                                 *)
SanitizeExact ==
    /\ sanitizing = "delete" /\ deleted = {} =>
          listed = Below(Inside({Runtime})) /\ Nowhere \notin listed /\ ~Cyclic
    /\ sanitizing = "done" => deleted = listed \cap PlainFiles
    /\ sanitizing = "overflow" => Cyclic
    /\ sanitizing = "exception" => Nowhere \in Below({Runtime})
    /\ sanitizing \in {"overflow", "exception"} => deleted = {}

=============================================================================
