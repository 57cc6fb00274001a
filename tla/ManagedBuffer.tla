---------------------------- MODULE ManagedBuffer ----------------------------
(***************************************************************************)
(* The class ManagedBuffer of src/src/Utilities.cpp: handles that share a  *)
(* reference-counted block of memory, which grows as it is written to and  *)
(* whose size the operators += and = change without looking at what is     *)
(* allocated.  Contents are left out; sizes are in units of which Chunk    *)
(* make the 1024 bytes of the code.                                        *)
(***************************************************************************)
EXTENDS Naturals, FiniteSets

CONSTANTS
    Handles,     \* addresses of ManagedBuffer objects
    NoBlock,     \* the handle is not constructed
    Blocks,      \* addresses of internaldata_t
    Chunk,       \* 1024
    MaxSize,     \* bound on sizes
    MaxRefs      \* bound on references

ASSUME BufferAssumption ==
    /\ NoBlock \notin Blocks /\ IsFiniteSet(Handles)
    /\ {Chunk, MaxSize, MaxRefs} \subseteq Nat

VARIABLES
    data,        \* handle -> its block
    allocated,   \* the blocks that are not freed
    refs, size, allocatedsz,    \* block -> member of internaldata_t
    wild,        \* the heap was overwritten
    lost,        \* history: block -> handles assigned something else
    forced       \* history: blocks whose size += or = put past the end

BufferVars == <<data, allocated, refs, size, allocatedsz, wild, lost, forced>>

BufferInit ==
    /\ data = [h \in Handles |-> NoBlock]
    /\ allocated = {} /\ forced = {} /\ wild = FALSE
    /\ refs = [b \in Blocks |-> 0]
    /\ size = [b \in Blocks |-> 0]
    /\ allocatedsz = [b \in Blocks |-> 0]
    /\ lost = [b \in Blocks |-> 0]

Constructed(h) == ~wild /\ data[h] # NoBlock
Larger(m, n) == IF m >= n THEN m ELSE n
Put(f, b, value) == [f EXCEPT ![b] = value]

-----------------------------------------------------------------------------
NewBuffer(h) ==
    /\ ~wild /\ data[h] = NoBlock
    /\ \E b \in Blocks \ allocated :
         /\ data' = Put(data, h, b)
         /\ allocated' = allocated \cup {b}
         /\ refs' = Put(refs, b, 1)
         /\ size' = Put(size, b, 0)
         /\ allocatedsz' = Put(allocatedsz, b, Chunk)
    /\ UNCHANGED <<wild, lost, forced>>

(* Faulty variant: the copy is not counted. *)
CopyUncounted(h, other) ==
    /\ data[h] = NoBlock /\ Constructed(other)
    /\ data' = Put(data, h, data[other])
    /\ UNCHANGED <<allocated, refs, size, allocatedsz, wild, lost, forced>>

CopyBuffer(h, other) ==
    /\ data[h] = NoBlock /\ Constructed(other)
    /\ refs[data[other]] < MaxRefs
    /\ data' = Put(data, h, data[other])
    /\ refs' = Put(refs, data[other], refs[data[other]] + 1)
    /\ UNCHANGED <<allocated, size, allocatedsz, wild, lost, forced>>

(* operator=: counts the new block and does not let go of the old one. *)
AssignBuffer(h, other) ==
    /\ Constructed(h) /\ Constructed(other)
    /\ refs[data[other]] < MaxRefs
    /\ data' = Put(data, h, data[other])
    /\ refs' = Put(refs, data[other], refs[data[other]] + 1)
    /\ lost' = Put(lost, data[h], lost[data[h]] + 1)
    /\ UNCHANGED <<allocated, size, allocatedsz, wild, forced>>

(* The last reference frees the block; what was in it is of no interest.   *)
DestroyBuffer(h) ==
    /\ Constructed(h)
    /\ LET b == data[h]
           freed == {b} \cap {x \in Blocks : refs[x] = 1}
       IN  /\ data' = Put(data, h, NoBlock)
           /\ refs' = Put(refs, b, refs[b] - 1)
           /\ allocated' = allocated \ freed
           /\ forced' = forced \ freed
           /\ size' = [x \in Blocks |-> IF x \in freed THEN 0 ELSE size[x]]
           /\ allocatedsz' = [x \in Blocks |-> IF x \in freed THEN 0 ELSE allocatedsz[x]]
    /\ UNCHANGED <<wild, lost>>

-----------------------------------------------------------------------------
(* The end of what Write writes, and what it makes the block grow to. *)
Grown(b, n) ==
    IF size[b] + n > allocatedsz[b] THEN Larger(size[b] + n, size[b] + Chunk)
    ELSE allocatedsz[b]

WriteBuffer(h, n) ==
    /\ Constructed(h) /\ size[data[h]] + n <= MaxSize
    /\ allocatedsz' = Put(allocatedsz, data[h], Grown(data[h], n))
    /\ size' = Put(size, data[h], size[data[h]] + n)
    /\ forced' = forced \ {data[h]}
    /\ UNCHANGED <<data, allocated, refs, wild, lost>>

(* The area behind size is cleared: newsz - size is unsigned, so a size    *)
(* past the end makes it wrap round.                                       *)
AllocateAhead(h, n) ==
    /\ Constructed(h) /\ allocatedsz[data[h]] + n <= MaxSize
    /\ allocatedsz' = Put(allocatedsz, data[h], allocatedsz[data[h]] + n)
    /\ wild' = (size[data[h]] > allocatedsz[data[h]] + n)
    /\ UNCHANGED <<data, allocated, refs, size, lost, forced>>

(* operator+=(size_t) and operator=(size_t). *)
SetSize(h, n) ==
    /\ Constructed(h)
    /\ size' = Put(size, data[h], n)
    /\ forced' = IF n > allocatedsz[data[h]] THEN forced \cup {data[h]}
                 ELSE forced \ {data[h]}
    /\ UNCHANGED <<data, allocated, refs, allocatedsz, wild, lost>>

BufferNext ==
    \E h \in Handles :
       \/ NewBuffer(h) \/ DestroyBuffer(h)
       \/ \E other \in Handles : CopyBuffer(h, other) \/ AssignBuffer(h, other)
       \/ \E n \in 0 .. MaxSize :
             WriteBuffer(h, n) \/ AllocateAhead(h, n) \/ SetSize(h, n)

BufferSpec == BufferInit /\ [][BufferNext]_BufferVars

-----------------------------------------------------------------------------
(* A block lives as long as a handle that has it, or longer, and for ever, *)
(* if a handle that had it was assigned another one: each of these counts  *)
(* one reference too many (SelfFreeing below fails there).  No write       *)
(* leaves the block but the clearing after += or = put the size past its   *)
(* end.  (Utilities.cpp:65-79, :118)                                       *)
BufferAccounting ==
    /\ \A b \in Blocks :
          /\ b \in allocated <=> refs[b] > 0
          /\ refs[b] = lost[b] + Cardinality({h \in Handles : data[h] = b})
          /\ size[b] > allocatedsz[b] => b \in forced
    /\ wild => forced # {}

(* Utilities.h:88-90, "This memory block is self-expanding and             *)
(* self-freeing": a block that no handle has any more is freed.            *)
SelfFreeing == \A b \in allocated : \E h \in Handles : data[h] = b

=============================================================================
