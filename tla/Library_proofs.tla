--------------------------- MODULE Library_proofs ---------------------------
(***************************************************************************)
(* Proofs about six parts of the library that share no state: DateTime and *)
(* ManagedBuffer of Utilities.cpp, the event macros of ModuleAnnounce.h,   *)
(* CopyFile of File.cpp, SanitizeRuntime of ModuleHandler.cpp, and the     *)
(* sockets of Socket.cpp and SocketMultiplexer.cpp.  Each has an inductive *)
(* invariant of its own.                                                   *)
(***************************************************************************)
EXTENDS DateTime, ManagedBuffer, Events, Files, Directories, Sockets,
        SequenceLemmas

-----------------------------------------------------------------------------
(* DateTime, for any threads, times and fields.  What the lock protects is *)
(* that tm is of one time; that it is of the last time is no matter of the *)
(* lock: a thread that stored a later one has still to come by.            *)
Broken(time) == [f \in Fields |-> time]

TimeTypeOK ==
    /\ TheTime \in Times
    /\ tm \in [Fields -> Times \cup {Cleared}]
    /\ doing \in [Clients -> {"idle", "set", "load", "copy", "read"}]
    /\ local \in [Clients -> Times \cup {Cleared}]
    /\ left \in [Clients -> SUBSET Fields]
    /\ got \in [Clients -> SUBSET (Times \cup {Cleared})]
    /\ overlapped \subseteq Clients

(* One writer is between the lock and the unlock, and copies the time it   *)
(* loaded, or one that is out of date and will be overwritten.             *)
WriterOK ==
    /\ tmux = {} \/ \E t \in Clients : tmux = {t}
    /\ \A t \in Clients : doing[t] \in {"load", "copy"} <=> t \in tmux
    /\ \A t \in Clients : doing[t] = "load" => left[t] = Fields
    /\ \A t \in Clients : doing[t] = "copy" =>
          /\ local[t] \in Times
          /\ local[t] = TheTime \/ \E s \in Clients : doing[s] = "set"
          /\ \A f \in Fields \ left[t] : tm[f] = local[t]
    /\ tmux = {} =>
          /\ \E time \in Times : tm = Broken(time)
          /\ tm = Broken(TheTime) \/ \E s \in Clients : doing[s] = "set"

(* A reader that no writer has overtaken reads while tm stays as it is.    *)
ReaderOK ==
    \A t \in Clients \ overlapped :
        /\ \E time \in Times : got[t] \subseteq {time}
        /\ doing[t] = "read" => tmux = {} /\ \A time \in got[t] : tm = Broken(time)

TimeInv == TimeTypeOK /\ WriterOK /\ ReaderOK

(* No setter and no getter of any thread breaks the invariant. *)
LEMMA TimeStep == TimeInv /\ [DateTimeNext]_DateTimeVars => TimeInv'
<1> SUFFICES ASSUME TimeTypeOK, WriterOK, ReaderOK, [DateTimeNext]_DateTimeVars
             PROVE  TimeInv'
  BY DEF TimeInv
<1> USE DateTimeAssumption
<1>1. ASSUME NEW t \in Clients, NEW time \in Times, SetTime(t, time) PROVE TimeInv'
  <2>1. TimeTypeOK'
    BY <1>1 DEF SetTime, Become, TimeTypeOK
  <2>2. doing'[t] = "set" /\ \A s \in Clients : s # t => doing'[s] = doing[s]
    BY <1>1 DEF SetTime, Become, TimeTypeOK
  <2>3. \A s \in Clients : doing[s] = "copy" => local'[s] = local[s] /\ doing'[s] = "copy"
    BY <1>1 DEF SetTime, Become, TimeTypeOK
  <2>4. WriterOK'
    BY <1>1, <2>2, <2>3 DEF SetTime, WriterOK, Broken
  <2>5. ReaderOK'
    BY <1>1, <2>2 DEF SetTime, ReaderOK, Broken
  <2> QED BY <2>1, <2>4, <2>5 DEF TimeInv
<1>2. ASSUME NEW t \in Clients, LockAndClear(t) PROVE TimeInv'
  <2>1. TimeTypeOK'
    BY <1>2 DEF LockAndClear, Become, TimeTypeOK
  <2>2. doing'[t] = "load" /\ \A s \in Clients : s # t => doing'[s] = doing[s]
    BY <1>2 DEF LockAndClear, Become, TimeTypeOK
  <2>3. \A s \in Clients : doing'[s] # "copy"
    BY <1>2, <2>2 DEF LockAndClear, WriterOK
  <2>4. left'[t] = Fields /\ \A s \in Clients : doing[s] # "load"
    BY <1>2 DEF LockAndClear, TimeTypeOK, WriterOK
  <2>5. WriterOK'
    BY <1>2, <2>2, <2>3, <2>4 DEF LockAndClear, WriterOK
  <2>6. \A s \in Clients \ overlapped' : doing'[s] # "read" /\ s \notin overlapped
    BY <1>2, <2>2 DEF LockAndClear
  <2>7. ReaderOK'
    BY <1>2, <2>6 DEF LockAndClear, ReaderOK
  <2> QED BY <2>1, <2>5, <2>7 DEF TimeInv
<1>3. ASSUME NEW t \in Clients, LoadTime(t) PROVE TimeInv'
  <2>1. TimeTypeOK'
    BY <1>3 DEF LoadTime, Become, TimeTypeOK
  <2>2. /\ doing[t] = "load" /\ doing'[t] = "copy" /\ local'[t] = TheTime
        /\ \A s \in Clients : s # t => doing'[s] = doing[s] /\ local'[s] = local[s]
    BY <1>3 DEF LoadTime, Become, TimeTypeOK
  <2>3. tmux = {t} /\ \A s \in Clients : doing'[s] = "copy" => s = t
    BY <2>2 DEF WriterOK
  <2>4. Fields \ left[t] = {}
    BY <2>2 DEF WriterOK
  <2>5. WriterOK'
    BY <1>3, <2>1, <2>2, <2>3, <2>4 DEF LoadTime, WriterOK, TimeTypeOK
  <2>6. ReaderOK'
    BY <1>3, <2>2 DEF LoadTime, ReaderOK, Broken
  <2> QED BY <2>1, <2>5, <2>6 DEF TimeInv
<1>4. ASSUME NEW t \in Clients, UnlockTM(t) PROVE TimeInv'
  <2>1. TimeTypeOK'
    BY <1>4 DEF UnlockTM, Become, TimeTypeOK
  <2>2. /\ doing[t] = "copy" /\ doing'[t] = "idle" /\ tm' = tm /\ TheTime' = TheTime
        /\ \A s \in Clients : s # t => doing'[s] = doing[s] /\ local'[s] = local[s]
    BY <1>4 DEF UnlockTM, Become, TimeTypeOK
  <2>3. tmux = {t} /\ \A s \in Clients : s # t => doing[s] \notin {"load", "copy"}
    BY <2>2 DEF WriterOK
  <2>4. /\ local[t] \in Times /\ tm = Broken(local[t])
        /\ local[t] = TheTime \/ \E s \in Clients : doing[s] = "set"
    <3>1. left[t] = {}
      BY <1>4 DEF UnlockTM
    <3>2. /\ local[t] \in Times /\ \A f \in Fields : tm[f] = local[t]
          /\ local[t] = TheTime \/ \E s \in Clients : doing[s] = "set"
      BY <2>2, <3>1 DEF WriterOK
    <3> QED BY <3>2 DEF TimeTypeOK, Broken
  <2>5. (\E s \in Clients : doing[s] = "set") => \E c \in Clients : doing'[c] = "set"
    BY <2>2
  <2>6. WriterOK'
    BY <1>4, <2>2, <2>3, <2>4, <2>5 DEF UnlockTM, WriterOK, Broken
  <2>7. ReaderOK'
    BY <1>4, <2>2, <2>3 DEF UnlockTM, ReaderOK, Broken
  <2> QED BY <2>1, <2>6, <2>7 DEF TimeInv
<1>5. ASSUME NEW t \in Clients, GetTM(t) PROVE TimeInv'
  <2>1. TimeTypeOK'
    BY <1>5 DEF GetTM, Become, TimeTypeOK
  <2>2. /\ doing[t] = "idle" /\ doing'[t] = "read" /\ got'[t] = {}
        /\ \A s \in Clients : s # t => doing'[s] = doing[s] /\ got'[s] = got[s]
    BY <1>5 DEF GetTM, Become, TimeTypeOK
  <2>3. \A s \in Clients : doing'[s] = "copy" => doing[s] = "copy" /\ left'[s] = left[s]
    BY <1>5, <2>2 DEF GetTM, TimeTypeOK
  <2>4. WriterOK'
    BY <1>5, <2>2, <2>3 DEF GetTM, WriterOK, Broken
  <2>5. ReaderOK'
    BY <1>5, <2>2 DEF GetTM, ReaderOK, Broken
  <2> QED BY <2>1, <2>4, <2>5 DEF TimeInv
<1>6. ASSUME NEW t \in Clients, NEW f \in Fields, CopyField(t, f) PROVE TimeInv'
  <2>1. TimeTypeOK'
    BY <1>6 DEF CopyField, TimeTypeOK, WriterOK
  <2>2. /\ doing[t] = "copy" /\ doing' = doing /\ local' = local /\ left'[t] = left[t] \ {f}
        /\ tm'[f] = local[t] /\ \A g \in Fields : g # f => tm'[g] = tm[g]
    BY <1>6 DEF CopyField, TimeTypeOK
  <2>3. tmux = {t} /\ \A s \in Clients : doing[s] = "copy" => s = t
    BY <2>2 DEF WriterOK
  <2>4. WriterOK'
    BY <1>6, <2>2, <2>3 DEF CopyField, WriterOK
  <2>5. ReaderOK'
    BY <1>6, <2>2, <2>3 DEF CopyField, ReaderOK
  <2> QED BY <2>1, <2>4, <2>5 DEF TimeInv
<1>7. ASSUME NEW t \in Clients, NEW f \in Fields, ReadField(t, f) PROVE TimeInv'
  <2>1. TimeTypeOK'
    BY <1>7 DEF ReadField, Become, TimeTypeOK
  <2>2. /\ doing[t] = "read" /\ doing'[t] \in {"idle", "read"} /\ got'[t] = got[t] \cup {tm[f]}
        /\ \A s \in Clients : s # t => doing'[s] = doing[s] /\ got'[s] = got[s]
    BY <1>7 DEF ReadField, Become, TimeTypeOK
  <2>3. \A s \in Clients : doing'[s] = "copy" => doing[s] = "copy" /\ left'[s] = left[s]
    BY <1>7, <2>2 DEF ReadField, TimeTypeOK
  <2>4. WriterOK'
    BY <1>7, <2>2, <2>3 DEF ReadField, WriterOK, Broken
  <2>5. ASSUME t \notin overlapped
        PROVE  \E time \in Times : got'[t] \subseteq {time} /\ tm = Broken(time) /\ tmux = {}
    <3>1. tmux = {} /\ \A time \in got[t] : tm = Broken(time)
      BY <2>2, <2>5 DEF ReaderOK
    <3>2. PICK time \in Times : tm = Broken(time)
      BY <3>1 DEF WriterOK
    <3>3. tm[f] = time
      BY <3>2 DEF Broken
    <3>4. \A other \in got[t] : other = time
      <4>1. \A other \in got[t] : Broken(other)[f] = Broken(time)[f]
        BY <3>1, <3>2
      <4> QED BY <4>1 DEF Broken
    <3> QED BY <2>2, <3>1, <3>2, <3>3, <3>4
  <2>6. ReaderOK'
    BY <1>7, <2>2, <2>5 DEF ReadField, ReaderOK, Broken
  <2> QED BY <2>1, <2>4, <2>6 DEF TimeInv
<1>8. CASE UNCHANGED DateTimeVars
  BY <1>8 DEF DateTimeVars, TimeInv, TimeTypeOK, WriterOK, ReaderOK, Broken
<1> QED BY <1>1, <1>2, <1>3, <1>4, <1>5, <1>6, <1>7, <1>8 DEF DateTimeNext

(* tm is the broken-down TheTime whenever no SetTM is under way, and a     *)
(* reader that no writer has overtaken gets the fields of one moment       *)
(* (Utilities.cpp:128-157).                                                *)
THEOREM TimeAlwaysConsistent == DateTimeSpec => []TimeConsistent
<1>1. DateTimeInit => TimeInv
  BY DateTimeAssumption
     DEF DateTimeInit, TimeInv, TimeTypeOK, WriterOK, ReaderOK, Broken
<1>2. TimeInv => TimeConsistent
  <2> SUFFICES ASSUME TimeTypeOK, WriterOK, ReaderOK PROVE TimeConsistent
    BY DEF TimeInv
  <2>1. ASSUME \A t \in Clients : doing[t] \in {"idle", "read"}
        PROVE  tm = [f \in Fields |-> TheTime]
    <3>1. tmux = {} /\ \A t \in Clients : doing[t] # "set"
      BY <2>1 DEF WriterOK
    <3> QED BY <3>1 DEF WriterOK, Broken
  <2>2. ASSUME NEW t \in Clients, t \notin overlapped
        PROVE  Cardinality(got[t]) <= 1 /\ Cleared \notin got[t]
    <3>1. PICK time \in Times : got[t] \subseteq {time}
      BY <2>2 DEF ReaderOK
    <3>2. IsFiniteSet({time}) /\ Cardinality({time}) = 1
      BY FS_Singleton
    <3>3. Cardinality(got[t]) <= 1
      BY <3>1, <3>2, FS_Subset
    <3> QED BY <3>1, <3>3, DateTimeAssumption
  <2> QED BY <2>1, <2>2 DEF TimeConsistent
<1> QED BY <1>1, <1>2, TimeStep, PTL DEF DateTimeSpec

-----------------------------------------------------------------------------
(* ManagedBuffer, for any handles, blocks and sizes: the references of a   *)
(* block are its handles and those that were assigned something else.      *)
Holders(b) == {h \in Handles : data[h] = b}

BufferTypeOK ==
    /\ data \in [Handles -> Blocks \cup {NoBlock}]
    /\ allocated \subseteq Blocks /\ forced \subseteq Blocks
    /\ refs \in [Blocks -> Nat] /\ lost \in [Blocks -> Nat]
    /\ size \in [Blocks -> Nat] /\ allocatedsz \in [Blocks -> Nat]
    /\ wild \in BOOLEAN

BufferInv == BufferTypeOK /\ BufferAccounting

(* A handle that takes another block leaves the one that it had. *)
LEMMA HoldersMove ==
    ASSUME BufferTypeOK, NEW h \in Handles, NEW c, data' = Put(data, h, c)
    PROVE  \A b \in Blocks :
              /\ Cardinality(Holders(b)) \in Nat
              /\ data[h] = b => Cardinality(Holders(b)) >= 1
              /\ Cardinality(Holders(b)') =
                    IF data[h] = b THEN IF c = b THEN Cardinality(Holders(b))
                                        ELSE Cardinality(Holders(b)) - 1
                    ELSE IF c = b THEN Cardinality(Holders(b)) + 1
                    ELSE Cardinality(Holders(b))
<1> SUFFICES ASSUME NEW b \in Blocks
             PROVE  /\ Cardinality(Holders(b)) \in Nat
                    /\ data[h] = b => Cardinality(Holders(b)) >= 1
                    /\ Cardinality(Holders(b)') =
                          IF data[h] = b THEN IF c = b THEN Cardinality(Holders(b))
                                              ELSE Cardinality(Holders(b)) - 1
                          ELSE IF c = b THEN Cardinality(Holders(b)) + 1
                          ELSE Cardinality(Holders(b))
  OBVIOUS
<1> DEFINE A == Holders(b)
<1>1. IsFiniteSet(A) /\ Cardinality(A) \in Nat
  BY BufferAssumption, FS_Subset, FS_CardinalityType DEF Holders
<1>2. data'[h] = c /\ \A g \in Handles : g # h => data'[g] = data[g]
  BY DEF BufferTypeOK, Put
<1>3. Holders(b)' = IF c = b THEN A \cup {h} ELSE A \ {h}
  BY <1>2 DEF Holders
<1>4. h \in A <=> data[h] = b
  BY DEF Holders
<1>5. /\ Cardinality(A \cup {h}) = IF h \in A THEN Cardinality(A) ELSE Cardinality(A) + 1
      /\ Cardinality(A \ {h}) = IF h \in A THEN Cardinality(A) - 1 ELSE Cardinality(A)
  BY <1>1, FS_AddElement, FS_RemoveElement
<1>6. h \in A => Cardinality(A) >= 1
  <2> SUFFICES ASSUME h \in A PROVE Cardinality(A) # 0
    BY <1>1
  <2> QED BY <1>1, FS_EmptySet
<1> HIDE DEF A
<1>7. CASE data[h] = b
  BY <1>1, <1>3, <1>4, <1>5, <1>6, <1>7 DEF A
<1>8. CASE data[h] # b
  BY <1>1, <1>3, <1>4, <1>5, <1>6, <1>8 DEF A
<1> QED BY <1>7, <1>8

(* The invariant of the blocks. *)
LEMMA BufferStep == BufferInv /\ [BufferNext]_BufferVars => BufferInv'
<1> SUFFICES ASSUME BufferTypeOK, BufferAccounting, [BufferNext]_BufferVars
             PROVE  BufferInv'
  BY DEF BufferInv
<1>a. /\ \A b \in Blocks : /\ b \in allocated <=> refs[b] > 0
                           /\ refs[b] = lost[b] + Cardinality(Holders(b))
                           /\ size[b] > allocatedsz[b] => b \in forced
      /\ wild => forced # {}
  BY DEF BufferAccounting, Holders
<1>s. ASSUME BufferTypeOK',
             \A b \in Blocks : /\ b \in allocated' <=> refs'[b] > 0
                               /\ refs'[b] = lost'[b] + Cardinality(Holders(b)')
                               /\ size'[b] > allocatedsz'[b] => b \in forced',
             wild' => forced' # {}
      PROVE  BufferInv'
  BY <1>s DEF BufferInv, BufferAccounting, Holders
<1>n. Chunk \in Nat /\ MaxSize \in Nat /\ MaxRefs \in Nat /\ NoBlock \notin Blocks
  BY BufferAssumption
<1>h. \A h : Constructed(h) => wild = FALSE /\ (h \in Handles => data[h] \in Blocks)
  BY DEF Constructed, BufferTypeOK
<1>1. ASSUME NEW h \in Handles, NewBuffer(h) PROVE BufferInv'
  <2>1. PICK b \in Blocks \ allocated :
            /\ data' = Put(data, h, b) /\ allocated' = allocated \cup {b}
            /\ refs' = Put(refs, b, 1) /\ size' = Put(size, b, 0)
            /\ allocatedsz' = Put(allocatedsz, b, Chunk)
    BY <1>1 DEF NewBuffer
  <2>2. /\ ~wild /\ data[h] = NoBlock /\ UNCHANGED <<wild, lost, forced>>
    BY <1>1 DEF NewBuffer
  <2>3. BufferTypeOK'
    BY <1>n, <2>1, <2>2 DEF BufferTypeOK, Put
  <2>4. refs[b] = 0 /\ lost[b] = 0 /\ Cardinality(Holders(b)) = 0
    BY <1>a, <2>1, HoldersMove DEF BufferTypeOK
  <2>5. \A c \in Blocks : Cardinality(Holders(c)') =
            IF c = b THEN Cardinality(Holders(c)) + 1 ELSE Cardinality(Holders(c))
    BY <1>n, <2>1, <2>2, HoldersMove
  <2>6. /\ refs'[b] = 1 /\ size'[b] = 0 /\ allocatedsz'[b] = Chunk
        /\ \A c \in Blocks : c # b =>
              refs'[c] = refs[c] /\ size'[c] = size[c] /\ allocatedsz'[c] = allocatedsz[c]
    BY <2>1 DEF BufferTypeOK, Put
  <2> QED BY <1>a, <1>n, <1>s, <2>1, <2>2, <2>3, <2>4, <2>5, <2>6
<1>2. ASSUME NEW h \in Handles, NEW other \in Handles, CopyBuffer(h, other)
      PROVE  BufferInv'
  <2> DEFINE b == data[other]
  <2>1. /\ b \in Blocks /\ ~wild /\ data[h] = NoBlock
        /\ data' = Put(data, h, b) /\ refs' = Put(refs, b, refs[b] + 1)
        /\ UNCHANGED <<allocated, size, allocatedsz, wild, lost, forced>>
    BY <1>2, <1>h DEF CopyBuffer
  <2>2. Cardinality(Holders(b)) >= 1 /\ Cardinality(Holders(b)) \in Nat
    <3>1. Holders(b) # {} /\ IsFiniteSet(Holders(b))
      BY BufferAssumption, FS_Subset DEF Holders
    <3> QED BY <3>1, FS_EmptySet, FS_CardinalityType
  <2> HIDE DEF b
  <2>3. BufferTypeOK'
    BY <2>1 DEF BufferTypeOK, Put
  <2>4. \A c \in Blocks : Cardinality(Holders(c)') =
            IF c = b THEN Cardinality(Holders(c)) + 1 ELSE Cardinality(Holders(c))
    BY <1>n, <2>1, HoldersMove
  <2>5. refs'[b] = refs[b] + 1 /\ \A c \in Blocks : c # b => refs'[c] = refs[c]
    BY <2>1 DEF BufferTypeOK, Put
  <2>6. \A c \in Blocks : refs[c] \in Nat /\ lost[c] \in Nat /\ Cardinality(Holders(c)) \in Nat
    BY <2>1, HoldersMove DEF BufferTypeOK
  <2> QED BY <1>a, <1>s, <2>1, <2>2, <2>3, <2>4, <2>5, <2>6
<1>3. ASSUME NEW h \in Handles, NEW other \in Handles, AssignBuffer(h, other)
      PROVE  BufferInv'
  <2> DEFINE b == data[other]
             a == data[h]
  <2>1. /\ a \in Blocks /\ b \in Blocks /\ ~wild
        /\ data' = Put(data, h, b) /\ refs' = Put(refs, b, refs[b] + 1)
        /\ lost' = Put(lost, a, lost[a] + 1)
        /\ UNCHANGED <<allocated, size, allocatedsz, wild, forced>>
    BY <1>3, <1>h DEF AssignBuffer
  <2>2. Cardinality(Holders(b)) >= 1
    <3>1. Holders(b) # {} /\ IsFiniteSet(Holders(b))
      BY BufferAssumption, FS_Subset DEF Holders
    <3> QED BY <3>1, FS_EmptySet, FS_CardinalityType
  <2>3. \A c \in Blocks : Cardinality(Holders(c)') =
            IF a = c THEN IF b = c THEN Cardinality(Holders(c))
                          ELSE Cardinality(Holders(c)) - 1
            ELSE IF b = c THEN Cardinality(Holders(c)) + 1
            ELSE Cardinality(Holders(c))
    BY <2>1, HoldersMove
  <2>4. \A c \in Blocks : refs[c] \in Nat /\ lost[c] \in Nat /\ Cardinality(Holders(c)) \in Nat
    BY <2>1, HoldersMove DEF BufferTypeOK
  <2> HIDE DEF b, a
  <2>5. BufferTypeOK'
    <3>1. data' \in [Handles -> Blocks \cup {NoBlock}]
      BY <2>1 DEF BufferTypeOK, Put
    <3> QED BY <2>1, <3>1 DEF BufferTypeOK, Put
  <2>6. /\ refs'[b] = refs[b] + 1 /\ \A c \in Blocks : c # b => refs'[c] = refs[c]
        /\ lost'[a] = lost[a] + 1 /\ \A c \in Blocks : c # a => lost'[c] = lost[c]
    BY <2>1 DEF BufferTypeOK, Put
  <2>7. \A c \in Blocks : refs'[c] = lost'[c] + Cardinality(Holders(c)')
    BY <1>a, <2>1, <2>3, <2>4, <2>6
  <2>8. \A c \in Blocks : c \in allocated' <=> refs'[c] > 0
    BY <1>a, <2>1, <2>2, <2>4, <2>6
  <2> QED BY <1>a, <1>s, <2>1, <2>5, <2>7, <2>8
<1>4. ASSUME NEW h \in Handles, DestroyBuffer(h) PROVE BufferInv'
  <2> DEFINE b == data[h]
             freed == {b} \cap {x \in Blocks : refs[x] = 1}
  <2>1. /\ b \in Blocks /\ ~wild /\ UNCHANGED <<wild, lost>>
        /\ data' = Put(data, h, NoBlock) /\ refs' = Put(refs, b, refs[b] - 1)
        /\ allocated' = allocated \ freed /\ forced' = forced \ freed
        /\ size' = [x \in Blocks |-> IF x \in freed THEN 0 ELSE size[x]]
        /\ allocatedsz' = [x \in Blocks |-> IF x \in freed THEN 0 ELSE allocatedsz[x]]
    BY <1>4, <1>h DEF DestroyBuffer
  <2>2. /\ Cardinality(Holders(b)) >= 1
        /\ \A c \in Blocks : Cardinality(Holders(c)) \in Nat /\ Cardinality(Holders(c)') =
              IF c = b THEN Cardinality(Holders(c)) - 1 ELSE Cardinality(Holders(c))
    BY <1>n, <2>1, HoldersMove
  <2>3. freed \subseteq {b} /\ (b \in freed <=> refs[b] = 1)
    BY <2>1
  <2> HIDE DEF b, freed
  <2>4. refs[b] >= 1 /\ \A c \in Blocks : refs[c] \in Nat /\ lost[c] \in Nat
    BY <1>a, <2>1, <2>2 DEF BufferTypeOK
  <2>5. /\ refs'[b] = refs[b] - 1 /\ \A c \in Blocks : c # b => refs'[c] = refs[c]
    BY <2>1 DEF BufferTypeOK, Put
  <2>6. BufferTypeOK'
    <3>1. data' \in [Handles -> Blocks \cup {NoBlock}] /\ refs' \in [Blocks -> Nat]
      BY <2>1, <2>4 DEF BufferTypeOK, Put
    <3> QED BY <2>1, <3>1 DEF BufferTypeOK
  <2>7. \A c \in Blocks : /\ c \in allocated' <=> refs'[c] > 0
                          /\ refs'[c] = lost'[c] + Cardinality(Holders(c)')
    <3> SUFFICES ASSUME NEW c \in Blocks
                 PROVE  /\ c \in allocated' <=> refs'[c] > 0
                        /\ refs'[c] = lost'[c] + Cardinality(Holders(c)')
      OBVIOUS
    <3>1. CASE c = b
      BY <1>a, <2>1, <2>2, <2>3, <2>4, <2>5, <3>1
    <3>2. CASE c # b
      BY <1>a, <2>1, <2>2, <2>3, <2>4, <2>5, <3>2
    <3> QED BY <3>1, <3>2
  <2>8. \A c \in Blocks : size'[c] > allocatedsz'[c] => c \in forced'
    BY <1>a, <2>1
  <2> QED BY <1>s, <2>1, <2>6, <2>7, <2>8
<1>5. ASSUME NEW h \in Handles, NEW n \in 0 .. MaxSize,
             WriteBuffer(h, n) \/ AllocateAhead(h, n) \/ SetSize(h, n)
      PROVE  BufferInv'
  <2> DEFINE b == data[h]
  <2>1. /\ b \in Blocks /\ ~wild /\ n \in Nat
        /\ UNCHANGED <<data, allocated, refs, lost>>
    BY <1>5, <1>h, <1>n DEF WriteBuffer, AllocateAhead, SetSize
  <2>2. \A c \in Blocks : /\ size[c] \in Nat /\ allocatedsz[c] \in Nat
                          /\ Holders(c)' = Holders(c)
    BY <2>1 DEF BufferTypeOK, Holders
  <2>3. CASE WriteBuffer(h, n)
    <3>1. /\ allocatedsz' = Put(allocatedsz, b, Grown(b, n))
          /\ size' = Put(size, b, size[b] + n)
          /\ forced' = forced \ {b} /\ wild' = wild
      BY <2>3 DEF WriteBuffer
    <3> HIDE DEF b
    <3>2. Grown(b, n) \in Nat /\ size[b] + n <= Grown(b, n)
      BY <1>n, <2>1, <2>2 DEF Grown, Larger
    <3>3. BufferTypeOK'
      BY <2>1, <2>2, <3>1, <3>2 DEF BufferTypeOK, Put
    <3>4. \A c \in Blocks : size'[c] > allocatedsz'[c] => c \in forced'
      BY <1>a, <2>1, <2>2, <3>1, <3>2 DEF BufferTypeOK, Put
    <3> QED BY <1>a, <1>s, <2>1, <2>2, <3>1, <3>3, <3>4
  <2>4. CASE AllocateAhead(h, n)
    <3>1. /\ allocatedsz' = Put(allocatedsz, b, allocatedsz[b] + n)
          /\ wild' = (size[b] > allocatedsz[b] + n)
          /\ UNCHANGED <<size, forced>>
      BY <2>4 DEF AllocateAhead
    <3> HIDE DEF b
    <3>2. wild' \in BOOLEAN /\ (wild' => size[b] > allocatedsz[b] + n)
      <4>1. (size[b] > allocatedsz[b] + n) \in BOOLEAN
        OBVIOUS
      <4> QED BY Zenon, <3>1, <4>1
    <3>3. /\ UNCHANGED <<size, forced>>
          /\ allocatedsz' = Put(allocatedsz, b, allocatedsz[b] + n)
      BY <3>1
    <3>4. BufferTypeOK'
      BY <2>1, <2>2, <3>2, <3>3 DEF BufferTypeOK, Put
    <3>5. \A c \in Blocks : size'[c] > allocatedsz'[c] => c \in forced'
      BY <1>a, <2>1, <2>2, <3>3 DEF BufferTypeOK, Put
    <3>6. wild' => b \in forced'
      BY <1>a, <2>1, <2>2, <3>2, <3>3
    <3>7. wild' => forced' # {}
      BY <3>6
    <3> QED BY <1>a, <1>s, <2>1, <2>2, <3>4, <3>5, <3>7
  <2>5. CASE SetSize(h, n)
    <3>1. /\ size' = Put(size, b, n) /\ UNCHANGED <<allocatedsz, wild>>
          /\ forced' = IF n > allocatedsz[b] THEN forced \cup {b} ELSE forced \ {b}
      BY <2>5 DEF SetSize
    <3> HIDE DEF b
    <3>2. BufferTypeOK'
      BY <2>1, <2>2, <3>1 DEF BufferTypeOK, Put
    <3>3. \A c \in Blocks : size'[c] > allocatedsz'[c] => c \in forced'
      BY <1>a, <2>1, <2>2, <3>1 DEF BufferTypeOK, Put
    <3> QED BY <1>a, <1>s, <2>1, <2>2, <3>1, <3>2, <3>3
  <2> QED BY <1>5, <2>3, <2>4, <2>5
<1>6. CASE UNCHANGED BufferVars
  BY <1>6 DEF BufferVars, BufferInv, BufferTypeOK, BufferAccounting
<1> QED BY <1>1, <1>2, <1>3, <1>4, <1>5, <1>6 DEF BufferNext

(* A block lives as long as a handle has it, and for ever if a handle that *)
(* had it was assigned another; and no write leaves its block, but the     *)
(* clearing after += or = put the size past its end                        *)
(* (Utilities.cpp:65-79, :93-125).                                         *)
THEOREM BuffersAccounted == BufferSpec => []BufferAccounting
<1>1. BufferInit => BufferInv
  <2> SUFFICES ASSUME BufferInit PROVE BufferInv
    OBVIOUS
  <2>1. BufferTypeOK
    BY DEF BufferInit, BufferTypeOK
  <2>2. \A b \in Blocks : Cardinality(Holders(b)) = 0
    <3>1. \A b \in Blocks : Holders(b) = {}
      BY BufferAssumption DEF BufferInit, Holders
    <3> QED BY <3>1, FS_EmptySet
  <2>3. BufferAccounting
    BY <2>2 DEF BufferInit, BufferAccounting, Holders
  <2> QED BY <2>1, <2>3 DEF BufferInv
<1>2. BufferInv => BufferAccounting
  BY DEF BufferInv
<1> QED BY <1>1, <1>2, BufferStep, PTL DEF BufferSpec

-----------------------------------------------------------------------------
(* The event macros, for any threads and modules.  While nothing that was  *)
(* called has left the vector, what was called is where the walk has been. *)
Walked(n) ==
    /\ Len(called) = n /\ n <= Len(EventHandlers)
    /\ \A k \in 1 .. n : called[k] = EventHandlers[k]

EventTypeOK ==
    /\ eventmux \in Threads \cup {NoThread}
    /\ EventHandlers \in Seq(EventModules) /\ called \in Seq(EventModules)
    /\ walk \in {"no", "loop", "call", "end", "stuck", "undefined"}
    /\ _i \in Nat \ {0} /\ v \in {"CONTINUE", "STOP"}
    /\ moved \in BOOLEAN /\ spoiled \in BOOLEAN /\ shifted \in BOOLEAN

WalkOK ==
    /\ eventmux = NoThread => walk = "no" /\ called = <<>> /\ ~shifted /\ ~moved
    /\ walk \in {"loop", "call"} => v = "CONTINUE"
    /\ walk = "loop" /\ ~shifted => Walked(_i - 1)
    /\ walk = "call" /\ ~shifted => Walked(_i)
    /\ walk = "end" /\ ~shifted =>
          \E n \in Nat : /\ Walked(n)
                         /\ IF v = "STOP" THEN n >= 1 ELSE n = Len(EventHandlers)

EventInv == EventTypeOK /\ WalkOK

(* No handler, whatever it throws or does to the vector, breaks it. *)
LEMMA EventStep == EventInv /\ [EventNext]_EventVars => EventInv'
<1> SUFFICES ASSUME EventTypeOK, WalkOK, [EventNext]_EventVars PROVE EventInv'
  BY DEF EventInv
<1>t. /\ eventmux \in Threads \cup {NoThread} /\ NoThread \notin Threads
      /\ EventHandlers \in Seq(EventModules) /\ called \in Seq(EventModules)
      /\ Len(EventHandlers) \in Nat /\ Len(called) \in Nat
      /\ _i \in Nat \ {0} /\ v \in {"CONTINUE", "STOP"}
      /\ moved \in BOOLEAN /\ spoiled \in BOOLEAN /\ shifted \in BOOLEAN
  BY EventsAssumption DEF EventTypeOK
<1>m. walk # "no" => eventmux # NoThread
  BY DEF WalkOK
<1>1. ASSUME NEW t \in Threads, NEW macro, Announce(t, macro) PROVE EventInv'
  BY <1>1 DEF Announce, EventInv, EventTypeOK, WalkOK, Walked
<1>2. ASSUME NEW t \in Threads, LockAndBegin(t) PROVE EventInv'
  <2>1. /\ called' = called /\ called = <<>> /\ ~shifted /\ shifted' = shifted /\ _i' = 1
        /\ EventHandlers' = EventHandlers /\ eventmux' = t /\ t # NoThread /\ walk' = "loop"
        /\ v' = "CONTINUE"
    BY <1>t, <1>2 DEF LockAndBegin, WalkOK
  <2>2. Walked(_i - 1)'
    BY <1>t, <2>1 DEF Walked
  <2> QED BY <1>t, <1>2, <2>1, <2>2 DEF LockAndBegin, EventInv, EventTypeOK, WalkOK
<1>3. CASE LockAgain
  BY <1>m, <1>3 DEF LockAgain, EventInv, EventTypeOK, WalkOK
<1>4. CASE CallHandler
  <2>1. EventHandlers[_i] \in EventModules /\ called' = Append(called, EventHandlers[_i])
    BY <1>t, <1>4 DEF CallHandler
  <2>2. /\ called' \in Seq(EventModules) /\ Len(called') = Len(called) + 1
        /\ called'[Len(called) + 1] = EventHandlers[_i]
        /\ \A k \in 1 .. Len(called) : called'[k] = called[k]
    BY <1>t, <2>1
  <2>3. ~shifted => Walked(_i)'
    BY <1>t, <1>4, <2>2 DEF CallHandler, WalkOK, Walked
  <2> QED BY <1>m, <1>4, <2>2, <2>3 DEF CallHandler, EventInv, EventTypeOK, WalkOK
<1>5. ASSUME walk = "call", Advance PROVE EventInv'
  <2>1. /\ _i' = _i + 1 /\ moved' = FALSE
        /\ walk' = IF moved \/ _i > Len(EventHandlers) THEN "undefined" ELSE "loop"
        /\ UNCHANGED <<eventmux, EventHandlers, v, called, shifted>>
    BY <1>5 DEF Advance
  <2>2. spoiled' \in BOOLEAN
    <3>1. spoiled' = (walk' = "undefined")
      BY <1>5 DEF Advance
    <3>2. (walk' = "undefined") \in BOOLEAN
      OBVIOUS
    <3> QED BY Zenon, <3>1, <3>2
  <2>3. ~shifted => Walked(_i)
    BY <1>5 DEF WalkOK
  <2>4. _i' - 1 = _i
    BY <1>t, <2>1
  <2>5. ~shifted' => Walked(_i - 1)'
    BY <2>1, <2>3, <2>4 DEF Walked
  <2>6. EventTypeOK'
    <3>1. _i' \in Nat \ {0}
      BY <1>t, <2>1
    <3>2. walk' \in {"no", "loop", "call", "end", "stuck", "undefined"} /\ moved' \in BOOLEAN
      BY <2>1
    <3>3. /\ eventmux' \in Threads \cup {NoThread} /\ EventHandlers' \in Seq(EventModules)
          /\ called' \in Seq(EventModules) /\ v' \in {"CONTINUE", "STOP"}
          /\ shifted' \in BOOLEAN
      BY Zenon, <1>t, <2>1
    <3> QED BY Zenon, <2>2, <3>1, <3>2, <3>3 DEF EventTypeOK
  <2>7. v = "CONTINUE" /\ eventmux # NoThread
    BY <1>m, <1>5 DEF WalkOK
  <2> QED BY <2>1, <2>5, <2>6, <2>7 DEF EventInv, WalkOK
<1>6. CASE HandlerStops
  <2>1. ~shifted => Walked(_i) /\ _i \in Nat /\ _i >= 1
    BY <1>t, <1>6 DEF HandlerStops, WalkOK
  <2> QED BY <1>m, <1>6, <2>1 DEF HandlerStops, EventInv, EventTypeOK, WalkOK, Walked
<1>7. CASE HandlerEscapes
  BY <1>m, <1>7 DEF HandlerEscapes, EventInv, EventTypeOK, WalkOK
<1>8. CASE LoopEnds
  <2>1. ~shifted => Walked(Len(EventHandlers)) /\ Len(EventHandlers) \in Nat
    <3>1. ~shifted => Walked(_i - 1) /\ _i > Len(EventHandlers)
      BY <1>8 DEF LoopEnds, WalkOK
    <3>2. ~shifted => _i - 1 = Len(EventHandlers)
      BY <1>t, <3>1 DEF Walked
    <3> QED BY <1>t, <3>1, <3>2
  <2>2. v = "CONTINUE"
    BY <1>8 DEF LoopEnds, WalkOK
  <2> QED BY <1>m, <1>8, <2>1, <2>2 DEF LoopEnds, EventInv, EventTypeOK, WalkOK, Walked
<1>9. CASE Unlock
  <2>1. /\ walk' = "no" /\ eventmux' = NoThread /\ _i' = 1 /\ v' = "CONTINUE"
        /\ moved' = FALSE /\ called' = <<>> /\ shifted' = FALSE
        /\ UNCHANGED <<EventHandlers, spoiled>>
    BY <1>9 DEF Unlock
  <2>2. EventTypeOK'
    <3>1. <<>> \in Seq(EventModules)
      OBVIOUS
    <3>2. /\ eventmux' \in Threads \cup {NoThread}
          /\ walk' \in {"no", "loop", "call", "end", "stuck", "undefined"}
          /\ _i' \in Nat \ {0} /\ v' \in {"CONTINUE", "STOP"}
      BY <2>1
    <3>3. moved' \in BOOLEAN /\ shifted' \in BOOLEAN /\ spoiled' \in BOOLEAN
      BY Zenon, <1>t, <2>1
    <3>4. EventHandlers' \in Seq(EventModules) /\ called' \in Seq(EventModules)
      BY Zenon, <1>t, <2>1, <3>1
    <3> QED BY Zenon, <3>2, <3>3, <3>4 DEF EventTypeOK
  <2>3. WalkOK'
    BY <2>1 DEF WalkOK
  <2> QED BY <2>2, <2>3 DEF EventInv
<1>10. ASSUME NEW m \in EventModules, Attach(m) PROVE EventInv'
  <2>1. /\ EventHandlers' \in Seq(EventModules) /\ Len(EventHandlers') = Len(EventHandlers) + 1
        /\ \A k \in 1 .. Len(EventHandlers) : EventHandlers'[k] = EventHandlers[k]
    BY <1>t, <1>10 DEF Attach
  <2>2. /\ moved' \in BOOLEAN /\ walk \in {"no", "call"} /\ walk' = walk
        /\ walk = "no" => moved' = moved
        /\ UNCHANGED <<eventmux, _i, v, spoiled, called, shifted>>
    BY <1>t, <1>10 DEF Attach
  <2>3. walk = "call" /\ ~shifted => Walked(_i)'
    BY <1>t, <2>1, <2>2 DEF WalkOK, Walked
  <2> QED BY <2>1, <2>2, <2>3 DEF EventInv, EventTypeOK, WalkOK
<1>11. ASSUME NEW j \in 1 .. Len(EventHandlers), Detach(j) PROVE EventInv'
  <2>1. /\ EventHandlers' \in Seq(EventModules) /\ Len(EventHandlers') = Len(EventHandlers) - 1
        /\ \A k \in 1 .. Len(EventHandlers) - 1 :
              EventHandlers'[k] = IF k < j THEN EventHandlers[k] ELSE EventHandlers[k + 1]
    BY <1>t, <1>11, RemovedAt DEF Detach
  <2>2. /\ walk \in {"no", "call"}
        /\ UNCHANGED <<eventmux, walk, _i, v, moved, spoiled, called>>
    BY <1>11 DEF Detach
  <2>3. /\ shifted' \in BOOLEAN /\ (shifted => shifted') /\ (walk = "no" => shifted' = shifted)
        /\ walk = "call" /\ ~shifted' => ~(j <= _i)
    <3>1. shifted' = (shifted \/ (walk = "call" /\ j <= _i))
      BY <1>11 DEF Detach
    <3>2. (j <= _i) \in BOOLEAN /\ (walk = "call") \in BOOLEAN
      OBVIOUS
    <3> QED BY Zenon, <1>t, <2>2, <3>1, <3>2
  <2>4. walk = "call" /\ ~shifted' => Walked(_i)'
    <3> SUFFICES ASSUME walk = "call", ~shifted' PROVE Walked(_i)'
      OBVIOUS
    <3>1. j > _i /\ Walked(_i)
      BY <1>t, <2>3 DEF WalkOK
    <3> QED BY <1>t, <2>1, <2>2, <3>1 DEF Walked
  <2> QED BY <2>1, <2>2, <2>3, <2>4 DEF EventInv, EventTypeOK, WalkOK
<1>12. CASE UNCHANGED EventVars
  BY <1>12 DEF EventVars, EventInv, EventTypeOK, WalkOK, Walked
<1> QED
  BY <1>1, <1>2, <1>3, <1>4, <1>5, <1>6, <1>7, <1>8, <1>9, <1>10, <1>11, <1>12
     DEF EventNext, HandlerReturns, HandlerThrows, HandlerFaults

(* An event reaches every module of the vector once and in order, or up to *)
(* the one whose result stopped it, whatever handlers throw and whichever  *)
(* modules they add or remove behind the iterator                          *)
(* (ModuleAnnounce.h:46-66, :88-92).                                       *)
THEOREM WalksComplete == EventSpec => []WalkComplete
<1>1. EventInit => EventInv
  <2> SUFFICES ASSUME EventInit PROVE EventTypeOK /\ WalkOK
    BY DEF EventInv
  <2>1. <<>> \in Seq(EventModules)
    OBVIOUS
  <2>2. EventTypeOK
    <3>1. moved \in BOOLEAN /\ spoiled \in BOOLEAN /\ shifted \in BOOLEAN
      BY Zenon DEF EventInit
    <3>2. /\ eventmux \in Threads \cup {NoThread}
          /\ walk \in {"no", "loop", "call", "end", "stuck", "undefined"}
          /\ _i \in Nat \ {0} /\ v \in {"CONTINUE", "STOP"}
      BY DEF EventInit
    <3>3. EventHandlers \in Seq(EventModules) /\ called \in Seq(EventModules)
      BY Zenon, <2>1 DEF EventInit
    <3> QED BY Zenon, <3>1, <3>2, <3>3 DEF EventTypeOK
  <2>3. WalkOK
    BY DEF EventInit, WalkOK
  <2> QED BY <2>2, <2>3
<1>2. EventInv => WalkComplete
  <2> SUFFICES ASSUME EventTypeOK, WalkOK, walk = "end", ~shifted
               PROVE  \/ v = "CONTINUE" /\ called = EventHandlers
                      \/ v = "STOP" /\ called # <<>> /\ IsPrefix(called, EventHandlers)
    BY DEF EventInv, WalkComplete
  <2>1. PICK n \in Nat : /\ Walked(n)
                         /\ IF v = "STOP" THEN n >= 1 ELSE n = Len(EventHandlers)
    BY DEF WalkOK
  <2>2. /\ EventHandlers \in Seq(EventModules) /\ called \in Seq(EventModules)
        /\ v \in {"CONTINUE", "STOP"}
    BY DEF EventTypeOK
  <2>3. /\ Len(called) = n /\ n <= Len(EventHandlers)
        /\ \A k \in 1 .. n : called[k] = EventHandlers[k]
    BY <2>1 DEF Walked
  <2>4. CASE v = "STOP"
    <3>1. called # <<>>
      BY <2>1, <2>2, <2>3, <2>4
    <3>2. SubSeq(called, 1, n) = SubSeq(EventHandlers, 1, n)
      BY <2>2, <2>3
    <3> QED BY <2>3, <2>4, <3>1, <3>2 DEF IsPrefix
  <2>5. CASE v = "CONTINUE"
    BY <2>1, <2>2, <2>3, <2>5
  <2> QED BY <2>2, <2>4, <2>5
<1> QED BY <1>1, <1>2, EventStep, PTL DEF EventSpec

-----------------------------------------------------------------------------
(* CopyFile, for any files, modes, offsets and size of a block.  What is   *)
(* still to be read of the source is all that is missing from the copy.    *)
Rest(f) == BytesAt(disk[path[f]], offset[f], Len(disk[path[f]]))

FileTypeOK ==
    /\ disk \in [Paths -> Seq(Bytes) \cup {Missing}]
    /\ path \in [Objects -> Paths \cup {Missing}]
    /\ offset \in [Objects -> Nat]
    /\ \A f \in Objects : path[f] # Missing => disk[path[f]] \in Seq(Bytes)
    /\ copying \in {"no", "read", "write", "returned", "refused"}
    /\ copying \notin {"no", "refused"} =>
          /\ {dest, src} \subseteq Objects
          /\ path[dest] # Missing /\ path[src] # Missing
    /\ copying = "write" => buf \in Seq(Bytes)

CopyOK ==
    ~faulted /\ copying # "no" /\ path[dest] # path[src] =>
       LET D == disk[path[dest]]
       IN  /\ copying = "read" => Overwrite(D, WriteOffset(dest), Rest(src)) = wanted
           /\ copying = "write" => Overwrite(D, WriteOffset(dest), buf \o Rest(src)) = wanted
           /\ copying = "write" /\ Len(buf) # Block => Rest(src) = <<>>
           /\ copying = "returned" => D = wanted

FileInv == FileTypeOK /\ CopyOK

(* How long a file is after a write. *)
NewLen(bytes, at, new) ==
    IF at + Len(new) > Len(bytes) /\ new # <<>> THEN at + Len(new) ELSE Len(bytes)

(* A write leaves a file of bytes: what was written, what was there, and   *)
(* what fills the gap between them.                                        *)
LEMMA Overwriting ==
    ASSUME NEW bytes \in Seq(Bytes), NEW at \in Nat, NEW new \in Seq(Bytes)
    PROVE  /\ Overwrite(bytes, at, new) \in Seq(Bytes)
           /\ NewLen(bytes, at, new) \in Nat
           /\ Len(Overwrite(bytes, at, new)) = NewLen(bytes, at, new)
           /\ \A i \in 1 .. NewLen(bytes, at, new) :
                 Overwrite(bytes, at, new)[i] =
                    IF i > at /\ i <= at + Len(new) THEN new[i - at]
                    ELSE IF i <= Len(bytes) THEN bytes[i] ELSE Hole
<1> DEFINE N == NewLen(bytes, at, new)
           E(i) == IF i > at /\ i <= at + Len(new) THEN new[i - at]
                   ELSE IF i <= Len(bytes) THEN bytes[i] ELSE Hole
<1>1. Len(bytes) \in Nat /\ Len(new) \in Nat /\ DOMAIN new = 1 .. Len(new)
  BY LenProperties
<1>2. N \in Nat
  BY <1>1 DEF NewLen
<1>3. \A i \in 1 .. N : E(i) \in Bytes
  <2> SUFFICES ASSUME NEW i \in 1 .. N PROVE E(i) \in Bytes
    OBVIOUS
  <2>1. CASE i > at /\ i <= at + Len(new)
    <3>1. i - at \in 1 .. Len(new)
      BY <1>1, <1>2, <2>1
    <3> QED BY <2>1, <3>1, ElementOfSeq
  <2>2. CASE ~(i > at /\ i <= at + Len(new)) /\ i <= Len(bytes)
    <3>1. i \in 1 .. Len(bytes)
      BY <1>1, <1>2, <2>2
    <3> QED BY <2>2, <3>1, ElementOfSeq
  <2>3. CASE ~(i > at /\ i <= at + Len(new)) /\ ~(i <= Len(bytes))
    BY <2>3, FilesAssumption
  <2> QED BY <2>1, <2>2, <2>3
<1>4. Overwrite(bytes, at, new) = [i \in 1 .. N |-> E(i)]
  <2>1. \A i \in 1 .. N : i - at \in DOMAIN new <=> i > at /\ i <= at + Len(new)
    BY <1>1, <1>2
  <2> QED BY <2>1 DEF Overwrite, NewLen
<1>5. [i \in 1 .. N |-> E(i)] \in Seq(Bytes) /\ Len([i \in 1 .. N |-> E(i)]) = N
  <2> HIDE DEF E, N
  <2> QED BY <1>2, <1>3
<1> QED BY <1>2, <1>4, <1>5

(* Writing nothing changes nothing, wherever the offset is. *)
LEMMA OverwritingNothing ==
    ASSUME NEW bytes \in Seq(Bytes), NEW at \in Nat
    PROVE  Overwrite(bytes, at, <<>>) = bytes
<1>1. <<>> \in Seq(Bytes) /\ Len(<<>>) = 0
  BY EmptySeq
<1>2. NewLen(bytes, at, <<>>) = Len(bytes) /\ Len(bytes) \in Nat
  BY <1>1, LenProperties DEF NewLen
<1>3. /\ Overwrite(bytes, at, <<>>) \in Seq(Bytes) /\ Len(Overwrite(bytes, at, <<>>)) = Len(bytes)
      /\ \A i \in 1 .. Len(bytes) : Overwrite(bytes, at, <<>>)[i] = bytes[i]
  <2>1. /\ Overwrite(bytes, at, <<>>) \in Seq(Bytes)
        /\ Len(Overwrite(bytes, at, <<>>)) = NewLen(bytes, at, <<>>)
        /\ \A i \in 1 .. NewLen(bytes, at, <<>>) :
              Overwrite(bytes, at, <<>>)[i] =
                 IF i > at /\ i <= at + Len(<<>>) THEN <<>>[i - at]
                 ELSE IF i <= Len(bytes) THEN bytes[i] ELSE Hole
    BY Zenon, <1>1, Overwriting
  <2>2. \A i \in 1 .. Len(bytes) : ~(i > at /\ i <= at + Len(<<>>)) /\ i <= Len(bytes)
    BY <1>1, <1>2
  <2> QED BY Zenon, <1>2, <2>1, <2>2
<1> QED BY <1>3, SeqEqual

(* Two writes, one behind the other, are one. *)
LEMMA OverwritingTwice ==
    ASSUME NEW bytes \in Seq(Bytes), NEW at \in Nat, NEW first \in Seq(Bytes),
           NEW second \in Seq(Bytes)
    PROVE  Overwrite(Overwrite(bytes, at, first), at + Len(first), second)
           = Overwrite(bytes, at, first \o second)
<1> DEFINE Once == Overwrite(bytes, at, first)
           Twice == Overwrite(Once, at + Len(first), second)
           Both == Overwrite(bytes, at, first \o second)
<1>1. /\ Len(bytes) \in Nat /\ Len(first) \in Nat /\ Len(second) \in Nat
      /\ (first = <<>> <=> Len(first) = 0) /\ (second = <<>> <=> Len(second) = 0)
  BY LenProperties, EmptySeq
<1>2. /\ first \o second \in Seq(Bytes) /\ Len(first \o second) = Len(first) + Len(second)
      /\ \A i \in 1 .. Len(first) + Len(second) :
            (first \o second)[i] = IF i <= Len(first) THEN first[i] ELSE second[i - Len(first)]
      /\ (first \o second = <<>> <=> Len(first) + Len(second) = 0)
  <2>1. /\ first \o second \in Seq(Bytes) /\ Len(first \o second) = Len(first) + Len(second)
        /\ \A i \in 1 .. Len(first) + Len(second) :
              (first \o second)[i] = IF i <= Len(first) THEN first[i] ELSE second[i - Len(first)]
    BY ConcatProperties
  <2>2. first \o second = <<>> <=> first = <<>> /\ second = <<>>
    BY ConcatEqualIffEmpty
  <2> QED BY <1>1, <2>1, <2>2
<1>3. /\ Once \in Seq(Bytes) /\ Len(Once) = NewLen(bytes, at, first) /\ Len(Once) \in Nat
      /\ \A i \in 1 .. Len(Once) :
            Once[i] = IF i > at /\ i <= at + Len(first) THEN first[i - at]
                      ELSE IF i <= Len(bytes) THEN bytes[i] ELSE Hole
  BY Overwriting
<1>4. at + Len(first) \in Nat
  BY <1>1
<1>5. /\ Twice \in Seq(Bytes) /\ Len(Twice) = NewLen(Once, at + Len(first), second)
      /\ Len(Twice) \in Nat
      /\ \A i \in 1 .. Len(Twice) :
            Twice[i] = IF i > at + Len(first) /\ i <= at + Len(first) + Len(second)
                         THEN second[i - (at + Len(first))]
                       ELSE IF i <= Len(Once) THEN Once[i] ELSE Hole
  <2> HIDE DEF Once
  <2>1. /\ NewLen(Once, at + Len(first), second) \in Nat
        /\ Twice \in Seq(Bytes) /\ Len(Twice) = NewLen(Once, at + Len(first), second)
        /\ \A i \in 1 .. NewLen(Once, at + Len(first), second) :
              Twice[i] = IF i > at + Len(first) /\ i <= at + Len(first) + Len(second)
                           THEN second[i - (at + Len(first))]
                         ELSE IF i <= Len(Once) THEN Once[i] ELSE Hole
    BY Zenon, <1>3, <1>4, Overwriting
  <2> HIDE DEF Twice
  <2> QED BY Zenon, <2>1
<1>6. /\ Both \in Seq(Bytes) /\ Len(Both) = NewLen(bytes, at, first \o second)
      /\ Len(Both) \in Nat
      /\ \A i \in 1 .. Len(Both) :
            Both[i] = IF i > at /\ i <= at + (Len(first) + Len(second))
                        THEN (first \o second)[i - at]
                      ELSE IF i <= Len(bytes) THEN bytes[i] ELSE Hole
  <2>1. /\ NewLen(bytes, at, first \o second) \in Nat
        /\ Both \in Seq(Bytes) /\ Len(Both) = NewLen(bytes, at, first \o second)
        /\ \A i \in 1 .. NewLen(bytes, at, first \o second) :
              Both[i] = IF i > at /\ i <= at + Len(first \o second) THEN (first \o second)[i - at]
                        ELSE IF i <= Len(bytes) THEN bytes[i] ELSE Hole
    BY Zenon, <1>2, Overwriting
  <2> HIDE DEF Both
  <2> QED BY Zenon, <1>2, <2>1
<1> HIDE DEF Once, Twice, Both
<1>7. Len(Twice) = Len(Both)
  BY <1>1, <1>2, <1>3, <1>5, <1>6 DEF NewLen
<1>8. ASSUME NEW i \in 1 .. Len(Twice) PROVE Twice[i] = Both[i]
  <2>1. i \in Nat /\ i >= 1 /\ i <= Len(Both) /\ i \in 1 .. Len(Both)
    BY <1>5, <1>7
  <2>2. CASE i > at /\ i <= at + Len(first)
    <3>1. i - at \in 1 .. Len(first) + Len(second) /\ i - at <= Len(first)
      BY <1>1, <2>1, <2>2
    <3>2. i \in 1 .. Len(Once)
      BY <1>1, <1>3, <2>1, <2>2 DEF NewLen
    <3>3. Both[i] = first[i - at]
      BY <1>1, <1>2, <1>6, <2>1, <2>2, <3>1
    <3>4. Twice[i] = Once[i]
      BY <1>1, <1>5, <2>2, <3>2
    <3> QED BY <1>3, <2>2, <3>2, <3>3, <3>4
  <2>3. CASE i > at + Len(first) /\ i <= at + Len(first) + Len(second)
    <3>1. /\ i - at \in 1 .. Len(first) + Len(second) /\ ~(i - at <= Len(first))
          /\ i - at - Len(first) = i - (at + Len(first)) /\ i > at
          /\ i <= at + (Len(first) + Len(second))
      BY <1>1, <2>1, <2>3
    <3>2. Both[i] = second[i - (at + Len(first))]
      BY <1>2, <1>6, <2>1, <3>1
    <3> QED BY <1>5, <2>3, <3>2
  <2>4. CASE ~(i > at) \/ i > at + Len(first) + Len(second)
    <3>1. Both[i] = IF i <= Len(bytes) THEN bytes[i] ELSE Hole
      BY <1>1, <1>6, <2>1, <2>4
    <3>2. Twice[i] = IF i <= Len(Once) THEN Once[i] ELSE Hole
      BY <1>1, <1>5, <2>4
    <3>3. i <= Len(bytes) => i <= Len(Once)
      BY <1>1, <1>3, <2>1 DEF NewLen
    <3>4. i <= Len(Once) => Once[i] = IF i <= Len(bytes) THEN bytes[i] ELSE Hole
      BY <1>1, <1>3, <2>1, <2>4
    <3> QED BY <3>1, <3>2, <3>3, <3>4
  <2> QED BY <1>1, <2>1, <2>2, <2>3, <2>4
<1>9. Twice = Both
  BY <1>5, <1>6, <1>7, <1>8, SeqEqual
<1> QED BY <1>9 DEF Once, Twice, Both

(* A read gets the beginning of what is left; if it gets less than it      *)
(* asked for, nothing is left behind it.                                   *)
LEMMA Reading ==
    ASSUME NEW bytes \in Seq(Bytes), NEW at \in Nat, NEW len \in Nat
    PROVE  LET taken == BytesAt(bytes, at, len)
               behind == BytesAt(bytes, at + Len(taken), Len(bytes))
           IN  /\ taken \in Seq(Bytes) /\ Len(taken) \in Nat
               /\ behind \in Seq(Bytes)
               /\ taken \o behind = BytesAt(bytes, at, Len(bytes))
               /\ Len(taken) # len => behind = <<>>
<1> DEFINE taken == BytesAt(bytes, at, len)
           behind == BytesAt(bytes, at + Len(taken), Len(bytes))
           all == BytesAt(bytes, at, Len(bytes))
           to == IF at + len <= Len(bytes) THEN at + len ELSE Len(bytes)
<1>1. /\ Len(bytes) \in Nat /\ to \in Nat /\ to <= Len(bytes)
      /\ \A i \in 1 .. Len(bytes) : bytes[i] \in Bytes
  BY LenProperties, ElementOfSeq
<1>2. ASSUME NEW from \in Nat, NEW end \in Nat, end <= Len(bytes)
      PROVE  /\ SubSeq(bytes, from + 1, end) \in Seq(Bytes)
             /\ Len(SubSeq(bytes, from + 1, end)) = IF from + 1 <= end THEN end - from ELSE 0
             /\ \A i \in 1 .. end - from : SubSeq(bytes, from + 1, end)[i] = bytes[from + i]
  <2> HIDE DEF to
  <2>1. \A i \in from + 1 .. end : bytes[i] \in Bytes
    BY <1>1, <1>2
  <2>2. from + 1 \in Int /\ end \in Int /\ end - (from + 1) + 1 = end - from
        /\ \A i \in Int : from + 1 + i - 1 = from + i
    OBVIOUS
  <2>3. /\ SubSeq(bytes, from + 1, end) \in Seq(Bytes)
        /\ Len(SubSeq(bytes, from + 1, end))
           = IF from + 1 <= end THEN end - (from + 1) + 1 ELSE 0
        /\ \A i \in 1 .. end - (from + 1) + 1 :
              SubSeq(bytes, from + 1, end)[i] = bytes[from + 1 + i - 1]
    BY <2>1, <2>2, SubSeqProperties
  <2>4. ASSUME NEW i \in 1 .. end - from
        PROVE  SubSeq(bytes, from + 1, end)[i] = bytes[from + i]
    <3>1. i \in 1 .. end - (from + 1) + 1 /\ from + 1 + i - 1 = from + i
      BY <2>2
    <3> QED BY Zenon, <2>3, <3>1
  <2> QED BY Zenon, <2>2, <2>3, <2>4
<1>3. /\ taken \in Seq(Bytes) /\ Len(taken) = IF at + 1 <= to THEN to - at ELSE 0
      /\ \A i \in 1 .. to - at : taken[i] = bytes[at + i]
  <2>1. taken = SubSeq(bytes, at + 1, to)
    BY DEF BytesAt
  <2> HIDE DEF taken, to
  <2> QED BY <1>1, <1>2, <2>1
<1>4. ASSUME NEW from \in Nat
      PROVE  /\ BytesAt(bytes, from, Len(bytes)) \in Seq(Bytes)
             /\ Len(BytesAt(bytes, from, Len(bytes)))
                = IF from + 1 <= Len(bytes) THEN Len(bytes) - from ELSE 0
             /\ \A i \in 1 .. Len(bytes) - from :
                   BytesAt(bytes, from, Len(bytes))[i] = bytes[from + i]
  <2>1. BytesAt(bytes, from, Len(bytes)) = SubSeq(bytes, from + 1, Len(bytes))
    BY <1>1 DEF BytesAt
  <2> QED BY <1>1, <1>2, <2>1
<1>5. Len(taken) \in Nat /\ at + Len(taken) \in Nat
  BY <1>1, <1>3
<1>6. /\ behind \in Seq(Bytes)
      /\ Len(behind) = IF at + Len(taken) + 1 <= Len(bytes) THEN Len(bytes) - (at + Len(taken)) ELSE 0
      /\ \A i \in 1 .. Len(bytes) - (at + Len(taken)) : behind[i] = bytes[at + Len(taken) + i]
  <2> HIDE DEF taken
  <2> QED BY <1>4, <1>5
<1>7. /\ all \in Seq(Bytes)
      /\ Len(all) = IF at + 1 <= Len(bytes) THEN Len(bytes) - at ELSE 0
      /\ \A i \in 1 .. Len(bytes) - at : all[i] = bytes[at + i]
  BY <1>4
<1> HIDE DEF taken, behind, all
<1>8. Len(taken) # len => behind = <<>>
  <2>1. Len(taken) # len => Len(behind) = 0
    BY <1>1, <1>3, <1>6
  <2> QED BY <1>6, <2>1, EmptySeq
<1>9. /\ taken \o behind \in Seq(Bytes) /\ Len(taken \o behind) = Len(taken) + Len(behind)
      /\ \A i \in 1 .. Len(taken) + Len(behind) :
            (taken \o behind)[i] = IF i <= Len(taken) THEN taken[i] ELSE behind[i - Len(taken)]
  BY <1>3, <1>6, ConcatProperties
<1>10. taken \o behind = all
  <2> HIDE DEF to
  <2>1. Len(taken) + Len(behind) = Len(all)
    <3>1. CASE at + 1 <= to
      <4>1. Len(taken) = to - at /\ at + Len(taken) = to
        BY <1>1, <1>3, <3>1
      <4>2. Len(behind) = IF to + 1 <= Len(bytes) THEN Len(bytes) - to ELSE 0
        BY <1>6, <4>1
      <4> QED BY <1>1, <1>7, <3>1, <4>1, <4>2
    <3>2. CASE ~(at + 1 <= to)
      <4>1. Len(taken) = 0 /\ at + Len(taken) = at
        BY <1>1, <1>3, <3>2
      <4>2. Len(behind) = IF at + 1 <= Len(bytes) THEN Len(bytes) - at ELSE 0
        BY <1>6, <4>1
      <4> QED BY <1>7, <4>1, <4>2
    <3> QED BY <3>1, <3>2
  <2>2. ASSUME NEW i \in 1 .. Len(all) PROVE (taken \o behind)[i] = all[i]
    <3>1. i \in Nat /\ i \in 1 .. Len(bytes) - at /\ i \in 1 .. Len(taken) + Len(behind)
      BY <1>1, <1>7, <2>1
    <3>2. CASE i <= Len(taken)
      <4>1. i \in 1 .. to - at
        BY <1>1, <1>3, <3>1, <3>2
      <4> QED BY <1>3, <1>7, <1>9, <3>1, <3>2, <4>1
    <3>3. CASE ~(i <= Len(taken))
      <4>1. /\ i - Len(taken) \in 1 .. Len(bytes) - (at + Len(taken))
            /\ at + Len(taken) + (i - Len(taken)) = at + i
        BY <1>1, <1>5, <3>1, <3>3
      <4> QED BY <1>6, <1>7, <1>9, <3>1, <3>3, <4>1
    <3> QED BY <3>2, <3>3
  <2> QED BY <1>7, <1>9, <2>1, <2>2, SeqEqual
<1> QED BY <1>3, <1>5, <1>6, <1>8, <1>10 DEF taken, behind, all

-----------------------------------------------------------------------------
(* A write at the place where dest writes keeps the types, and the next    *)
(* one goes behind it, with O_APPEND as without.                           *)
LEMMA WrittenOnce ==
    ASSUME FileTypeOK, copying = "write", NEW bytes \in Seq(Bytes), NEW n \in 0 .. Len(bytes),
           Written(bytes, n)
    PROVE  LET D == disk[path[dest]]
               new == SubSeq(bytes, 1, n)
           IN  /\ FileTypeOK' /\ D \in Seq(Bytes) /\ WriteOffset(dest) \in Nat
               /\ new \in Seq(Bytes) /\ Len(new) = n
               /\ disk'[path[dest]] = Overwrite(D, WriteOffset(dest), new)
               /\ \A p \in Paths \ {path[dest]} : disk'[p] = disk[p]
               /\ WriteOffset(dest)' = WriteOffset(dest) + n
               /\ \A f \in Objects \ {dest} : offset'[f] = offset[f]
<1> DEFINE D == disk[path[dest]]
           new == SubSeq(bytes, 1, n)
           w == WriteOffset(dest)
<1>1. /\ dest \in Objects /\ src \in Objects /\ path[dest] \in Paths /\ D \in Seq(Bytes)
      /\ Len(D) \in Nat /\ offset[dest] \in Nat /\ n \in Nat
  BY LenProperties DEF FileTypeOK
<1>2. w \in Nat
  BY <1>1 DEF WriteOffset
<1>3. new \in Seq(Bytes) /\ Len(new) = n
  <2>1. Len(bytes) \in Nat /\ \A i \in 1 .. n : bytes[i] \in Bytes
    BY LenProperties, ElementOfSeq
  <2>2. new \in Seq(Bytes) /\ Len(new) = IF 1 <= n THEN n - 1 + 1 ELSE 0
    BY <1>1, <2>1, SubSeqProperties
  <2> QED BY <1>1, <2>2
<1> HIDE DEF D, new, w
<1>4. /\ Overwrite(D, w, new) \in Seq(Bytes)
      /\ Len(Overwrite(D, w, new)) = NewLen(D, w, new)
  BY <1>1, <1>2, <1>3, Overwriting
<1>5. /\ disk' = [disk EXCEPT ![path[dest]] = Overwrite(D, w, new)]
      /\ offset' = [offset EXCEPT ![dest] = IF n = 0 THEN @ ELSE w + n]
      /\ copying' = IF Len(buf) = Block THEN "read" ELSE "returned"
      /\ UNCHANGED <<path, modes, dest, src, buf>>
  BY DEF Written, D, w, new
<1>6. /\ disk'[path[dest]] = Overwrite(D, w, new)
      /\ \A p \in Paths \ {path[dest]} : disk'[p] = disk[p]
      /\ disk' \in [Paths -> Seq(Bytes) \cup {Missing}]
  BY <1>1, <1>4, <1>5 DEF FileTypeOK
<1>7. /\ offset'[dest] = IF n = 0 THEN offset[dest] ELSE w + n
      /\ \A f \in Objects \ {dest} : offset'[f] = offset[f]
      /\ offset' \in [Objects -> Nat]
  BY <1>1, <1>2, <1>5 DEF FileTypeOK
<1>8. \A f \in Objects : path'[f] # Missing => disk'[path'[f]] \in Seq(Bytes)
  BY <1>1, <1>4, <1>5, <1>6 DEF FileTypeOK
<1>9. FileTypeOK'
  BY <1>1, <1>5, <1>6, <1>7, <1>8 DEF FileTypeOK
<1>10. WriteOffset(dest)' = w + n
  <2>1. WriteOffset(dest)' = IF Appends(modes[dest]) THEN Len(disk'[path[dest]]) ELSE offset'[dest]
    BY <1>5 DEF WriteOffset, Appends
  <2>2. CASE Appends(modes[dest])
    <3>1. w = Len(D)
      BY <2>2 DEF w, D, WriteOffset
    <3>2. new = <<>> <=> n = 0
      BY <1>1, <1>3, EmptySeq
    <3>3. NewLen(D, w, new) = w + n
      BY <1>1, <1>2, <1>3, <3>1, <3>2 DEF NewLen
    <3> QED BY <1>4, <1>6, <2>1, <2>2, <3>3
  <2>3. CASE ~Appends(modes[dest])
    <3>1. w = offset[dest]
      BY <2>3 DEF w, WriteOffset
    <3> QED BY <1>1, <1>2, <1>7, <2>1, <2>3, <3>1
  <2> QED BY <2>2, <2>3
<1> QED BY <1>1, <1>2, <1>3, <1>6, <1>7, <1>9, <1>10 DEF D, new, w

(* Every step of the application and of CopyFile keeps the invariant. *)
LEMMA FileStep == FileInv /\ [FileNext]_FileVars => FileInv'
<1> SUFFICES ASSUME FileTypeOK, CopyOK, [FileNext]_FileVars PROVE FileInv'
  BY DEF FileInv
<1>1. ASSUME NEW f \in Objects, NEW p \in Paths, NEW mode \in 0 .. 3, OpenFile(f, p, mode)
      PROVE  FileInv'
  <2>1. /\ copying' = "no" /\ path' = [path EXCEPT ![f] = p] /\ offset' = offset
        /\ disk' = [disk EXCEPT ![p] = IF @ = Missing THEN <<>> ELSE @]
    BY <1>1 DEF OpenFile
  <2>2. <<>> \in Seq(Bytes)
    BY EmptySeq
  <2>3. /\ disk' \in [Paths -> Seq(Bytes) \cup {Missing}] /\ disk'[p] \in Seq(Bytes)
        /\ \A q \in Paths : disk[q] \in Seq(Bytes) => disk'[q] \in Seq(Bytes)
    BY <2>1, <2>2 DEF FileTypeOK
  <2>4. /\ path' \in [Objects -> Paths \cup {Missing}]
        /\ \A g \in Objects : path'[g] # Missing => disk'[path'[g]] \in Seq(Bytes)
    BY <2>1, <2>3 DEF FileTypeOK
  <2> QED BY <2>1, <2>3, <2>4 DEF FileInv, FileTypeOK, CopyOK
<1>2. ASSUME NEW f \in Objects, CloseFile(f) PROVE FileInv'
  <2>1. /\ copying' = "no" /\ path' = [path EXCEPT ![f] = Missing] /\ disk' = disk
        /\ offset' = [offset EXCEPT ![f] = 0]
    BY <1>2 DEF CloseFile
  <2> QED BY <2>1 DEF FileInv, FileTypeOK, CopyOK
<1>3. ASSUME NEW f \in Objects, NEW n \in 0 .. Block, SetPosition(f, n) PROVE FileInv'
  <2>1. /\ copying' = "no" /\ path' = path /\ disk' = disk
        /\ offset' = [offset EXCEPT ![f] = n] /\ n \in Nat
    BY <1>3, FilesAssumption DEF SetPosition
  <2> QED BY <2>1 DEF FileInv, FileTypeOK, CopyOK
<1>4. ASSUME NEW d \in Objects, NEW s \in Objects, CopyFile(d, s) PROVE FileInv'
  <2>1. /\ copying' = "read" /\ dest' = d /\ src' = s /\ path[d] # Missing /\ path[s] # Missing
        /\ UNCHANGED <<disk, path, offset, modes>>
        /\ wanted' = Overwrite(disk[path[d]], WriteOffset(d), Rest(s))
    BY <1>4 DEF CopyFile, Rest
  <2>2. FileTypeOK'
    BY <2>1 DEF FileTypeOK
  <2>3. /\ disk'[path'[dest']] = disk[path[d]] /\ WriteOffset(dest)' = WriteOffset(d)
        /\ Rest(src)' = Rest(s)
    BY <2>1 DEF WriteOffset, Appends, Rest
  <2> QED BY <2>1, <2>2, <2>3 DEF FileInv, CopyOK
<1>5. CASE ReadBlock
  <2> DEFINE S == disk[path[src]]
  <2>1. /\ copying = "read" /\ buf' = BytesAt(S, offset[src], Block)
        /\ offset' = [offset EXCEPT ![src] = @ + Len(buf')] /\ copying' = "write"
        /\ UNCHANGED <<disk, path, modes, dest, src, faulted, wanted>>
    BY <1>5 DEF ReadBlock
  <2>2. /\ dest \in Objects /\ src \in Objects /\ S \in Seq(Bytes) /\ offset[src] \in Nat
        /\ Block \in Nat
    BY <2>1, FilesAssumption DEF FileTypeOK
  <2> HIDE DEF S
  <2>3. /\ buf' \in Seq(Bytes) /\ Len(buf') \in Nat
        /\ buf' \o BytesAt(S, offset[src] + Len(buf'), Len(S)) = BytesAt(S, offset[src], Len(S))
        /\ Len(buf') # Block => BytesAt(S, offset[src] + Len(buf'), Len(S)) = <<>>
    BY Zenon, <2>1, <2>2, Reading
  <2>4. /\ offset' \in [Objects -> Nat] /\ offset'[src] = offset[src] + Len(buf')
        /\ \A f \in Objects \ {src} : offset'[f] = offset[f]
    BY <2>1, <2>2, <2>3 DEF FileTypeOK
  <2>5. FileTypeOK'
    BY <2>1, <2>2, <2>3, <2>4 DEF FileTypeOK
  <2>6. /\ Rest(src) = BytesAt(S, offset[src], Len(S))
        /\ Rest(src)' = BytesAt(S, offset[src] + Len(buf'), Len(S))
    BY <2>1, <2>4 DEF Rest, S
  <2>7. CopyOK'
    <3> SUFFICES ASSUME ~faulted, path[dest] # path[src]
                 PROVE  /\ Overwrite(disk[path[dest]], WriteOffset(dest)', buf' \o Rest(src)')
                           = wanted
                        /\ Len(buf') # Block => Rest(src)' = <<>>
      BY <2>1 DEF CopyOK
    <3>1. WriteOffset(dest)' = WriteOffset(dest)
      BY <2>1, <2>2, <2>4 DEF WriteOffset, Appends
    <3>2. Overwrite(disk[path[dest]], WriteOffset(dest), Rest(src)) = wanted
      BY <2>1 DEF CopyOK
    <3> QED BY Zenon, <2>3, <2>6, <3>1, <3>2
  <2> QED BY <2>5, <2>7 DEF FileInv
<1>6. CASE ReadShort
  <2>1. PICK n \in 0 .. Block - 1 :
           /\ buf' = BytesAt(disk[path[src]], offset[src], n)
           /\ offset' = [offset EXCEPT ![src] = @ + n]
    BY <1>6 DEF ReadShort
  <2>2. /\ copying = "read" /\ copying' = "write" /\ faulted'
        /\ UNCHANGED <<disk, path, modes, dest, src, wanted>>
    BY <1>6 DEF ReadShort
  <2>3. /\ src \in Objects /\ disk[path[src]] \in Seq(Bytes) /\ offset[src] \in Nat /\ n \in Nat
    BY <2>2, FilesAssumption DEF FileTypeOK
  <2>4. buf' \in Seq(Bytes)
    BY <2>1, <2>3, Reading
  <2> QED BY <2>1, <2>2, <2>3, <2>4 DEF FileInv, FileTypeOK, CopyOK
<1>7. CASE WriteBlock
  <2> DEFINE D == disk[path[dest]]
  <2>1. /\ copying = "write" /\ Written(buf, Len(buf)) /\ faulted' = faulted
    BY <1>7 DEF WriteBlock
  <2>2. buf \in Seq(Bytes) /\ Len(buf) \in Nat /\ Len(buf) \in 0 .. Len(buf)
    BY <2>1, LenProperties DEF FileTypeOK
  <2>3. SubSeq(buf, 1, Len(buf)) = buf
    BY <2>2, SubSeqFull
  <2>4. /\ FileTypeOK' /\ D \in Seq(Bytes) /\ WriteOffset(dest) \in Nat
        /\ disk'[path[dest]] = Overwrite(D, WriteOffset(dest), buf)
        /\ \A p \in Paths \ {path[dest]} : disk'[p] = disk[p]
        /\ WriteOffset(dest)' = WriteOffset(dest) + Len(buf)
        /\ \A f \in Objects \ {dest} : offset'[f] = offset[f]
    BY <2>1, <2>2, <2>3, WrittenOnce
  <2>5. /\ copying' = IF Len(buf) = Block THEN "read" ELSE "returned"
        /\ UNCHANGED <<path, modes, dest, src, buf, wanted>>
    BY <2>1 DEF Written
  <2>6. CopyOK'
    <3> SUFFICES ASSUME ~faulted, path[dest] # path[src]
                 PROVE  IF Len(buf) = Block
                          THEN Overwrite(disk'[path[dest]], WriteOffset(dest)', Rest(src)') = wanted
                          ELSE disk'[path[dest]] = wanted
      BY <2>1, <2>5 DEF CopyOK
    <3>1. /\ src \in Objects /\ path[src] \in Paths /\ offset[src] \in Nat
          /\ disk[path[src]] \in Seq(Bytes)
      BY <2>1 DEF FileTypeOK
    <3>2. Rest(src)' = Rest(src)
      BY <2>4, <2>5, <3>1 DEF Rest
    <3>3. Rest(src) \in Seq(Bytes)
      BY <3>1, LenProperties, Reading DEF Rest
    <3>4. /\ Overwrite(D, WriteOffset(dest), buf \o Rest(src)) = wanted
          /\ Len(buf) # Block => Rest(src) = <<>>
      BY <2>1 DEF CopyOK
    <3> HIDE DEF D
    <3>5. CASE Len(buf) = Block
      <4>1. Overwrite(Overwrite(D, WriteOffset(dest), buf), WriteOffset(dest) + Len(buf), Rest(src))
            = Overwrite(D, WriteOffset(dest), buf \o Rest(src))
        BY Zenon, <2>2, <2>4, <3>3, OverwritingTwice
      <4> QED BY Zenon, <2>4, <3>2, <3>4, <3>5, <4>1
    <3>6. CASE Len(buf) # Block
      <4>1. buf \o Rest(src) = buf
        BY <2>2, <3>4, <3>6, ConcatEmptySeq
      <4> QED BY Zenon, <2>4, <3>4, <3>6, <4>1
    <3> QED BY <3>5, <3>6
  <2> QED BY <2>4, <2>6 DEF FileInv
<1>8. CASE WriteFails
  <2>1. PICK n \in 0 .. Len(buf) - 1 : Written(buf, n)
    BY <1>8 DEF WriteFails
  <2>2. copying = "write" /\ faulted'
    BY <1>8 DEF WriteFails
  <2>3. buf \in Seq(Bytes) /\ n \in 0 .. Len(buf)
    BY <2>2, LenProperties DEF FileTypeOK
  <2>4. FileTypeOK'
    BY <2>1, <2>2, <2>3, WrittenOnce
  <2> QED BY <2>2, <2>4 DEF FileInv, CopyOK
<1>9. CASE WriteNothing
  <2> DEFINE D == disk[path[dest]]
  <2>1. /\ copying = "write" /\ buf = <<>> /\ Written(buf, 0) /\ faulted' = faulted
    BY <1>9 DEF WriteNothing
  <2>2. <<>> \in Seq(Bytes) /\ buf \in Seq(Bytes) /\ Len(buf) = 0 /\ 0 \in 0 .. Len(buf)
    BY <2>1, EmptySeq
  <2>3. SubSeq(buf, 1, 0) = <<>>
    BY SubSeqEmpty
  <2>4. /\ FileTypeOK' /\ D \in Seq(Bytes) /\ WriteOffset(dest) \in Nat
        /\ disk'[path[dest]] = Overwrite(D, WriteOffset(dest), <<>>)
    BY <2>1, <2>2, <2>3, WrittenOnce
  <2>5. copying' = "returned" /\ UNCHANGED <<path, dest, src, wanted>>
    BY <2>1, <2>2, FilesAssumption DEF Written
  <2>6. ~faulted /\ path[dest] # path[src] => D = wanted
    <3> SUFFICES ASSUME ~faulted, path[dest] # path[src] PROVE D = wanted
      OBVIOUS
    <3>1. Rest(src) = <<>>
      BY <2>1, <2>2, FilesAssumption DEF CopyOK
    <3>2. Overwrite(D, WriteOffset(dest), buf \o Rest(src)) = wanted
      BY <2>1 DEF CopyOK
    <3>3. buf \o Rest(src) = <<>>
      BY <2>1, <2>2, <3>1, ConcatEmptySeq
    <3> QED BY <2>4, <3>2, <3>3, OverwritingNothing
  <2>7. disk'[path[dest]] = D
    BY <2>4, OverwritingNothing
  <2> QED BY <2>1, <2>4, <2>5, <2>6, <2>7 DEF FileInv, CopyOK
<1>10. CASE UNCHANGED FileVars
  BY <1>10 DEF FileVars, FileInv, FileTypeOK, CopyOK, WriteOffset, Appends, Rest
<1>11. ASSUME NEW d \in Objects, NEW s \in Objects, CopyRefused(d, s) PROVE FileInv'
  BY <1>11 DEF CopyRefused, FileInv, FileTypeOK, CopyOK
<1> QED
  BY <1>1, <1>2, <1>3, <1>4, <1>5, <1>6, <1>7, <1>8, <1>9, <1>10, <1>11 DEF FileNext

(* If no read or write was short, CopyFile puts exactly what was left of   *)
(* the source at the destination's offset, or at its end, and leaves the   *)
(* rest of it alone (File.cpp:247-269).                                    *)
THEOREM CopiesFaithful == FileSpec => []CopyFaithful
<1>1. FileInit => FileInv
  BY FilesAssumption DEF FileInit, FileInv, FileTypeOK, CopyOK
<1>2. FileInv => CopyFaithful
  BY DEF FileInv, CopyOK, CopyFaithful
<1> QED BY <1>1, <1>2, FileStep, PTL DEF FileSpec

-----------------------------------------------------------------------------
(* SanitizeRuntime, for any tree and any links.  DirectoryList remembers   *)
(* neither what it has listed nor where it is, so the argument is about    *)
(* what it has still to look into: whatever is not listed yet is below it, *)
(* a cycle that leads back is reached through it, and each of it has as    *)
(* many directories above it as calls are open there.                      *)
Paths0 == Nodes \cup {Nowhere}
Folders == Dirs \cup {Runtime, Elsewhere}
Under(d) == Below(Inside({d}))
Winding(d) == \E x \in Below({d}) : x \in Under(x)
Above(e) == {d \in Folders \cap Below({Runtime}) : e \in Under(d)}
Waiting(st) == UNION {st[i] : i \in 1 .. Len(st)}

LinksOK == target \in [Links -> Paths0 \ Links]

(* What is in a directory is in one that is there. *)
TreeOK ==
    \A n \in Nodes : parent[n] # Nowhere => parent[n] \in Folders /\ Exists(parent[n])

(* DirectoryList, with the calls st open and the paths li collected. *)
Listing(st, li) ==
    /\ st \in Seq(SUBSET Folders) /\ st # <<>>
    /\ Waiting(st) \subseteq Below({Runtime})
    /\ li \subseteq Under(Runtime) /\ Nowhere \notin li
    /\ \A d \in li \cup {Runtime} : d \in Waiting(st) \/ Inside({d}) \subseteq li
    /\ Cyclic => \E d \in Waiting(st) : Winding(d)
    /\ ~Cyclic => \A i \in 1 .. Len(st) : \A e \in st[i] :
                     Cardinality(Above(e)) >= Len(st) - i

DirectoryInv ==
    /\ LinksOK /\ parent \in [Nodes -> Paths0] /\ SanitizeExact
    /\ sanitizing \in {"no", "list"} => TreeOK /\ deleted = {}
    /\ sanitizing = "no" => listed = {}
    /\ sanitizing = "list" => Listing(stack, listed)
    /\ sanitizing = "delete" => /\ todelete \subseteq listed
                                /\ deleted = (listed \ todelete) \cap PlainFiles

(* RealPath gives a path, and what is inside of more is more. *)
LEMMA InsideFacts ==
    ASSUME LinksOK
    PROVE  /\ \A S : Inside(S) \in SUBSET Paths0
           /\ \A S, T : S \subseteq T => Inside(S) \subseteq Inside(T)
           /\ \A S : \A x \in Inside(S) : \E d \in S : x \in Inside({d})
           /\ Inside({}) = {} /\ Inside({Nowhere}) = {}
<1>1. \A n \in Nodes : RealPath(n) \in Paths0
  BY DEF LinksOK, RealPath, Follow, Paths0
<1>2. \A S, x : x \in Inside(S) <=> \E n \in Nodes : parent[n] \in S /\ parent[n] # Nowhere /\ x = RealPath(n)
  BY DEF Inside
<1>3. \A S : \A x \in Inside(S) : x \in Paths0
  BY <1>1, <1>2
<1>4. \A S, T : S \subseteq T => \A x \in Inside(S) : x \in Inside(T)
  BY <1>2
<1>5. \A S : \A x \in Inside(S) : \E d \in S : x \in Inside({d})
  BY <1>2
<1> HIDE DEF Inside
<1>6. \A x : x \notin Inside({}) /\ x \notin Inside({Nowhere})
  BY <1>2
<1> QED BY <1>3, <1>4, <1>5, <1>6

(* What is inside of a set of paths is inside of one of them. *)
LEMMA InsideOne ==
    ASSUME LinksOK, NEW S, NEW x \in Inside(S)
    PROVE  x \in Paths0 /\ \E d \in S : x \in Inside({d})
<1>1. x \in Paths0
  BY InsideFacts
<1>2. PICK n \in Nodes : parent[n] \in S \ {Nowhere} /\ x = RealPath(n)
  BY DEF Inside
<1>3. x \in Inside({parent[n]})
  BY <1>2 DEF Inside
<1> QED BY <1>1, <1>2, <1>3

(* Below is the least set that is closed. *)
LEMMA BelowFacts ==
    ASSUME LinksOK, NEW S \in SUBSET Paths0
    PROVE  /\ S \subseteq Below(S) /\ Below(S) \in SUBSET Paths0
           /\ Inside(Below(S)) \subseteq Below(S)
           /\ \A T \in SUBSET Paths0 : S \subseteq T /\ Inside(T) \subseteq T => Below(S) \subseteq T
<1>1. \A x : x \in Below(S) <=> /\ x \in Paths0
                                /\ \A T \in SUBSET Paths0 : S \subseteq T /\ Inside(T) \subseteq T => x \in T
  BY DEF Below, Paths0
<1>2. S \subseteq Below(S) /\ Below(S) \in SUBSET Paths0
  BY <1>1
<1>3. \A T \in SUBSET Paths0 : S \subseteq T /\ Inside(T) \subseteq T => Below(S) \subseteq T
  BY <1>1
<1>4. ASSUME NEW x \in Inside(Below(S)) PROVE x \in Below(S)
  <2>1. x \in Paths0
    BY InsideFacts
  <2>2. ASSUME NEW T \in SUBSET Paths0, S \subseteq T, Inside(T) \subseteq T PROVE x \in T
    <3>1. Below(S) \subseteq T
      BY <1>3, <2>2
    <3>2. Inside(Below(S)) \subseteq Inside(T)
      BY <3>1, InsideFacts
    <3> QED BY <2>2, <3>2
  <2> QED BY <1>1, <2>1, <2>2
<1> QED BY <1>2, <1>3, <1>4

(* What is below a path is the path or below what is inside of it. *)
LEMMA BelowOne ==
    ASSUME LinksOK, NEW d \in Paths0
    PROVE  /\ d \in Below({d}) /\ Below({d}) \in SUBSET Paths0
           /\ Under(d) \in SUBSET Paths0 /\ Inside({d}) \subseteq Under(d)
           /\ Inside(Under(d)) \subseteq Under(d)
           /\ Below({d}) \subseteq {d} \cup Under(d) /\ Under(d) \subseteq Below({d})
<1>1. {d} \in SUBSET Paths0 /\ Inside({d}) \in SUBSET Paths0
  BY InsideFacts
<1>2. /\ Inside({d}) \subseteq Under(d) /\ Under(d) \in SUBSET Paths0
      /\ Inside(Under(d)) \subseteq Under(d)
      /\ \A T \in SUBSET Paths0 :
            Inside({d}) \subseteq T /\ Inside(T) \subseteq T => Under(d) \subseteq T
  BY <1>1, BelowFacts DEF Under
<1>3. /\ d \in Below({d}) /\ Below({d}) \in SUBSET Paths0 /\ Inside(Below({d})) \subseteq Below({d})
      /\ \A T \in SUBSET Paths0 :
            {d} \subseteq T /\ Inside(T) \subseteq T => Below({d}) \subseteq T
  BY <1>1, BelowFacts
<1>4. Inside({d} \cup Under(d)) \subseteq {d} \cup Under(d)
  <2>1. ASSUME NEW x \in Inside({d} \cup Under(d)) PROVE x \in Under(d)
    <3>1. PICK e \in {d} \cup Under(d) : x \in Inside({e})
      BY <2>1, InsideOne, Zenon
    <3>2. e \in Under(d) => Inside({e}) \subseteq Inside(Under(d))
      BY InsideFacts
    <3> QED BY <1>2, <3>1, <3>2
  <2> QED BY <2>1
<1>5. Below({d}) \subseteq {d} \cup Under(d)
  BY <1>1, <1>2, <1>3, <1>4
<1>6. Under(d) \subseteq Below({d})
  <2>1. Inside({d}) \subseteq Inside(Below({d}))
    BY <1>3, InsideFacts
  <2> QED BY <1>2, <1>3, <2>1
<1> QED BY <1>2, <1>3, <1>5, <1>6

(* What is below a set is below one of its members. *)
LEMMA BelowSome ==
    ASSUME LinksOK, NEW S \in SUBSET Paths0, NEW x \in Below(S)
    PROVE  \E e \in S : x \in Below({e})
<1> DEFINE T == {y \in Paths0 : \E e \in S : y \in Below({e})}
<1>1. S \subseteq T
  BY BelowOne
<1>2. ASSUME NEW y \in Inside(T) PROVE y \in T
  <2>1. PICK z \in T : y \in Inside({z})
    <3> HIDE DEF T
    <3> QED BY <1>2, InsideOne, Zenon
  <2>2. PICK e \in S : z \in Below({e})
    BY <2>1
  <2>3. Inside(Below({e})) \subseteq Below({e}) /\ Inside({z}) \subseteq Inside(Below({e}))
    BY <2>2, InsideFacts, BelowFacts
  <2>4. y \in Paths0
    BY InsideFacts
  <2> QED BY <2>1, <2>3, <2>4
<1>3. Below(S) \subseteq T
  <2> HIDE DEF T
  <2>1. T \in SUBSET Paths0
    BY DEF T
  <2> QED BY <1>1, <1>2, <2>1, BelowFacts
<1> QED BY <1>3

(* A cycle that is below a directory is below one that it has in it. *)
LEMMA WindingDown ==
    ASSUME LinksOK, NEW d \in Paths0, Winding(d)
    PROVE  \E e \in Inside({d}) : Winding(e) /\ Inside({e}) # {}
<1>1. PICK x \in Below({d}) : x \in Under(x)
  BY DEF Winding
<1>2. x \in Under(d)
  BY <1>1, BelowOne
<1>3. PICK e \in Inside({d}) : x \in Below({e})
  <2>1. Inside({d}) \in SUBSET Paths0 /\ x \in Below(Inside({d}))
    BY <1>2, InsideFacts DEF Under
  <2> QED BY <2>1, BelowSome, Zenon
<1>4. Winding(e)
  BY <1>1, <1>3 DEF Winding
<1>5. ASSUME Inside({e}) = {} PROVE FALSE
  <2>1. e \in Paths0
    BY <1>3, InsideFacts, Zenon
  <2>2. Under(e) = {}
    <3>1. {} \in SUBSET Paths0 /\ Inside({}) = {}
      BY InsideFacts
    <3>2. Below({}) \subseteq {}
      BY <3>1, BelowFacts
    <3> QED BY <1>5, <3>2 DEF Under
  <2> QED BY <1>1, <1>3, <2>1, <2>2, BelowOne
<1> QED BY <1>4, <1>5

(* One element more. *)
LEMMA OneMore ==
    ASSUME NEW S, IsFiniteSet(S), NEW x
    PROVE  /\ IsFiniteSet(S \cup {x}) /\ Cardinality(S \cup {x}) \in Nat
           /\ Cardinality(S \cup {x}) <= Cardinality(S) + 1
<1>1. /\ IsFiniteSet(S \cup {x})
      /\ Cardinality(S \cup {x}) = IF x \in S THEN Cardinality(S) ELSE Cardinality(S) + 1
  BY FS_AddElement
<1>2. Cardinality(S) \in Nat
  BY FS_CardinalityType
<1> QED BY <1>1, <1>2

(* The directories above an entry.                                         *)
LEMMA AboveFinite ==
    ASSUME NEW e
    PROVE  /\ IsFiniteSet(Above(e)) /\ Above(e) \subseteq Folders
           /\ IsFiniteSet(Folders) /\ Cardinality(Above(e)) \in Nat
           /\ Cardinality(Dirs) \in Nat /\ Cardinality(Folders) <= Cardinality(Dirs) + 2
<1>1. IsFiniteSet(Folders) /\ IsFiniteSet(Dirs)
  <2>1. Folders \subseteq Nodes /\ Dirs \subseteq Nodes /\ IsFiniteSet(Nodes)
    BY DirectoriesAssumption DEF Folders, Nodes
  <2> QED BY <2>1, FS_Subset
<1>2. Above(e) \subseteq Folders
  BY DEF Above
<1>3. IsFiniteSet(Above(e)) /\ Cardinality(Above(e)) \in Nat
  BY <1>1, <1>2, FS_Subset, FS_CardinalityType
<1> DEFINE D == Dirs \cup {Runtime}
<1>4. /\ IsFiniteSet(D) /\ Cardinality(D) \in Nat
      /\ Cardinality(D) <= Cardinality(Dirs) + 1 /\ Cardinality(Dirs) \in Nat
  BY <1>1, OneMore, FS_CardinalityType
<1>5. Folders = D \cup {Elsewhere}
  BY DEF Folders
<1> HIDE DEF D
<1>6. Cardinality(D \cup {Elsewhere}) \in Nat /\ Cardinality(D \cup {Elsewhere}) <= Cardinality(D) + 1
  BY <1>4, OneMore
<1> QED BY <1>1, <1>2, <1>3, <1>4, <1>5, <1>6

(* Without a cycle a directory is not above itself, so that not all of the *)
(* directories are above it.                                               *)
LEMMA AboveFew ==
    ASSUME LinksOK, ~Cyclic, NEW d \in Folders \cap Below({Runtime})
    PROVE  /\ d \notin Above(d) /\ Cardinality(Above(d)) \in Nat
           /\ Cardinality(Dirs) \in Nat
           /\ Cardinality(Above(d)) <= Cardinality(Dirs) + 1
<1>1. d \notin Above(d)
  BY DEF Cyclic, Under, Above
<1>2. /\ IsFiniteSet(Above(d)) /\ Above(d) \subseteq Folders /\ Cardinality(Above(d)) \in Nat
      /\ IsFiniteSet(Folders)
      /\ Cardinality(Dirs) \in Nat /\ Cardinality(Folders) <= Cardinality(Dirs) + 2
  BY AboveFinite
<1>3. /\ Cardinality(Above(d) \cup {d}) = Cardinality(Above(d)) + 1
      /\ Cardinality(Above(d) \cup {d}) <= Cardinality(Folders)
      /\ Cardinality(Folders) \in Nat
  <2>1. Above(d) \cup {d} \subseteq Folders
    BY <1>2
  <2> QED BY <1>1, <1>2, <2>1, FS_AddElement, FS_Subset, FS_CardinalityType
<1> QED BY <1>1, <1>2, <1>3

(* The directories above an entry are those above the directory it is in,  *)
(* and that one.                                                           *)
LEMMA AboveChild ==
    ASSUME LinksOK, ~Cyclic, NEW d \in Folders \cap Below({Runtime}), NEW e \in Inside({d})
    PROVE  /\ Cardinality(Above(d)) \in Nat /\ Cardinality(Above(e)) \in Nat
           /\ Cardinality(Above(d)) + 1 <= Cardinality(Above(e))
<1>1. Folders \subseteq Paths0
  BY DEF Folders, Nodes, Paths0
<1>2. Above(d) \cup {d} \subseteq Above(e)
  <2>1. e \in Under(d)
    BY <1>1, BelowOne
  <2>2. ASSUME NEW y \in Above(d) PROVE e \in Under(y)
    <3>1. y \in Folders /\ d \in Under(y)
      BY DEF Above
    <3>2. Inside(Under(y)) \subseteq Under(y)
      BY <1>1, <3>1, BelowOne
    <3>3. Inside({d}) \subseteq Inside(Under(y))
      BY <3>1, InsideFacts
    <3> QED BY <3>2, <3>3
  <2> QED BY <2>1, <2>2 DEF Above
<1>3. /\ IsFiniteSet(Above(d)) /\ IsFiniteSet(Above(e)) /\ d \notin Above(d)
      /\ Cardinality(Above(d)) \in Nat /\ Cardinality(Above(e)) \in Nat
  BY AboveFinite, AboveFew
<1>4. /\ Cardinality(Above(d) \cup {d}) = Cardinality(Above(d)) + 1
      /\ Cardinality(Above(d) \cup {d}) <= Cardinality(Above(e))
  BY <1>2, <1>3, FS_AddElement, FS_Subset
<1> QED BY <1>3, <1>4

(* A call is opened inside of the first one, which has less to look into. *)
LEMMA Pushed ==
    ASSUME NEW S, NEW st \in Seq(S), st # <<>>, NEW C \in S, NEW A \in S
    PROVE  LET u == <<C, A>> \o Tail(st)
           IN  /\ u \in Seq(S) /\ u # <<>> /\ Len(u) = Len(st) + 1
               /\ Len(st) \in Nat /\ Len(st) >= 1
               /\ u[1] = C /\ u[2] = A /\ Head(st) = st[1]
               /\ \A i \in 2 .. Len(st) : u[i + 1] = st[i]
<1> DEFINE t == Tail(st)
           h == <<C, A>>
<1>1. /\ t \in Seq(S) /\ Len(t) = Len(st) - 1 /\ Len(st) \in Nat /\ Len(st) >= 1
      /\ Head(st) = st[1]
      /\ \A j \in 1 .. Len(t) : t[j] = st[j + 1]
  BY HeadTailProperties, EmptySeq, LenProperties
<1>2. h \in Seq(S) /\ Len(h) = 2 /\ h[1] = C /\ h[2] = A
  OBVIOUS
<1> HIDE DEF t, h
<1>3. /\ h \o t \in Seq(S) /\ Len(h \o t) = 2 + Len(t)
      /\ \A j \in 1 .. 2 + Len(t) : (h \o t)[j] = IF j <= 2 THEN h[j] ELSE t[j - 2]
  <2>1. /\ h \o t \in Seq(S) /\ Len(h \o t) = Len(h) + Len(t)
        /\ \A j \in 1 .. Len(h) + Len(t) :
              (h \o t)[j] = IF j <= Len(h) THEN h[j] ELSE t[j - Len(h)]
    BY <1>1, <1>2, ConcatProperties, Zenon
  <2> QED BY <1>2, <2>1
<1>4. (h \o t)[1] = C /\ (h \o t)[2] = A /\ Len(h \o t) = Len(st) + 1
  BY <1>1, <1>2, <1>3
<1>5. ASSUME NEW i \in 2 .. Len(st) PROVE (h \o t)[i + 1] = st[i]
  <2>1. i + 1 \in 1 .. 2 + Len(t) /\ ~(i + 1 <= 2) /\ i + 1 - 2 = i - 1 /\ i - 1 \in 1 .. Len(t) /\ i - 1 + 1 = i
    BY <1>1
  <2>2. (h \o t)[i + 1] = t[i - 1]
    BY <1>3, <2>1
  <2>3. t[i - 1] = st[i]
    BY <1>1, <2>1
  <2> QED BY <2>2, <2>3
<1>6. h \o t # <<>>
  BY <1>1, <1>3, <1>4
<1> QED BY <1>1, <1>3, <1>4, <1>5, <1>6 DEF t, h

(* A directory that is listed leaves to look into what was left to look    *)
(* into, without it, and the directories in it.                            *)
LEMMA WaitingPushed ==
    ASSUME NEW st \in Seq(SUBSET Folders), st # <<>>, NEW C \in SUBSET Folders, NEW d
    PROVE  LET u == <<C, Head(st) \ {d}>> \o Tail(st)
           IN  /\ C \subseteq Waiting(u) /\ Waiting(u) \subseteq C \cup Waiting(st)
               /\ Waiting(st) \ {d} \subseteq Waiting(u)
               /\ Head(st) \subseteq Waiting(st)
<1> DEFINE A == Head(st) \ {d}
           u == <<C, A>> \o Tail(st)
           n == Len(st)
<1>1. /\ n \in Nat /\ n >= 1 /\ Len(u) = n + 1 /\ u[1] = C /\ u[2] = A /\ Head(st) = st[1]
      /\ \A i \in 2 .. n : u[i + 1] = st[i]
  <2>1. A \in SUBSET Folders
    BY HeadTailProperties
  <2> HIDE DEF A
  <2> QED BY <2>1, Pushed
<1>2. /\ \A x : x \in Waiting(st) <=> \E i \in 1 .. n : x \in st[i]
      /\ \A x : x \in Waiting(u) <=> \E i \in 1 .. Len(u) : x \in u[i]
  BY DEF Waiting
<1>3. A \subseteq Head(st) /\ Head(st) \ {d} \subseteq A
  OBVIOUS
<1> HIDE DEF u, A, n
<1>4. ASSUME NEW x \in Waiting(u) PROVE x \in C \cup Waiting(st)
  <2>1. PICK i \in 1 .. n + 1 : x \in u[i]
    BY <1>1, <1>2
  <2>2. CASE i = 1
    BY <1>1, <2>1, <2>2
  <2>3. CASE i = 2
    <3>1. x \in st[1] /\ 1 \in 1 .. n
      BY <1>1, <1>3, <2>1, <2>3
    <3> QED BY <1>2, <3>1
  <2>4. CASE i # 1 /\ i # 2
    <3>1. i - 1 \in 2 .. n /\ i - 1 \in 1 .. n /\ i - 1 + 1 = i
      BY <1>1, <2>1, <2>4
    <3>2. x \in st[i - 1]
      BY <1>1, <2>1, <3>1
    <3> QED BY <1>2, <3>1, <3>2
  <2> QED BY <2>2, <2>3, <2>4
<1>5. ASSUME NEW x \in Waiting(st), x # d PROVE x \in Waiting(u)
  <2>1. PICK i \in 1 .. n : x \in st[i]
    BY <1>2
  <2>2. CASE i = 1
    <3>1. x \in u[2] /\ 2 \in 1 .. Len(u)
      BY <1>1, <1>3, <1>5, <2>1, <2>2
    <3> QED BY <1>2, <3>1
  <2>3. CASE i # 1
    <3>1. i \in 2 .. n /\ i + 1 \in 1 .. Len(u)
      BY <1>1, <2>1, <2>3
    <3>2. x \in u[i + 1]
      BY <1>1, <2>1, <3>1
    <3> QED BY <1>2, <3>1, <3>2
  <2> QED BY <2>2, <2>3
<1>6. C \subseteq Waiting(u) /\ Head(st) \subseteq Waiting(st)
  <2>1. 1 \in 1 .. n /\ 1 \in 1 .. Len(u)
    BY <1>1
  <2> QED BY <1>1, <1>2, <2>1
<1> QED BY <1>4, <1>5, <1>6 DEF u, A

(* What is in a directory is a directory itself or has nothing in it.      *)
LEMMA OnlyFolders ==
    ASSUME LinksOK, TreeOK, NEW d \in Nodes, NEW e \in Inside({d})
    PROVE  /\ IsDirectory(e) => e \in Folders
           /\ Inside({e}) # {} => IsDirectory(e)
<1>1. /\ Folders \cap Links = {} /\ Nowhere \notin Nodes
      /\ Folders \subseteq Nodes /\ Links \subseteq Nodes
  BY DirectoriesAssumption DEF Folders, Nodes
<1>2. PICK m \in Nodes : e = RealPath(m)
  BY DEF Inside
<1>3. e \notin Links
  BY <1>1, <1>2 DEF RealPath, Follow, LinksOK
<1>4. Follow(e) = e
  BY <1>3 DEF Follow
<1>5. ASSUME Inside({e}) # {} PROVE IsDirectory(e)
  <2>1. PICK k \in Nodes : parent[k] = e /\ e # Nowhere
    BY <1>5 DEF Inside
  <2>2. e \in Folders /\ Exists(e)
    BY <2>1 DEF TreeOK
  <2> QED BY <1>4, <2>2 DEF IsDirectory, Folders
<1> QED BY <1>4, <1>5 DEF IsDirectory, Folders

(* DirectoryList, in a directory that has no path to nothing: it leaves no *)
(* cycle behind, and each directory in it is one call deeper.              *)
LEMMA ListedOn ==
    ASSUME LinksOK, TreeOK, NEW st, NEW li, Listing(st, li), NEW d \in Head(st),
           Nowhere \notin Inside({d})
    PROVE  LET C == {n \in Inside({d}) : IsDirectory(n)}
               u == <<C, Head(st) \ {d}>> \o Tail(st)
           IN  /\ Listing(u, li \cup Inside({d}))
               /\ Len(u) > Cardinality(Dirs) + 3 => Cyclic
<1> DEFINE F == Inside({d})
           C == {n \in F : IsDirectory(n)}
           A == Head(st) \ {d}
           u == <<C, A>> \o Tail(st)
           n == Len(st)
<1>1. /\ st \in Seq(SUBSET Folders) /\ st # <<>>
      /\ Waiting(st) \subseteq Below({Runtime})
      /\ li \subseteq Under(Runtime) /\ Nowhere \notin li
      /\ \A x \in li \cup {Runtime} : x \in Waiting(st) \/ Inside({x}) \subseteq li
      /\ Cyclic => \E x \in Waiting(st) : Winding(x)
      /\ ~Cyclic => \A i \in 1 .. n : \A e \in st[i] : Cardinality(Above(e)) >= n - i
  BY DEF Listing
<1>2. Head(st) \in SUBSET Folders /\ d \in Folders
  BY <1>1, HeadTailProperties
<1>3. Folders \subseteq Nodes /\ Folders \subseteq Paths0 /\ Runtime \in Folders
  BY DEF Folders, Nodes, Paths0
<1>4. /\ \A e \in F : IsDirectory(e) => e \in Folders
      /\ \A e \in F : Inside({e}) # {} => IsDirectory(e)
  BY <1>2, <1>3, OnlyFolders
<1>5. C \in SUBSET Folders
  BY <1>4
<1>6. /\ C \subseteq Waiting(u) /\ Waiting(u) \subseteq C \cup Waiting(st)
      /\ Waiting(st) \ {d} \subseteq Waiting(u)
      /\ Head(st) \subseteq Waiting(st)
  <2> HIDE DEF C
  <2> QED BY <1>1, <1>5, WaitingPushed
<1>7. /\ u \in Seq(SUBSET Folders) /\ u # <<>> /\ Len(u) = n + 1
      /\ n \in Nat /\ n >= 1
      /\ u[1] = C /\ u[2] = A /\ Head(st) = st[1]
      /\ \A i \in 2 .. n : u[i + 1] = st[i]
  <2>1. A \in SUBSET Folders
    BY <1>2
  <2> HIDE DEF A, C
  <2> QED BY <1>1, <1>5, <2>1, Pushed
<1>8. d \in Below({Runtime}) /\ d \in Waiting(st)
  BY <1>1, <1>6
<1>9. F \subseteq Below({Runtime}) /\ F \subseteq Under(Runtime)
  <2>1. /\ Inside(Below({Runtime})) \subseteq Below({Runtime})
        /\ Inside({d}) \subseteq Inside(Below({Runtime}))
    <3>1. {Runtime} \in SUBSET Paths0
      BY <1>3
    <3> QED BY <1>8, <3>1, BelowFacts, InsideFacts
  <2>2. /\ Below({Runtime}) \subseteq {Runtime} \cup Under(Runtime)
        /\ Inside({Runtime}) \subseteq Under(Runtime)
        /\ Inside(Under(Runtime)) \subseteq Under(Runtime)
    BY <1>3, BelowOne
  <2>3. d \in Under(Runtime) => Inside({d}) \subseteq Inside(Under(Runtime))
    BY InsideFacts
  <2> QED BY <1>8, <2>1, <2>2, <2>3
<1>10. Nowhere \notin F
  OBVIOUS
<1>c. \A x \in C : x \in F
  OBVIOUS
<1>d. \A x \in F : x \in C \/ Inside({x}) = {}
  BY <1>4
<1>a. A \subseteq st[1]
  BY <1>7
<1> HIDE DEF F, C, A, u, n
<1>11. \A x \in (li \cup F) \cup {Runtime} : x \in Waiting(u) \/ Inside({x}) \subseteq li \cup F
  BY <1>1, <1>6, <1>d DEF F
<1>12. Cyclic => \E x \in Waiting(u) : Winding(x)
  <2>1. ASSUME Cyclic PROVE \E x \in Waiting(u) : Winding(x)
    <3>1. PICK w \in Waiting(st) : Winding(w)
      BY <1>1, <2>1
    <3>2. CASE w # d
      BY <1>6, <3>1, <3>2
    <3>3. CASE w = d
      <4>1. \E e \in F : Winding(e) /\ Inside({e}) # {}
        BY <1>2, <1>3, <3>1, <3>3, WindingDown DEF F
      <4> QED BY <1>6, <1>d, <4>1
    <3> QED BY <3>2, <3>3
  <2> QED BY <2>1
<1>13. ASSUME ~Cyclic
       PROVE  /\ n <= Cardinality(Dirs) + 2 /\ Cardinality(Dirs) \in Nat
              /\ \A i \in 1 .. n + 1 : \A e \in u[i] : Cardinality(Above(e)) >= n + 1 - i
  <2>1. \A i \in 1 .. n : \A e \in st[i] : Cardinality(Above(e)) >= n - i
    BY <1>1, <1>13
  <2>2. Cardinality(Above(d)) >= n - 1
    BY <1>7, <2>1
  <2>3. \A e \in F : /\ Cardinality(Above(d)) \in Nat /\ Cardinality(Above(e)) \in Nat
                     /\ Cardinality(Above(d)) + 1 <= Cardinality(Above(e))
    BY <1>2, <1>8, <1>13, AboveChild DEF F
  <2>4. n <= Cardinality(Dirs) + 2 /\ Cardinality(Dirs) \in Nat
    <3>1. /\ Cardinality(Above(d)) \in Nat /\ Cardinality(Dirs) \in Nat
          /\ Cardinality(Above(d)) <= Cardinality(Dirs) + 1
      BY <1>2, <1>8, <1>13, AboveFew
    <3> QED BY <1>7, <2>2, <3>1
  <2>5. ASSUME NEW i \in 1 .. n + 1, NEW e \in u[i]
        PROVE  Cardinality(Above(e)) >= n + 1 - i
    <3>1. CASE i = 1
      <4>1. e \in F
        BY <1>7, <1>c, <2>5, <3>1
      <4> QED BY <1>7, <2>2, <2>3, <3>1, <4>1
    <3>2. CASE i = 2
      <4>1. e \in st[1] /\ 1 \in 1 .. n
        BY <1>7, <1>a, <2>5, <3>2
      <4>2. Cardinality(Above(e)) >= n - 1
        BY <2>1, <4>1
      <4> QED BY <1>7, <3>2, <4>2
    <3>3. CASE i # 1 /\ i # 2
      <4>1. i - 1 \in 2 .. n /\ i - 1 \in 1 .. n /\ i - 1 + 1 = i /\ n - (i - 1) = n + 1 - i
        BY <1>7, <3>3
      <4>2. u[i] = st[i - 1]
        BY <1>7, <4>1
      <4>3. Cardinality(Above(e)) >= n - (i - 1)
        BY <2>1, <2>5, <4>1, <4>2
      <4> QED BY <4>1, <4>3
    <3> QED BY <3>1, <3>2, <3>3
  <2> QED BY <2>4, <2>5
<1>14. Listing(u, li \cup F)
  <2>1. Waiting(u) \subseteq Below({Runtime})
    BY <1>1, <1>6, <1>9, <1>c
  <2>2. li \cup F \subseteq Under(Runtime) /\ Nowhere \notin li \cup F
    BY <1>1, <1>9, <1>10
  <2>3. ~Cyclic => \A i \in 1 .. Len(u) : \A e \in u[i] : Cardinality(Above(e)) >= Len(u) - i
    BY <1>7, <1>13
  <2> QED BY <1>7, <1>11, <1>12, <2>1, <2>2, <2>3 DEF Listing
<1>15. Len(u) > Cardinality(Dirs) + 3 => Cyclic
  BY <1>7, <1>13
<1> QED BY <1>14, <1>15 DEF u, C, A, F

(* A directory that has been looked through leaves the calls around it.    *)
LEMMA ListedThrough ==
    ASSUME LinksOK, NEW st, NEW li, Listing(st, li), Head(st) = {}
    PROVE  IF Tail(st) = <<>>
             THEN li = Under(Runtime) /\ Nowhere \notin li /\ ~Cyclic
             ELSE Listing(Tail(st), li)
<1> DEFINE t == Tail(st)
           n == Len(st)
<1>1. /\ st \in Seq(SUBSET Folders) /\ st # <<>>
      /\ Waiting(st) \subseteq Below({Runtime})
      /\ li \subseteq Under(Runtime) /\ Nowhere \notin li
      /\ \A x \in li \cup {Runtime} : x \in Waiting(st) \/ Inside({x}) \subseteq li
      /\ Cyclic => \E x \in Waiting(st) : Winding(x)
      /\ ~Cyclic => \A i \in 1 .. n : \A e \in st[i] : Cardinality(Above(e)) >= n - i
  BY DEF Listing
<1>2. /\ t \in Seq(SUBSET Folders) /\ Len(t) = n - 1 /\ n \in Nat /\ n >= 1
      /\ st[1] = {}
      /\ \A j \in 1 .. Len(t) : t[j] = st[j + 1]
  BY <1>1, HeadTailProperties, EmptySeq, LenProperties
<1>3. /\ \A x : x \in Waiting(st) <=> \E i \in 1 .. n : x \in st[i]
      /\ \A x : x \in Waiting(t) <=> \E i \in 1 .. Len(t) : x \in t[i]
  BY DEF Waiting
<1>e. t = <<>> => Len(t) = 0
  <2>1. Len(<<>>) = 0
    OBVIOUS
  <2> QED BY <2>1, Zenon
<1> HIDE DEF t, n
<1>4. ASSUME NEW x PROVE x \in Waiting(st) <=> x \in Waiting(t)
  <2>1. ASSUME NEW i \in 1 .. n, x \in st[i] PROVE x \in Waiting(t)
    <3>1. i - 1 \in 1 .. Len(t) /\ i - 1 + 1 = i
      BY <1>2, <2>1
    <3>2. x \in t[i - 1]
      BY <1>2, <2>1, <3>1
    <3> QED BY <1>3, <3>1, <3>2
  <2>2. ASSUME NEW i \in 1 .. Len(t), x \in t[i] PROVE x \in Waiting(st)
    <3>1. i + 1 \in 1 .. n /\ x \in st[i + 1]
      BY <1>2, <2>2
    <3> QED BY <1>3, <3>1
  <2> QED BY <1>3, <2>1, <2>2
<1>5. CASE t = <<>>
  <2>1. \A x : x \notin Waiting(st)
    BY <1>2, <1>3, <1>4, <1>5, <1>e
  <2>2. ~Cyclic /\ \A x \in li \cup {Runtime} : Inside({x}) \subseteq li
    BY <1>1, <2>1
  <2>3. Runtime \in Paths0 /\ Inside({Runtime}) \in SUBSET Paths0 /\ Under(Runtime) \in SUBSET Paths0
    BY InsideFacts, BelowOne DEF Paths0, Nodes
  <2>4. Inside(li) \subseteq li
    <3>1. ASSUME NEW x \in Inside(li) PROVE x \in li
      <4>1. \E d \in li : x \in Inside({d})
        BY <3>1, InsideOne
      <4> QED BY <2>2, <4>1
    <3> QED BY <3>1
  <2>5. Under(Runtime) \subseteq li
    <3>1. li \in SUBSET Paths0 /\ Inside({Runtime}) \subseteq li
      BY <1>1, <2>2, <2>3
    <3> QED BY <2>3, <2>4, <3>1, BelowFacts DEF Under
  <2>6. li = Under(Runtime) /\ Nowhere \notin li
    BY <1>1, <2>5, Zenon
  <2> QED BY <1>5, <2>2, <2>6, Zenon DEF t
<1>6. CASE t # <<>>
  <2>1. Waiting(t) \subseteq Below({Runtime})
    BY <1>1, <1>4
  <2>2. \A x \in li \cup {Runtime} : x \in Waiting(t) \/ Inside({x}) \subseteq li
    BY <1>1, <1>4
  <2>3. Cyclic => \E x \in Waiting(t) : Winding(x)
    BY <1>1, <1>4
  <2>4. ASSUME ~Cyclic, NEW i \in 1 .. Len(t), NEW e \in t[i]
        PROVE  Cardinality(Above(e)) >= Len(t) - i
    <3>1. i + 1 \in 1 .. n /\ e \in st[i + 1] /\ n - (i + 1) = Len(t) - i
      BY <1>2, <2>4
    <3>2. Cardinality(Above(e)) >= n - (i + 1)
      BY <1>1, <2>4, <3>1
    <3> QED BY <3>1, <3>2
  <2>5. Listing(t, li)
    BY <1>1, <1>2, <1>6, <2>1, <2>2, <2>3, <2>4 DEF Listing
  <2> QED BY <1>6, <2>5 DEF t
<1> QED BY <1>5, <1>6

(* What is found depends on the tree and on the links only.                *)
LEMMA SameTree ==
    ASSUME UNCHANGED <<parent, target>>
    PROVE  /\ \A S : Inside(S)' = Inside(S)
           /\ \A S : Below(S)' = Below(S)
           /\ \A d : Under(d)' = Under(d)
           /\ \A d : Winding(d)' <=> Winding(d)
           /\ \A d : Above(d)' = Above(d)
           /\ Cyclic' <=> Cyclic
           /\ TreeOK' <=> TreeOK
           /\ LinksOK' <=> LinksOK
<1>1. \A S : Inside(S)' = Inside(S)
  BY DEF Inside, RealPath, Exists, Follow
<1>2. \A S : Below(S)' = Below(S)
  BY <1>1 DEF Below
<1>3. \A d : Under(d)' = Under(d)
  BY <1>1, <1>2 DEF Under
<1>4. \A d : Winding(d)' <=> Winding(d)
  BY <1>2, <1>3 DEF Winding
<1>5. \A d : Above(d)' = Above(d)
  BY <1>2, <1>3 DEF Above
<1>6. Cyclic' <=> Cyclic
  BY <1>1, <1>2 DEF Cyclic
<1>7. (TreeOK' <=> TreeOK) /\ (LinksOK' <=> LinksOK)
  BY DEF TreeOK, LinksOK, Exists
<1> QED BY <1>1, <1>2, <1>3, <1>4, <1>5, <1>6, <1>7

(* ... and so does how far DirectoryList is.                               *)
LEMMA SameListing ==
    ASSUME UNCHANGED <<parent, target>>, Listing(stack', listed')
    PROVE  Listing(stack, listed)'
<1>1. /\ \A d : Inside({d})' = Inside({d})
      /\ Below({Runtime})' = Below({Runtime}) /\ Under(Runtime)' = Under(Runtime)
      /\ \A d : Winding(d)' <=> Winding(d)
      /\ \A d : Above(d)' = Above(d)
      /\ Cyclic' <=> Cyclic
  BY SameTree
<1> QED BY <1>1 DEF Listing, Waiting

(* SanitizeRuntime calls DirectoryList for runtime/.                       *)
LEMMA ListingStarts ==
    ASSUME LinksOK PROVE Listing(<<{Runtime}>>, {})
<1> DEFINE st == <<{Runtime}>>
<1>1. Runtime \in Folders /\ Runtime \in Paths0
  BY DEF Folders, Paths0, Nodes
<1>2. st \in Seq(SUBSET Folders) /\ st # <<>> /\ Len(st) = 1 /\ st[1] = {Runtime}
  BY <1>1
<1> HIDE DEF st
<1>3. Waiting(st) = {Runtime}
  BY <1>2 DEF Waiting
<1>4. Runtime \in Below({Runtime})
  BY <1>1, BelowOne
<1>5. Cyclic => Winding(Runtime)
  BY DEF Cyclic, Winding, Under
<1>6. \A i \in 1 .. Len(st) : \A e \in st[i] : Cardinality(Above(e)) >= Len(st) - i
  <2>1. ASSUME NEW i \in 1 .. Len(st), NEW e \in st[i]
        PROVE  Cardinality(Above(e)) >= Len(st) - i
    <3>1. Cardinality(Above(e)) \in Nat
      BY AboveFinite
    <3> QED BY <1>2, <3>1
  <2> QED BY <2>1
<1>7. Listing(st, {})
  BY <1>2, <1>3, <1>4, <1>5, <1>6 DEF Listing
<1> QED BY <1>7 DEF st

(* What is written to runtime/ before the library starts is written in     *)
(* directories that are there.                                             *)
LEMMA TreeGrows ==
    ASSUME TreeOK, LinksOK, parent \in [Nodes -> Paths0],
           NEW n \in Nodes, NEW d \in Nodes, Create(n, d)
    PROVE  TreeOK' /\ LinksOK' /\ (parent \in [Nodes -> Paths0])'
<1>1. /\ ~Exists(n) /\ Exists(d) /\ d \in Folders /\ d # n
      /\ parent' = [parent EXCEPT ![n] = d]
  BY DEF Create, Folders
<1>2. \A m \in Nodes : parent'[m] = IF m = n THEN d ELSE parent[m]
  BY <1>1
<1>3. \A m \in Folders : m \in Nodes
  BY DEF Folders, Nodes
<1>4. ASSUME NEW m \in Nodes, Exists(m) PROVE m = Elsewhere \/ parent'[m] # Nowhere
  <2>1. m # n /\ parent'[m] = parent[m]
    BY <1>1, <1>2, <1>4
  <2> QED BY <1>4, <2>1 DEF Exists
<1>5. TreeOK'
  <2>1. ASSUME NEW m \in Nodes, parent'[m] # Nowhere
        PROVE  /\ parent'[m] \in Folders
               /\ parent'[m] = Elsewhere \/ parent'[parent'[m]] # Nowhere
    <3>1. CASE m = n
      BY <1>1, <1>2, <1>4, <3>1
    <3>2. CASE m # n
      <4>1. parent'[m] = parent[m] /\ parent[m] \in Folders /\ Exists(parent[m])
        BY <1>2, <2>1, <3>2 DEF TreeOK
      <4> QED BY <1>3, <1>4, <4>1
    <3> QED BY <3>1, <3>2
  <2> QED BY <2>1 DEF TreeOK, Exists
<1>6. (parent \in [Nodes -> Paths0])'
  BY <1>1 DEF Paths0
<1>7. LinksOK'
  <2>1. PICK to \in (Nodes \cup {Nowhere}) \ Links :
           target' = [l \in Links |-> IF l = n THEN to ELSE target[l]]
    BY DEF Create
  <2> QED BY <2>1 DEF LinksOK, Paths0
<1> QED BY <1>5, <1>6, <1>7

(* DirectoryList goes on, or it ends badly.                                *)
LEMMA DirectoryListKeeps ==
    ASSUME DirectoryInv, NEW d \in Nodes, DirectoryList(d) PROVE DirectoryInv'
<1> DEFINE F == Inside({d})
           C == {n \in F : IsDirectory(n)}
           u == <<C, Head(stack) \ {d}>> \o Tail(stack)
<1>1. /\ sanitizing = "list" /\ stack # <<>> /\ d \in Head(stack)
      /\ UNCHANGED <<parent, target, todelete, deleted>>
  BY DEF DirectoryList
<1>2. /\ LinksOK /\ TreeOK /\ Listing(stack, listed) /\ deleted = {}
      /\ parent \in [Nodes -> Paths0]
  BY <1>1 DEF DirectoryInv
<1>3. {RealPath(n) : n \in Entries(d)} = F
  BY DirectoriesAssumption DEF Inside, Entries, Nodes
<1>4. /\ Nowhere \in F => sanitizing' = "exception" /\ UNCHANGED <<stack, listed>>
      /\ Nowhere \notin F => /\ listed' = listed \cup F /\ stack' = u
                             /\ sanitizing' = IF Len(stack') > Cardinality(Dirs) + 3
                                                THEN "overflow" ELSE "list"
  <2> HIDE DEF F
  <2> QED BY <1>3 DEF DirectoryList
<1> HIDE DEF F
<1>5. LinksOK' /\ TreeOK' /\ (parent \in [Nodes -> Paths0])' /\ deleted' = {}
  BY <1>1, <1>2, SameTree
<1>6. CASE Nowhere \in F
  <2>1. Nowhere \in Below({Runtime})
    <3>1. {Runtime} \in SUBSET Paths0
      BY DEF Paths0, Nodes
    <3>2. stack \in Seq(SUBSET Folders) /\ Waiting(stack) \subseteq Below({Runtime})
      BY <1>2 DEF Listing
    <3>3. d \in Below({Runtime})
      BY <1>1, <3>2, WaitingPushed
    <3>4. Inside({d}) \subseteq Inside(Below({Runtime}))
      BY <1>2, <3>3, InsideFacts
    <3> QED BY <1>2, <1>6, <3>1, <3>4, BelowFacts DEF F
  <2>2. Below({Runtime})' = Below({Runtime})
    BY <1>1, SameTree
  <2>3. sanitizing' = "exception"
    BY <1>4, <1>6
  <2> QED BY <1>5, <2>1, <2>2, <2>3 DEF DirectoryInv, SanitizeExact
<1>7. CASE Nowhere \notin F
  <2>1. Listing(u, listed \cup F) /\ (Len(u) > Cardinality(Dirs) + 3 => Cyclic)
    BY <1>1, <1>2, <1>7, ListedOn DEF F
  <2>2. Listing(stack, listed)'
    <3>1. stack' = u /\ listed' = listed \cup F
      BY <1>4, <1>7
    <3> HIDE DEF u
    <3>2. Listing(stack', listed')
      BY <2>1, <3>1
    <3> QED BY <1>1, <3>2, SameListing
  <2>3. sanitizing' = "list" \/ (sanitizing' = "overflow" /\ Cyclic)
    BY <1>4, <1>7, <2>1
  <2>4. Cyclic' <=> Cyclic
    BY <1>1, SameTree
  <2> QED BY <1>5, <2>2, <2>3, <2>4 DEF DirectoryInv, SanitizeExact
<1> QED BY <1>6, <1>7

(* DirectoryList returns, in the end with all that is below runtime/.      *)
LEMMA ListReturnsKeeps ==
    ASSUME DirectoryInv, ListReturns PROVE DirectoryInv'
<1>1. /\ sanitizing = "list" /\ Head(stack) = {} /\ stack' = Tail(stack)
      /\ sanitizing' = IF Tail(stack) = <<>> THEN "delete" ELSE "list"
      /\ todelete' = IF Tail(stack) = <<>> THEN listed ELSE {}
      /\ UNCHANGED <<parent, target, listed, deleted>>
  BY DEF ListReturns
<1>2. /\ LinksOK /\ TreeOK /\ Listing(stack, listed) /\ deleted = {}
      /\ parent \in [Nodes -> Paths0]
  BY <1>1 DEF DirectoryInv
<1>3. LinksOK' /\ TreeOK' /\ (parent \in [Nodes -> Paths0])' /\ deleted' = {}
  BY <1>1, <1>2, SameTree
<1>4. CASE Tail(stack) = <<>>
  <2>1. listed = Under(Runtime) /\ Nowhere \notin listed /\ ~Cyclic
    BY <1>1, <1>2, <1>4, ListedThrough
  <2>2. listed' = Under(Runtime)' /\ Nowhere \notin listed' /\ ~Cyclic'
    BY <1>1, <2>1, SameTree
  <2>3. sanitizing' = "delete" /\ todelete' = listed'
    BY <1>1, <1>4
  <2> QED BY <1>3, <2>2, <2>3 DEF DirectoryInv, SanitizeExact, Under
<1>5. CASE Tail(stack) # <<>>
  <2>1. Listing(stack', listed')
    BY <1>1, <1>2, <1>5, ListedThrough
  <2>2. Listing(stack, listed)'
    BY <1>1, <2>1, SameListing
  <2>3. sanitizing' = "list"
    BY <1>1, <1>5
  <2> QED BY <1>3, <2>2, <2>3 DEF DirectoryInv, SanitizeExact
<1> QED BY <1>4, <1>5

(* Delete, of a file or of what unlink() does not delete.                  *)
LEMMA DeleteKeeps ==
    ASSUME DirectoryInv, NEW n \in Nodes, Delete(n) PROVE DirectoryInv'
<1>1. /\ sanitizing = "delete" /\ n \in todelete /\ todelete' = todelete \ {n}
      /\ sanitizing' = IF todelete' = {} THEN "done" ELSE "delete"
      /\ UNCHANGED <<target, stack, listed>>
      /\ n \in PlainFiles => /\ parent' = [parent EXCEPT ![n] = Nowhere]
                             /\ deleted' = deleted \cup {n}
      /\ n \notin PlainFiles => UNCHANGED <<parent, deleted>>
  BY DEF Delete
<1>2. /\ LinksOK /\ parent \in [Nodes -> Paths0]
      /\ todelete \subseteq listed /\ deleted = (listed \ todelete) \cap PlainFiles
      /\ deleted = {} => listed = Under(Runtime) /\ Nowhere \notin listed /\ ~Cyclic
  BY <1>1 DEF DirectoryInv, SanitizeExact, Under
<1>3. LinksOK' /\ (parent \in [Nodes -> Paths0])'
  BY <1>1, <1>2 DEF LinksOK, Paths0
<1>4. todelete' \subseteq listed' /\ deleted' = (listed' \ todelete') \cap PlainFiles
  BY <1>1, <1>2
<1>5. deleted' = {} => listed' = Under(Runtime)' /\ Nowhere \notin listed' /\ ~Cyclic'
  <2>1. ASSUME deleted' = {} PROVE UNCHANGED <<parent, target>> /\ deleted = {}
    BY <1>1, <2>1
  <2> QED BY <1>1, <1>2, <2>1, SameTree
<1>6. todelete' = {} => deleted' = listed' \cap PlainFiles
  BY <1>4
<1>7. sanitizing' = "delete" \/ (sanitizing' = "done" /\ todelete' = {})
  BY <1>1
<1> QED BY <1>3, <1>4, <1>5, <1>6, <1>7 DEF DirectoryInv, SanitizeExact, Under

(* Every step of SanitizeRuntime keeps the invariant.                      *)
LEMMA DirectoryStep ==
    ASSUME DirectoryInv, [DirectoryNext]_DirectoryVars PROVE DirectoryInv'
<1>1. ASSUME NEW n \in Nodes, NEW d \in Nodes, Create(n, d) PROVE DirectoryInv'
  <2>1. sanitizing = "no" /\ UNCHANGED <<stack, listed, sanitizing, todelete, deleted>>
    BY <1>1 DEF Create
  <2>2. /\ TreeOK /\ LinksOK /\ deleted = {} /\ listed = {}
        /\ parent \in [Nodes -> Paths0]
    BY <2>1 DEF DirectoryInv
  <2>3. TreeOK' /\ LinksOK' /\ (parent \in [Nodes -> Paths0])'
    BY <1>1, <2>2, TreeGrows
  <2> QED BY <2>1, <2>2, <2>3 DEF DirectoryInv, SanitizeExact
<1>2. ASSUME MakeDirectory PROVE DirectoryInv'
  <2>1. /\ sanitizing = "no" /\ sanitizing' = "done"
        /\ parent' = [parent EXCEPT ![Runtime] = Elsewhere]
        /\ UNCHANGED <<target, stack, listed, todelete, deleted>>
    BY <1>2 DEF MakeDirectory
  <2>2. deleted = {} /\ listed = {} /\ LinksOK /\ parent \in [Nodes -> Paths0]
    BY <2>1 DEF DirectoryInv
  <2>3. LinksOK' /\ (parent \in [Nodes -> Paths0])'
    BY <2>1, <2>2 DEF LinksOK, Paths0, Nodes
  <2> QED BY <2>1, <2>2, <2>3 DEF DirectoryInv, SanitizeExact
<1>3. ASSUME SanitizeRuntime PROVE DirectoryInv'
  <2>1. /\ sanitizing = "no" /\ stack' = <<{Runtime}>> /\ sanitizing' = "list"
        /\ UNCHANGED <<parent, target, listed, todelete, deleted>>
    BY <1>3 DEF SanitizeRuntime
  <2>2. /\ TreeOK /\ LinksOK /\ deleted = {} /\ listed = {}
        /\ parent \in [Nodes -> Paths0]
    BY <2>1 DEF DirectoryInv
  <2>3. /\ LinksOK' /\ TreeOK' /\ (parent \in [Nodes -> Paths0])'
        /\ deleted' = {} /\ listed' = {}
    BY <2>1, <2>2, SameTree
  <2>4. Listing(<<{Runtime}>>, {})
    BY <2>2, ListingStarts
  <2>5. Listing(stack, listed)'
    <3>1. Listing(stack', listed')
      BY <2>1, <2>3, <2>4, Zenon
    <3> QED BY <2>1, <3>1, SameListing
  <2> QED BY <2>1, <2>3, <2>5 DEF DirectoryInv, SanitizeExact
<1>4. ASSUME DeleteNothing PROVE DirectoryInv'
  <2>1. /\ sanitizing = "delete" /\ todelete = {} /\ sanitizing' = "done"
        /\ UNCHANGED <<parent, target, stack, listed, todelete, deleted>>
    BY <1>4 DEF DeleteNothing
  <2>2. /\ deleted = listed \cap PlainFiles /\ LinksOK /\ parent \in [Nodes -> Paths0]
    BY <2>1 DEF DirectoryInv
  <2>3. LinksOK'
    BY <2>1, <2>2, SameTree
  <2> QED BY <2>1, <2>2, <2>3 DEF DirectoryInv, SanitizeExact
<1>5. ASSUME UNCHANGED DirectoryVars PROVE DirectoryInv'
  <2>1. UNCHANGED <<parent, target, stack, listed, sanitizing, todelete, deleted>>
    BY <1>5 DEF DirectoryVars
  <2>2. sanitizing = "list" => Listing(stack, listed)'
    <3>1. ASSUME sanitizing = "list" PROVE Listing(stack, listed)'
      <4>1. Listing(stack', listed')
        BY <2>1, <3>1 DEF DirectoryInv
      <4> QED BY <2>1, <4>1, SameListing
    <3> QED BY <3>1
  <2>3. /\ (LinksOK' <=> LinksOK) /\ (TreeOK' <=> TreeOK) /\ (Cyclic' <=> Cyclic)
        /\ Below(Inside({Runtime}))' = Below(Inside({Runtime}))
        /\ Below({Runtime})' = Below({Runtime})
    <3>1. Under(Runtime)' = Under(Runtime)
      BY <2>1, SameTree
    <3> QED BY <2>1, <3>1, SameTree DEF Under
  <2> QED BY <2>1, <2>2, <2>3 DEF DirectoryInv, SanitizeExact
<1> QED
  BY <1>1, <1>2, <1>3, <1>4, <1>5, DirectoryListKeeps, ListReturnsKeeps, DeleteKeeps
  DEF DirectoryNext

(* SanitizeRuntime deletes the files below runtime/ and those that links   *)
(* below it lead to, all of them and nothing else, or it ends badly before *)
(* it has deleted anything, for every tree (ModuleHandler.cpp:296-301,     *)
(* File.cpp:392, :410-412).                                                *)
THEOREM SanitizedExactly == DirectorySpec => []SanitizeExact
<1>1. DirectoryInit => DirectoryInv
  <2> SUFFICES ASSUME DirectoryInit PROVE DirectoryInv
    OBVIOUS
  <2>1. /\ \A n \in Nodes : parent[n] = Nowhere
        /\ parent \in [Nodes -> Paths0] /\ LinksOK
    BY DirectoriesAssumption DEF DirectoryInit, LinksOK, Paths0, Nodes
  <2>2. TreeOK
    BY <2>1 DEF TreeOK
  <2>3. sanitizing = "no" /\ deleted = {} /\ listed = {}
    BY DEF DirectoryInit
  <2> QED BY <2>1, <2>2, <2>3 DEF DirectoryInv, SanitizeExact
<1>2. DirectoryInv /\ [DirectoryNext]_DirectoryVars => DirectoryInv'
  BY DirectoryStep
<1>3. DirectoryInv => SanitizeExact
  BY DEF DirectoryInv
<1> QED BY <1>1, <1>2, <1>3, PTL DEF DirectorySpec

-----------------------------------------------------------------------------
(* Sockets, for any number of sockets, descriptors and nested callbacks.   *)
(* What a socket says of itself is in its flags, what is true of it in the *)
(* kernel's link; they meet in the rule that an attempt which neither      *)
(* succeeded nor was reported still has its answer, or the error, in the   *)
(* kernel.  Two sockets must not share a descriptor for that.              *)
Kinds == {"none", "connection", "listener", "client"}

SocketTypeOK ==
    /\ kind \in [Socks -> Kinds]
    /\ sock_fd \in [Socks -> Fds \cup {NoFd}]
    /\ Flag_Values \in [Socks -> SUBSET Nat]
    /\ openFds \subseteq Fds /\ refused \subseteq Fds
    /\ link \in [Fds -> {"idle", "pending", "up", "failed"}]

(* An object that is gone has no descriptor. *)
GoneOK == \A s \in Socks : kind[s] = "none" => sock_fd[s] = NoFd

(* s was neither connected nor told of an error. *)
Unknown(s) == kind[s] = "connection" /\ s \notin reached \cup told

(* The answer to an attempt that nobody knows the end of is not lost. *)
AttemptOK ==
    \A s \in Socks : Unknown(s) /\ Has(s, SS_CONNECTING) =>
       sock_fd[s] # NoFd /\ link[sock_fd[s]] \in {"pending", "failed"}

SocketInv == SocketTypeOK /\ GoneOK /\ DescriptorsOwned /\ ConnectHonest /\ AttemptOK

-----------------------------------------------------------------------------
(* The bits of the states that are stored where their number says, and the *)
(* bit that the flags of the multiplexer share.                            *)
LEMMA BitsOfStates ==
    /\ Bit(SS_DEAD) = 2 /\ Bit(SS_CONNECTING) = 8 /\ Bit(SS_CONNECTED) = 16
    /\ Bit(MX_WRITABLE) = 0 /\ Bit(MX_READABLE) = 0
<1>1. CASE WordBits = 32
  BY <1>1 DEF Bit, SS_DEAD, SS_CONNECTING, SS_CONNECTED, MX_WRITABLE, MX_READABLE
<1>2. CASE WordBits = 64
  BY <1>2 DEF Bit, SS_DEAD, SS_CONNECTING, SS_CONNECTED, MX_WRITABLE, MX_READABLE
<1> QED BY <1>1, <1>2, FlagsAssumption

(* Every flag is stored at a bit, which is a number. *)
LEMMA BitsAreNumbers == \A n \in Nat : Bit(n) \in Nat
BY FlagsAssumption DEF Bit

(* Descriptors are numbers, and NoFd is not one of them. *)
LEMMA NoFdIsNone == NoFd \notin Fds
BY SocketsAssumption DEF NoFd

(* What an object knows of its connection is its class, its two flags, its *)
(* descriptor's link and the two histories: a step that leaves these to a  *)
(* socket, or tells the world more of it, leaves it honest.                *)
Same(s) ==
    /\ kind'[s] = kind[s] /\ sock_fd'[s] = sock_fd[s]
    /\ sock_fd[s] # NoFd => link'[sock_fd[s]] = link[sock_fd[s]]
    /\ Has(s, SS_CONNECTED)' => Has(s, SS_CONNECTED)
    /\ Has(s, SS_CONNECTING)' => Has(s, SS_CONNECTING)
    /\ s \in reached \cup told => s \in reached' \cup told'

(* The two statements about connections, of one socket. *)
HonestAt(s) ==
    /\ Unknown(s) => ~Has(s, SS_CONNECTED)
    /\ Unknown(s) /\ Has(s, SS_CONNECTING) =>
          sock_fd[s] # NoFd /\ link[sock_fd[s]] \in {"pending", "failed"}

(* Together they are what the invariant says of connections. *)
LEMMA HonestByParts == ConnectHonest /\ AttemptOK <=> \A s \in Socks : HonestAt(s)
BY DEF ConnectHonest, AttemptOK, HonestAt, Unknown

(* A step that a socket has no part in keeps its honesty. *)
LEMMA SameIsHonest == \A s \in Socks : HonestAt(s) /\ Same(s) => HonestAt(s)'
BY DEF HonestAt, Same, Unknown

-----------------------------------------------------------------------------
(* The ownership of descriptors and the types, under the four things that  *)
(* a step can do to them.                                                  *)
OwnInv ==
    /\ sock_fd \in [Socks -> Fds \cup {NoFd}]
    /\ openFds \subseteq Fds /\ refused \subseteq Fds
    /\ GoneOK /\ DescriptorsOwned

(* A constructor that is given a free descriptor, or none, owns it. *)
LEMMA OwnsConstructed ==
    ASSUME OwnInv, NEW s \in Socks, NEW k \in Kinds \ {"none"},
           NEW fd \in LowestFree \cup {NoFd}, NEW flags, Construct(s, k, fd, flags),
           Opened(fd), refused' = refused, kind \in [Socks -> Kinds]
    PROVE  OwnInv'
<1>1. fd \in Fds \ openFds \/ fd = NoFd
  BY DEF LowestFree
<1>2. /\ sock_fd' \in [Socks -> Fds \cup {NoFd}] /\ sock_fd[s] = NoFd
      /\ sock_fd'[s] = fd /\ \A c \in Socks \ {s} : sock_fd'[c] = sock_fd[c]
  BY <1>1 DEF OwnInv, Construct, Live, GoneOK
<1>3. /\ kind'[s] # "none" /\ \A c \in Socks \ {s} : kind'[c] = kind[c]
  BY DEF Construct
<1>4. openFds' = openFds \cup ({fd} \ {NoFd}) /\ openFds' \subseteq Fds
  BY <1>1 DEF Opened, OwnInv
<1>5. GoneOK'
  BY <1>2, <1>3 DEF GoneOK, OwnInv
<1>6. (\A c \in Socks : sock_fd[c] # NoFd => sock_fd[c] \in openFds) /\ refused \subseteq openFds
  BY DEF OwnInv, DescriptorsOwned
<1>7. openFds' = refused' \cup ({sock_fd'[c] : c \in Socks} \ {NoFd})
  <2>1. openFds = refused \cup ({sock_fd[c] : c \in Socks} \ {NoFd})
    BY DEF OwnInv, DescriptorsOwned
  <2>2. {sock_fd'[c] : c \in Socks} \ {NoFd}
        = ({sock_fd[c] : c \in Socks} \ {NoFd}) \cup ({fd} \ {NoFd})
    BY <1>2
  <2> QED BY <1>4, <2>1, <2>2
<1>8. \A c \in Socks : sock_fd'[c] \notin refused'
  BY <1>1, <1>2, <1>6, NoFdIsNone DEF OwnInv, DescriptorsOwned
<1>9. \A c, e \in Socks : c # e /\ sock_fd'[c] = sock_fd'[e] => sock_fd'[c] = NoFd
  BY <1>1, <1>2, <1>6 DEF OwnInv, DescriptorsOwned
<1> QED BY <1>2, <1>4, <1>5, <1>7, <1>8, <1>9 DEF OwnInv, DescriptorsOwned

(* A destructor gives up the descriptor of its socket and no other. *)
LEMMA OwnsClosed ==
    ASSUME OwnInv, NEW s \in Socks, Close(s), refused' = refused, kind \in [Socks -> Kinds]
    PROVE  OwnInv'
<1>1. /\ sock_fd' \in [Socks -> Fds \cup {NoFd}]
      /\ sock_fd'[s] = NoFd /\ \A c \in Socks \ {s} : sock_fd'[c] = sock_fd[c]
  BY DEF OwnInv, Close
<1>2. \A c \in Socks \ {s} : kind'[c] = kind[c]
  BY DEF Close
<1>3. openFds' = openFds \ {sock_fd[s]} /\ openFds' \subseteq Fds
  BY DEF Close, OwnInv
<1>4. GoneOK'
  BY <1>1, <1>2 DEF GoneOK, OwnInv
<1>5. openFds' = refused' \cup ({sock_fd'[c] : c \in Socks} \ {NoFd})
  <2>1. openFds = refused \cup ({sock_fd[c] : c \in Socks} \ {NoFd}) /\ sock_fd[s] \notin refused
    BY DEF OwnInv, DescriptorsOwned
  <2>2. {sock_fd'[c] : c \in Socks} \ {NoFd} = ({sock_fd[c] : c \in Socks} \ {NoFd}) \ {sock_fd[s]}
    BY <1>1 DEF OwnInv, DescriptorsOwned
  <2> QED BY <1>3, <2>1, <2>2
<1>6. \A c \in Socks : sock_fd'[c] \notin refused'
  BY <1>1, NoFdIsNone DEF OwnInv, DescriptorsOwned
<1>7. \A c, e \in Socks : c # e /\ sock_fd'[c] = sock_fd'[e] => sock_fd'[c] = NoFd
  BY <1>1 DEF OwnInv, DescriptorsOwned
<1> QED BY <1>1, <1>3, <1>4, <1>5, <1>6, <1>7 DEF OwnInv, DescriptorsOwned

(* A descriptor that OnAccept did not want is refused and nobody's. *)
LEMMA OwnsRefused ==
    ASSUME OwnInv, NEW fd \in LowestFree, Opened(fd), refused' = refused \cup {fd},
           UNCHANGED <<kind, sock_fd>>
    PROVE  OwnInv'
<1>1. fd \in Fds \ openFds /\ fd # NoFd
  BY NoFdIsNone DEF LowestFree
<1>2. openFds' = openFds \cup {fd}
  BY <1>1 DEF Opened
<1>3. \A c \in Socks : sock_fd[c] # NoFd => sock_fd[c] \in openFds
  BY DEF OwnInv, DescriptorsOwned
<1>4. \A c \in Socks : sock_fd'[c] \notin refused'
  BY <1>1, <1>3 DEF OwnInv, DescriptorsOwned
<1> QED BY <1>1, <1>2, <1>4 DEF OwnInv, DescriptorsOwned, GoneOK

(* Every other step leaves descriptors alone. *)
LEMMA OwnsUnchanged ==
    ASSUME OwnInv, UNCHANGED <<kind, sock_fd, openFds, refused>> PROVE OwnInv'
BY DEF OwnInv, DescriptorsOwned, GoneOK

-----------------------------------------------------------------------------
(* The rest of the types: flags and the kernel's links. *)
RestTypeOK ==
    /\ kind \in [Socks -> Kinds]
    /\ Flag_Values \in [Socks -> SUBSET Nat]
    /\ link \in [Fds -> {"idle", "pending", "up", "failed"}]

(* The invariant by its three concerns. *)
LEMMA InvByParts == SocketInv <=> RestTypeOK /\ OwnInv /\ \A s \in Socks : HonestAt(s)
BY HonestByParts DEF SocketInv, SocketTypeOK, RestTypeOK, OwnInv

(* No other socket has the descriptor that a socket has. *)
LEMMA OwnersDiffer ==
    ASSUME OwnInv, NEW s \in Socks, NEW c \in Socks \ {s}, sock_fd[c] # NoFd
    PROVE  sock_fd[c] # sock_fd[s] /\ sock_fd[c] \in Fds /\ sock_fd[c] \in openFds
BY DEF OwnInv, DescriptorsOwned

(* What a constructor writes besides the descriptor: a connection starts   *)
(* with neither of its two flags.                                          *)
LEMMA HonestConstructed ==
    ASSUME RestTypeOK, OwnInv, \A c \in Socks : HonestAt(c), NEW s \in Socks,
           NEW k \in Kinds \ {"none"}, NEW fd, NEW flags \in SUBSET Nat,
           k = "connection" => flags = {}, Construct(s, k, fd, flags), UNCHANGED <<reached, told>>,
           \A e \in openFds : link'[e] = link[e]
    PROVE  /\ kind' \in [Socks -> Kinds]
           /\ Flag_Values' \in [Socks -> SUBSET Nat]
           /\ \A c \in Socks : HonestAt(c)'
<1>1. /\ kind'[s] = k /\ kind' \in [Socks -> Kinds]
      /\ Flag_Values'[s] = SetFlags(SetFlags({}, {MX_READABLE, MX_WRITABLE}), flags)
      /\ \A c \in Socks \ {s} : /\ kind'[c] = kind[c] /\ sock_fd'[c] = sock_fd[c]
                                /\ Flag_Values'[c] = Flag_Values[c]
  BY DEF RestTypeOK, OwnInv, Construct
<1>2. SetFlags(SetFlags({}, {MX_READABLE, MX_WRITABLE}), flags) \in SUBSET Nat
  <2>1. \A n \in flags : Bit(n) \in Nat
    BY BitsAreNumbers
  <2>2. SetFlags({}, {MX_READABLE, MX_WRITABLE}) = {0}
    BY BitsOfStates DEF SetFlags
  <2> QED BY <2>1, <2>2 DEF SetFlags
<1>3. Flag_Values' \in [Socks -> SUBSET Nat]
  BY <1>1, <1>2 DEF RestTypeOK, Construct
<1>4. HonestAt(s)'
  <2>1. CASE k = "connection"
    <3>1. Flag_Values'[s] = {0}
      BY <1>1, <2>1, BitsOfStates DEF SetFlags
    <3> QED BY <3>1 DEF HonestAt, Has, HasFlag, SS_CONNECTED, SS_CONNECTING
  <2>2. CASE k # "connection"
    BY <1>1, <2>2 DEF HonestAt, Unknown
  <2> QED BY <2>1, <2>2
<1>5. \A c \in Socks \ {s} : Same(c)
  <2>1. \A c \in Socks \ {s} : sock_fd[c] # NoFd => sock_fd[c] \in openFds
    BY OwnersDiffer
  <2> QED BY <1>1, <2>1 DEF Same, Has, HasFlag
<1> QED BY <1>1, <1>3, <1>4, <1>5, SameIsHonest

(* What a destructor writes. *)
LEMMA HonestClosed ==
    ASSUME RestTypeOK, OwnInv, \A c \in Socks : HonestAt(c), NEW s \in Socks, Close(s)
    PROVE  RestTypeOK' /\ \A c \in Socks : HonestAt(c)'
<1>1. RestTypeOK'
  BY DEF RestTypeOK, Close, Kinds
<1>2. HonestAt(s)'
  BY DEF Close, HonestAt, Unknown, RestTypeOK
<1>3. ASSUME NEW c \in Socks \ {s} PROVE Same(c)
  <2>1. /\ kind'[c] = kind[c] /\ sock_fd'[c] = sock_fd[c] /\ Flag_Values'[c] = Flag_Values[c]
        /\ (c \in reached \cup told => c \in reached' \cup told')
    BY DEF Close, RestTypeOK, OwnInv
  <2>2. sock_fd[c] # NoFd => link'[sock_fd[c]] = link[sock_fd[c]]
    BY OwnersDiffer DEF Close
  <2> QED BY <2>1, <2>2 DEF Same, Has, HasFlag
<1> QED BY <1>1, <1>2, <1>3, SameIsHonest

(* Reading the error of a socket that is told of it, or that is no         *)
(* connection, hides it from no other socket.                              *)
LEMMA HonestError ==
    ASSUME RestTypeOK, OwnInv, \A c \in Socks : HonestAt(c), NEW s \in Socks, ReadError(s),
           UNCHANGED <<kind, sock_fd, Flag_Values, reached>>, told \subseteq told',
           kind[s] = "connection" => s \in told'
    PROVE  RestTypeOK' /\ \A c \in Socks : HonestAt(c)'
<1>1. RestTypeOK'
  BY DEF RestTypeOK, ReadError
<1>2. HonestAt(s)'
  BY DEF HonestAt, Unknown
<1>3. ASSUME NEW c \in Socks \ {s} PROVE Same(c)
  <2>1. sock_fd[c] # NoFd => link'[sock_fd[c]] = link[sock_fd[c]]
    BY OwnersDiffer DEF ReadError
  <2> QED BY <2>1 DEF Same, Has, HasFlag
<1> QED BY <1>1, <1>2, <1>3, SameIsHonest

-----------------------------------------------------------------------------
(* No callback, constructor, peer or kernel breaks it. *)
LEMMA StepByParts ==
    ASSUME RestTypeOK, OwnInv, \A s \in Socks : HonestAt(s), [SocketNext]_SocketVars
    PROVE  RestTypeOK' /\ OwnInv' /\ \A s \in Socks : HonestAt(s)'
<1> DEFINE Kept == RestTypeOK' /\ OwnInv' /\ \A c \in Socks : HonestAt(c)'
<1>k. kind \in [Socks -> Kinds]
  BY DEF RestTypeOK
<1>1. ASSUME NEW s \in Socks, NewConnection(s) PROVE Kept
  <2>1. PICK fd \in LowestFree \cup {NoFd} : Construct(s, "connection", fd, {}) /\ Opened(fd)
    BY <1>1 DEF NewConnection
  <2>2. UNCHANGED <<link, refused, reached, told>>
    BY <1>1 DEF NewConnection
  <2>3. OwnInv'
    BY <1>k, <2>1, <2>2, OwnsConstructed DEF Kinds
  <2>4. /\ kind' \in [Socks -> Kinds]
        /\ Flag_Values' \in [Socks -> SUBSET Nat] /\ \A c \in Socks : HonestAt(c)'
    BY <2>1, <2>2, HonestConstructed DEF Kinds
  <2> QED BY <2>2, <2>3, <2>4 DEF RestTypeOK
<1>2. ASSUME NEW s \in Socks, NewListener(s) PROVE Kept
  <2>1. PICK fd \in LowestFree \cup {NoFd} : Construct(s, "listener", fd, {}) /\ Opened(fd)
    BY <1>2 DEF NewListener
  <2>2. UNCHANGED <<link, refused, reached, told>>
    BY <1>2 DEF NewListener
  <2>3. OwnInv'
    BY <1>k, <2>1, <2>2, OwnsConstructed DEF Kinds
  <2>4. /\ kind' \in [Socks -> Kinds]
        /\ Flag_Values' \in [Socks -> SUBSET Nat] /\ \A c \in Socks : HonestAt(c)'
    BY <2>1, <2>2, HonestConstructed DEF Kinds
  <2> QED BY <2>2, <2>3, <2>4 DEF RestTypeOK
<1>3. ASSUME NEW s \in Socks, NEW c \in Socks, Accept(s, c) PROVE Kept
  <2>1. PICK fd \in LowestFree : /\ Construct(c, "client", fd, {SS_ACCEPTING, SS_ACCEPTED})
                                 /\ Opened(fd) /\ link' = [link EXCEPT ![fd] = "up"]
    BY <1>3 DEF Accept
  <2>2. UNCHANGED <<refused, reached, told>>
    BY <1>3 DEF Accept
  <2>3. OwnInv'
    BY <1>k, <2>1, <2>2, OwnsConstructed DEF Kinds
  <2>4. {SS_ACCEPTING, SS_ACCEPTED} \in SUBSET Nat
    BY DEF SS_ACCEPTING, SS_ACCEPTED
  <2>5. /\ link' \in [Fds -> {"idle", "pending", "up", "failed"}]
        /\ \A e \in openFds : link'[e] = link[e]
    BY <2>1 DEF LowestFree, RestTypeOK, OwnInv
  <2>6. /\ kind' \in [Socks -> Kinds]
        /\ Flag_Values' \in [Socks -> SUBSET Nat] /\ \A e \in Socks : HonestAt(e)'
    <3> HIDE DEF LowestFree
    <3>1. Construct(c, "client", fd, {SS_ACCEPTING, SS_ACCEPTED})
      BY <2>1
    <3> QED BY <2>2, <2>4, <2>5, <3>1, HonestConstructed DEF Kinds
  <2> QED BY <2>3, <2>5, <2>6 DEF RestTypeOK
<1>4. ASSUME NEW s \in Socks, Destroy(s) \/ ListenFails(s) PROVE Kept
  <2>1. Close(s) /\ refused' = refused
    BY <1>4 DEF Destroy, ListenFails
  <2> QED BY <1>k, <2>1, OwnsClosed, HonestClosed
<1>5. ASSUME NEW s \in Socks, AcceptNull(s) PROVE Kept
  <2>1. PICK fd \in LowestFree : Opened(fd) /\ refused' = refused \cup {fd}
    BY <1>5 DEF AcceptNull
  <2>2. UNCHANGED <<kind, sock_fd, Flag_Values, link, reached, told>>
    BY <1>5 DEF AcceptNull
  <2>3. OwnInv'
    BY <2>1, <2>2, OwnsRefused
  <2>4. \A c \in Socks : Same(c)
    BY <2>2 DEF Same, Has, HasFlag
  <2> QED BY <2>2, <2>3, <2>4, SameIsHonest DEF RestTypeOK
<1>6. ASSUME NEW s \in Socks, ConnectNow(s) PROVE Kept
  <2>1. /\ kind[s] = "connection" /\ sock_fd[s] \in Fds
        /\ link' = [link EXCEPT ![sock_fd[s]] = "up"]
        /\ Flag_Values' = [Flag_Values EXCEPT ![s] = SetFlag(@, SS_CONNECTED)]
        /\ reached' = reached \cup {s} /\ UNCHANGED <<kind, sock_fd, openFds, refused, told>>
    BY <1>6 DEF ConnectNow, OwnInv
  <2>2. RestTypeOK'
    BY <2>1, BitsOfStates DEF RestTypeOK, SetFlag
  <2>3. OwnInv'
    BY <2>1, OwnsUnchanged
  <2>4. HonestAt(s)'
    BY <2>1 DEF HonestAt, Unknown
  <2>5. ASSUME NEW c \in Socks \ {s} PROVE Same(c)
    <3>1. sock_fd[c] # NoFd => link'[sock_fd[c]] = link[sock_fd[c]]
      BY <2>1, OwnersDiffer DEF RestTypeOK
    <3> QED BY <2>1, <3>1 DEF Same, Has, HasFlag, RestTypeOK
  <2> QED BY <2>2, <2>3, <2>4, <2>5, SameIsHonest
<1>7. ASSUME NEW s \in Socks, ConnectInProgress(s) PROVE Kept
  <2>1. /\ kind[s] = "connection" /\ sock_fd[s] # NoFd /\ sock_fd[s] \in Fds
        /\ link' = [link EXCEPT ![sock_fd[s]] = "pending"]
        /\ Flag_Values' = [Flag_Values EXCEPT ![s] = SetFlags(@, {SS_CONNECTING, MX_WRITABLE})]
        /\ told' = IF Has(s, SS_CONNECTED) THEN told ELSE told \ {s}
        /\ UNCHANGED <<kind, sock_fd, openFds, refused, reached>>
    BY <1>7 DEF ConnectInProgress, OwnInv
  <2>2. Flag_Values' = [Flag_Values EXCEPT ![s] = @ \cup {8, 0}]
    <3>1. {Bit(Value) : Value \in {SS_CONNECTING, MX_WRITABLE}} = {8, 0}
      BY BitsOfStates
    <3> QED BY <2>1, <3>1 DEF SetFlags
  <2>3. RestTypeOK'
    <3>1. Flag_Values[s] \cup {8, 0} \in SUBSET Nat
      BY DEF RestTypeOK
    <3>2. Flag_Values' \in [Socks -> SUBSET Nat]
      BY <2>2, <3>1 DEF RestTypeOK
    <3> QED BY <2>1, <3>2 DEF RestTypeOK
  <2>4. OwnInv'
    BY <2>1, OwnsUnchanged
  <2>5. HonestAt(s)'
    <3>1. sock_fd'[s] # NoFd /\ link'[sock_fd'[s]] = "pending"
      BY <2>1 DEF RestTypeOK
    <3>2. Has(s, SS_CONNECTED)' <=> Has(s, SS_CONNECTED)
      <4>1. Flag_Values'[s] = Flag_Values[s] \cup {8, 0}
        BY <2>2 DEF RestTypeOK
      <4> QED BY <4>1 DEF Has, HasFlag, SS_CONNECTED
    <3>3. Unknown(s)' /\ Has(s, SS_CONNECTED) => Unknown(s)
      BY <2>1 DEF Unknown
    <3> QED BY <3>1, <3>2, <3>3 DEF HonestAt
  <2>6. ASSUME NEW c \in Socks \ {s} PROVE Same(c)
    <3>1. sock_fd[c] # NoFd => link'[sock_fd[c]] = link[sock_fd[c]]
      BY <2>1, OwnersDiffer DEF RestTypeOK
    <3> QED BY <2>1, <3>1 DEF Same, Has, HasFlag, RestTypeOK
  <2> QED BY <2>3, <2>4, <2>5, <2>6, SameIsHonest
<1>8. ASSUME NEW s \in Socks, ConnectFails(s) \/ EventFailed(s) \/ MultiplexError(s) PROVE Kept
  <2>1. /\ ReadError(s) /\ told \subseteq told' /\ (kind[s] = "connection" => s \in told')
        /\ UNCHANGED <<kind, sock_fd, Flag_Values, openFds, refused, reached>>
    BY <1>8 DEF ConnectFails, EventFailed, MultiplexError
  <2> QED BY <2>1, OwnsUnchanged, HonestError
<1>9. ASSUME NEW s \in Socks, EventEstablished(s) PROVE Kept
  <2>1. /\ Has(s, SS_CONNECTING) /\ link[sock_fd[s]] \notin {"pending", "failed"}
        /\ Flag_Values' = [Flag_Values EXCEPT
                             ![s] = SetFlag(RemoveFlag(@, SS_CONNECTING), SS_CONNECTED)]
        /\ UNCHANGED <<kind, sock_fd, openFds, link, refused, reached, told>>
    BY <1>9 DEF EventEstablished, Connecting, Ready
  <2>2. RestTypeOK'
    BY <2>1, BitsOfStates DEF RestTypeOK, SetFlag, RemoveFlag
  <2>3. OwnInv'
    BY <2>1, OwnsUnchanged
  <2>4. HonestAt(s)'
    <3>1. ~Unknown(s)
      BY <2>1 DEF HonestAt
    <3> QED BY <2>1, <3>1 DEF HonestAt, Unknown
  <2>5. \A c \in Socks \ {s} : Same(c)
    BY <2>1 DEF Same, Has, HasFlag, RestTypeOK
  <2> QED BY <2>2, <2>3, <2>4, <2>5, SameIsHonest
<1>10. ASSUME NEW s \in Socks, EventTooEarly(s) PROVE Kept
  <2>1. /\ Flag_Values' = [Flag_Values EXCEPT ![s] = @ \cup {2}]
        /\ UNCHANGED <<kind, sock_fd, openFds, link, refused, reached, told>>
    BY <1>10, BitsOfStates DEF EventTooEarly, SetFlag
  <2>2. RestTypeOK'
    BY <2>1 DEF RestTypeOK
  <2>3. \A c \in Socks : Same(c)
    BY <2>1 DEF Same, Has, HasFlag, RestTypeOK, SS_CONNECTED, SS_CONNECTING
  <2> QED BY <2>1, <2>2, <2>3, SameIsHonest, OwnsUnchanged
<1>11. ASSUME NEW s \in Socks, ClientEvent(s) PROVE Kept
  <2>1. /\ kind[s] = "client"
        /\ UNCHANGED <<kind, sock_fd, openFds, link, refused, reached, told>>
    BY <1>11 DEF ClientEvent
  <2>2. /\ Flag_Values' \in [Socks -> SUBSET Nat]
        /\ \A c \in Socks \ {s} : Flag_Values'[c] = Flag_Values[c]
    <3>1. Bit(SS_ACCEPTED) \in Nat /\ Bit(SS_DEAD) \in Nat
      BY BitsAreNumbers DEF SS_ACCEPTED, SS_DEAD
    <3> QED BY <1>11, <3>1 DEF ClientEvent, RestTypeOK, SetFlag, RemoveFlag
  <2>3. HonestAt(s)'
    BY <2>1 DEF HonestAt, Unknown
  <2>4. \A c \in Socks \ {s} : Same(c)
    BY <2>1, <2>2 DEF Same, Has, HasFlag
  <2> QED BY <2>1, <2>2, <2>3, <2>4, SameIsHonest, OwnsUnchanged DEF RestTypeOK
<1>12. CASE CallbackReturns
  <2>1. /\ \A s \in Socks : Flag_Values'[s] \in {Flag_Values[s], Flag_Values[s] \cup {2}}
        /\ Flag_Values' \in [Socks -> SUBSET Nat]
        /\ UNCHANGED <<kind, sock_fd, openFds, link, refused, reached, told>>
    BY <1>12, BitsOfStates DEF CallbackReturns, SetFlag, RestTypeOK
  <2>2. \A c \in Socks : Same(c)
    BY <2>1 DEF Same, Has, HasFlag, SS_CONNECTED, SS_CONNECTING
  <2> QED BY <2>1, <2>2, SameIsHonest, OwnsUnchanged DEF RestTypeOK
<1>13. ASSUME NEW fd \in Fds, KernelAnswers(fd) PROVE Kept
  <2>1. PICK answer \in {"up", "failed"} :
           /\ link' = [link EXCEPT ![fd] = answer]
           /\ reached' = reached \cup {s \in Socks : sock_fd[s] = fd /\ answer = "up"}
    BY <1>13 DEF KernelAnswers
  <2>2. UNCHANGED <<kind, sock_fd, Flag_Values, openFds, refused, told>>
    BY <1>13 DEF KernelAnswers
  <2>3. RestTypeOK'
    BY <2>1, <2>2 DEF RestTypeOK
  <2>4. ASSUME NEW c \in Socks PROVE HonestAt(c)'
    <3>1. CASE sock_fd[c] = fd
      BY <2>1, <2>2, <3>1 DEF HonestAt, Unknown, RestTypeOK, Has, HasFlag
    <3>2. CASE sock_fd[c] # fd
      <4>1. Same(c)
        BY <2>1, <2>2, <3>2 DEF Same, RestTypeOK, OwnInv, Has, HasFlag
      <4> QED BY <4>1, SameIsHonest
    <3> QED BY <3>1, <3>2
  <2> QED BY <2>2, <2>3, <2>4, OwnsUnchanged
<1>14. ASSUME NEW fd \in Fds, PeerResets(fd) PROVE Kept
  <2>1. /\ link[fd] = "up" /\ link' = [link EXCEPT ![fd] = "failed"]
        /\ UNCHANGED <<kind, sock_fd, Flag_Values, openFds, refused, reached, told>>
    BY <1>14 DEF PeerResets
  <2>2. RestTypeOK'
    BY <2>1 DEF RestTypeOK
  <2>3. \A c \in Socks : HonestAt(c)'
    BY <2>1 DEF HonestAt, Unknown, Has, HasFlag, RestTypeOK, OwnInv
  <2> QED BY <2>1, <2>2, <2>3, OwnsUnchanged
<1>15. ASSUME \/ \E s \in Socks : BindAndListen(s)
              \/ OtherProcess
              \/ UNCHANGED SocketVars
       PROVE  Kept
  <2>1. UNCHANGED <<kind, sock_fd, Flag_Values, openFds, link, refused, reached, told>>
    BY <1>15 DEF BindAndListen, OtherProcess, SocketVars
  <2>2. \A c \in Socks : Same(c)
    BY <2>1 DEF Same, Has, HasFlag
  <2> QED BY <2>1, <2>2, SameIsHonest, OwnsUnchanged DEF RestTypeOK
<1> QED
  BY <1>1, <1>2, <1>3, <1>4, <1>5, <1>6, <1>7, <1>8, <1>9, <1>10, <1>11, <1>12, <1>13, <1>14,
     <1>15 DEF SocketNext

(* The same of the invariant. *)
LEMMA SocketStep == SocketInv /\ [SocketNext]_SocketVars => SocketInv'
<1> SUFFICES ASSUME SocketInv, [SocketNext]_SocketVars PROVE SocketInv'
  OBVIOUS
<1>1. RestTypeOK /\ OwnInv /\ \A s \in Socks : HonestAt(s)
  BY InvByParts
<1>2. RestTypeOK' /\ OwnInv' /\ \A s \in Socks : HonestAt(s)'
  BY <1>1, StepByParts
<1>3. (ConnectHonest /\ AttemptOK)'
  BY <1>2 DEF ConnectHonest, AttemptOK, HonestAt, Unknown
<1> QED BY <1>2, <1>3 DEF SocketInv, SocketTypeOK, RestTypeOK, OwnInv

(* The invariant holds from the start. *)
LEMMA SocketStart == SocketInit => SocketInv
<1> SUFFICES ASSUME SocketInit PROVE SocketInv
  OBVIOUS
<1>1. {sock_fd[s] : s \in Socks} \ {NoFd} = {}
  BY DEF SocketInit
<1>2. \A s \in Socks : HonestAt(s)
  BY DEF SocketInit, HonestAt, Unknown
<1>3. RestTypeOK
  BY DEF SocketInit, RestTypeOK, Kinds
<1>4. OwnInv
  BY <1>1 DEF SocketInit, OwnInv, GoneOK, DescriptorsOwned
<1> QED BY <1>2, <1>3, <1>4, InvByParts

(* However constructors, destructors and callbacks nest, each open         *)
(* descriptor belongs to exactly one socket, or is one that OnAccept       *)
(* refused (Socket.cpp:99-121, :297, :317).                                *)
THEOREM EachDescriptorOwned == SocketSpec => []DescriptorsOwned
<1>1. SocketInv => DescriptorsOwned
  BY DEF SocketInv
<1> QED BY <1>1, SocketStart, SocketStep, PTL DEF SocketSpec

(* A connection that says it is connected was connected, unless OnError    *)
(* said otherwise before: an error that was never reported still waits in  *)
(* the kernel for the event that would call the attempt a success          *)
(* (Socket.cpp:164, :184).                                                 *)
THEOREM ConnectedIsHonest == SocketSpec => []ConnectHonest
<1>1. SocketInv => ConnectHonest
  BY DEF SocketInv
<1> QED BY <1>1, SocketStart, SocketStep, PTL DEF SocketSpec

=============================================================================
