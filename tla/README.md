# libjustasic in TLA+

A verification development for libjustasic, a C++/C support library: a thread
pool, timers, a message channel, a loader of modules, sockets, files, strings
and configuration. The modules here are translated from the source, TLC checks
them on small instances, and TLAPS proves, for every instance, the safety
properties of all the components that are modelled (section 4), and that the
thread engine implements its abstract specification. Everything that keeps state across calls has a
module; what computes a value from its arguments mostly has not (section 5). Paths below are relative to the repository's root
(`src/Timer.cpp` and so on); `PROJECT.json` names them with one more `src/`.

## 1. Inventory

| component | state it keeps | operations | what is hard | what makes it correct |
|---|---|---|---|---|
| Thread engine (`src/ThreadEngine.cpp`, `include/ThreadEngine.h`) | global queue `funcs`, a thread-local `threadQueue` per thread, mutex `queueLock`, list `Threads`; per worker `wakeThread`, `quitting`, a mutex and a condition variable | AddQueue, Submit, Initialize, Shutdown/JoinThreads, WakeThreads; Main, Sleep, Wake, Join of a worker | wakeups sent without the sleeper's mutex, accesses without `queueLock`, quit racing sleep | no job lost or run twice, FIFO per submission, no sleeper forgotten, Shutdown ends |
| Timers (`src/Timer.cpp`) | the vector `timers`; per timer its deadline, interval, repeat flag | constructor, destructor, TickTimers | the vector changes under the range-for, from the walk itself and from callbacks | every due timer ticks, none that is gone is touched |
| Message channel (`src/MessageChannel.c`, `include/vec.h`) | the vector `_callbacks` | AnnounceMessage, Add-/RemoveMessageListener | listeners call the channel while they are called; any listener may veto | each listener hears each message once |
| Module handler (`src/ModuleHandler.cpp`, `src/Module.cpp`) | the list `Modules`, and per module its handle, dependencies, permanent flag | LoadModule, Unload, DeleteModule, UnloadAll, FindModule, LoadModules | recursion over dependencies in both directions while the list is walked, partial failure | what a loaded module depends on is loaded |
| Event dispatch (`include/ModuleAnnounce.h`) | `EventHandlers`, `eventmux` | FOREACH_MOD, FOREACH_RESULT | re-entrance, exceptions and segmentation faults in handlers, handlers that change the vector | the mutex is released, every handler runs once and in order |
| Sockets (`src/Socket.cpp`, `src/SocketMultiplexer.cpp`) | flags and file descriptor of each socket | Connect, the retry of bind, accept, the Multiplex callbacks, destructors | order of events and errors, retries, callbacks that delete or reconnect the socket | a socket that says it is connected was, descriptors have one owner, attempts and retries end |
| Flags (`include/Utilities.h`) | a bitset of 32 | SetFlag(s), RemoveFlag(s), HasFlag | masks used as indexes | HasFlag answers |
| Utilities (`src/Utilities.cpp`) | ManagedBuffer: a shared counted block; DateTime: an atomic time and a `struct tm` under a shared mutex | copy, assign, Write, AllocateAhead, += and =; SetTime, getters | counting, sizes set past the end, a pointer that outlives its lock | a block lives as long as its owners; a reader sees one time |
| Files (`src/File.cpp`) | descriptor, offset, mode | OpenFile, CopyFile, DirectoryList, Delete, RealPath | short reads and writes, whole numbers of blocks, links | a copy is complete, and only what is below runtime/ is deleted |
| Strings (`include/Flux.h`) | none | find, substr, split, join, replace_all | searching the string that is being changed, termination | replace is split and join |
| Configuration (`src/ConfigurationDriver.cpp`, `src/parser.yy`, `src/scanner.ll`) | the sections, the error flag, the scanner's start condition | Parse, FindSection, GetValue, value_or | a failed parse leaves what it did, several parses on one driver | good() means that what the files say is in force |
| Placeholders (`src/PlaceholderUtil.cpp`) | the table of filters | ProcessString | positions that move as text is replaced | no text is put in twice |
| Dynamic libraries, Log, Exceptions, cvar, build files | none of interest | wrappers of system calls, output, declarations | | |

How they interact: jobs run on worker threads and may use the thread engine
again (AddQueue, Submit). Timer callbacks run inside TickTimers and may
construct and delete timers. Listeners run inside AnnounceMessage and may use
the channel again. The module handler uses files and dynamic libraries, and a
module's constructor and destructor edit the list the handler walks. The
multiplexer calls a socket, which calls back into the application, which
constructs, connects and deletes sockets from there. Event handlers run under
`eventmux`. SanitizeRuntime of the module handler uses the file functions,
ProcessString uses the strings, sockets use Flags: those modules extend each
other. None of timers, channel, module handler and sockets has a lock: they
belong to one thread. The thread engine shares no variable with them. Each
component is therefore a system of its own, and the calls back into it are the
interesting interface; the models have those calls as actions.

The repository has no tests. Its hazards, each at its line with the properties
that cover it, are listed under `hazards` in `PROJECT.json`.

## 2. Modules

| module | models | abstract / detailed | checked by |
|---|---|---|---|
| `JobPool` | what the thread engine promises | abstract specification | through `ThreadEngine` |
| `ThreadEngine` | `src/ThreadEngine.cpp` | implements `JobPool` (`ImplementsJobPool`) | `MCThreadEngine` |
| `ThreadEngine_proofs` | | invariants of `ThreadEngine` | tlapm |
| `ThreadEngine_jobs` | | `JobConservation` and the refinement of `JobPool` | tlapm |
| `TimerHandler` | `src/Timer.cpp` | | `MCTimerHandler`, `MCWalks` |
| `MessageChannel` | `src/MessageChannel.c` | | `MCWalks` |
| `ModuleHandler` | `src/ModuleHandler.cpp`, `src/Module.cpp` | | `MCModuleHandler` |
| `Flags` | the class Flags of `include/Utilities.h` | | through `Sockets` |
| `Sockets` | `src/Socket.cpp`, and the kernel and multiplexer around it | | `MCLibrary` |
| `Events` | `include/ModuleAnnounce.h` | | `MCLibrary` |
| `DateTime`, `ManagedBuffer` | `src/Utilities.cpp` | | `MCLibrary` |
| `Files` | File objects and CopyFile of `src/File.cpp` | | `MCLibrary` |
| `Directories` | SanitizeRuntime and the directory functions it calls | | `MCLibrary` |
| `Configuration` | `src/ConfigurationDriver.cpp`, `src/scanner.ll`, `src/parser.yy` | | `MCLibrary` |
| `Strings` | `include/Flux.h` | replace_all against split and join | `MCLibrary` |
| `Placeholder` | `src/PlaceholderUtil.cpp`, on top of `Strings` | | `MCLibrary` |
| `TimerHandler_proofs`, `MessageChannel_proofs`, `ModuleHandler_proofs` | | theorems about the module of that name | tlapm |
| `Library_proofs` | | theorems about `DateTime`, `ManagedBuffer`, `Events`, `Files`, `Directories` and `Sockets` | tlapm |
| `Texts_proofs` | | theorems about `Configuration`, `Strings` and `Placeholder` | tlapm |
| `SequenceLemmas` | | lemmas about sequences and finite sets that the others cite | tlapm |

`MCLibrary` puts the nine parts from `Sockets` on side by side: they share no
variable, so a behaviour chooses one of them at the start and leaves the others
in their initial states. The states of the run are the sum of the parts' states
and not their product. `MCWalks` does the same with the two lists that
callbacks change while they are walked, the listeners and the timers.

Definitions called "Faulty variant" are plausible bugs that no behaviour of
these specifications takes; `mutants` in `PROJECT.json` puts each in the place
of the real definition to show that a property notices.

### ThreadEngine

Actor 0 is the thread that owns the ThreadHandler, as in the code
(`threadid = 0`), and 1..SpawnCount are the workers. `pc[a]` is where an actor
stands; the header of the module lists the labels. One action is one atomic
step: a lock or unlock, one access to a shared variable, or a step that touches
nothing shared and so may be taken together with one that does.

| code | actions |
|---|---|
| AddQueue | `AddQueue` |
| Submit(false) / Submit(true) | `Submit` then `SubmitLock` / `SubmitLock` alone; a failed `try_lock` changes nothing |
| the loop of Submit, its unlock | `MoveJob`, `SubmitUnlock` |
| WakeThreads and Wake | `WakeSet`, `WakeNotify` per worker, then `SubmitReturn` or `WakeDone` |
| Main | `EnterLoop`, `LeaveLoop`, `LockQueue`, `FindJob`/`FindNoJob`, `PopJob`, `FinishJob` |
| Sleep | `TestWake`, `Block`, `SpuriousWakeup`, `ResetWake` |
| Initialize and the WorkerThread constructor | `Initialize`, `StartWorker`, `PushWorker`, `SpawnDone` |
| Shutdown, JoinThreads, Join, the destructors | `Shutdown`, `SetQuitting`, `QuitDone`, the wake loop, `JoinWorker`, `JoinDone`, `ReapWorker`, `ReapDone` |

A running job (`pc[w] = "app"` of a worker) may bind and submit jobs itself.
The owner calls Initialize only on a handler without workers and is the only
one to call Initialize and Shutdown; the code asks for the first (a second call
would add a second set of workers under the same numbers) and its comments
assume the second.

`wakeThread` is a plain `bool` that Wake writes and Sleep reads without a
common lock. Its accesses are single interleaved steps here: the calls around
each access (mutex, condition variable) are opaque to a compiler, so a build
performs each once. The condition variable is the set of workers at
`"blocked"`: notify_all returns those to the predicate, and a spurious wakeup
may at any time. The window that matters is `"block"`, between the predicate
and the wait.

Abstractions: a job is a member of `Jobs`, bound at most once; `Threads` is a
set, because workers are pushed, walked and removed in the order of their
numbers (`At`); the mutex of a worker is not a variable because only its worker
takes it.

### JobPool

Bind, Submit in one step, Take in FIFO order, Finish, Exit, Open, Close. The
refinement places the effect of a Submit at its lock: what the moving thread
still holds is abstractly at the end of the shared queue already.

### TimerHandler

The vector is its buffer `slots` up to capacity and its size `len`, because a
range-for walks addresses: erase moves elements down and leaves the old last
slot readable, and a push_back at capacity moves to a new buffer (`moved`).
`cur` and `last` are the iterators the walk fetched. `it` is the body's copy of
the pointer. When the walk is about to use freed memory (`UsesFreed`) it either
reads something harmless there and goes on, or anything follows (`undefined`,
where the model stops). The clock advances at any time, also inside a Tick.
`due`, `ticked`, `expired` and `meddled` only remember, for the properties.
The constructor takes any `time_t`, and so does `Construct`: a repeating timer
with an interval that is zero or negative is due whenever it is looked at, and
if the vector changes under the walk it may be ticked twice in one walk
(`TickedOnce` says when). Assumed are a clock that is not set back, as
`time(NULL)` may be, and an application that does not call TickTimers from a
Tick.
A one-shot timer's deadline is absolute and a repeating one's an interval, as
the constructor has it (`src/Timer.cpp:33`; the comment at `include/Timer.h:43`
says the reverse).

### MessageChannel

The stack of AnnounceMessage frames is explicit; each frame has the loop index
and the `stop` of the code, and the registration or removal it precedes, which
is carried out when its announcement ends without a veto. vec_foreach reads the
length before each call, hence `CallListener` compares with the current vector.
The messages themselves (malloc, free) are not modelled.

### ModuleHandler

Names are numbers in their sort order; a dependency is an edge. Every graph is
an initial state. `loose` edges are entries in another case than the module's
name: FindModule (`equals_ci`) accepts them, DeleteModule (`equals_cs`) and the
file system do not. The recursion of LoadModule and DeleteModule is a stack of
frames with the set of dependencies still to look at, or the iterator. When the
iterator's element is gone the fate is `undefined`; when the recursion passes
`MaxDepth` it is `overflow`. A load may fail for any reason at any point where
the code can fail. One failure is not returned: when a file of the copy into
runtime/ does not open, CopyFile returns false to an `assert`, or, with NDEBUG
(where the copy is not made at all), the null pointer is used
(`src/ModuleHandler.cpp:97,101`); the program ends there (`CopyAborts`). LoadModules is a frame with the files it has still to load:
they come in their order, those FindModule finds are skipped, and a failure is
forgotten before the next one (`LoadNext`).

### Sockets and Flags

The states of a socket are flags, and a flag is kept where the bitset keeps it:
`SetFlag` reduces the mask modulo the machine word, `HasFlag` throws above 31.
`link` is the kernel's state of a descriptor; an error stays in it until
somebody reads SO_ERROR, by `EventFailed`, by `MultiplexError` or by
connect itself, and then it is gone. `calls` is the stack of what has not
returned: callbacks, MultiplexEvent where it writes to its socket afterwards,
and constructors that retry bind, during which the thread does nothing else.

| code | actions |
|---|---|
| the constructors, ~Socket | `NewConnection`, `NewListener` then `BindAndListen` / `ListenFails`, `Accept`, `Destroy` |
| Connect, by the result of connect() | `ConnectNow`, `ConnectInProgress`, `ConnectFails` |
| ConnectionSocket::MultiplexEvent | `EventEstablished`, `EventFailed`, `EventTooEarly`, and `CallbackReturns`, which marks the socket dead after OnError |
| MultiplexError, ClientSocket::MultiplexEvent, MultiplexRead | `MultiplexError`, `ClientEvent`, `Accept` / `AcceptNull` |
| kernel, peer, other programs | `KernelAnswers`, `PeerResets`, `OtherProcess` |

A write to a deleted socket and an exception of HasFlag end the behaviour
(`fault`). The engine of the multiplexer is not in the repository; it may
report any descriptor that is ready. Data transfer is left out.

### Events

One walk at a time (`eventmux`), its iterator an index, saved before the call as
in the macro. Handlers return, throw ModuleException, fault (with setjmp, a
throw), stop the event, let another exception out, announce an event, or
change the vector. `spoiled` says that the mutex will not be released any more,
`shifted` that a module this walk has called left the vector. `EventHandlers` is declared
nowhere in the repository; that it is a vector follows from its uses.

### DateTime and ManagedBuffer

`DateTime`: the store of the time, the lock with its memset, the load, the copy
of each field, the unlock, and, for readers, the lock of GetTM and the reading
of each field after it, are steps of their own. Readers of the shared mutex are
gone before anybody can wait for them, so `tmux` is at most a writer.
`ManagedBuffer`: handles, blocks with their reference count, size and allocated
size. `operator=` does not release the old block, so `lost` counts what stays
too high, and `SelfFreeing` fails (finding 7).

### Files and Directories

`Files` has byte contents because CopyFile is about them; a read or a write may
be short or fail in any block. An object that is not open stands for the null
pointer that a failed OpenFile returns; such a failure changes nothing else,
and CopyFile returns false (`CopyRefused`). `Directories` has every tree of its nodes, with
links anywhere, as what SanitizeRuntime may find; `DirectoryList` replaces each
link by what it points to before it descends.

### Configuration

A text is a sequence of lexemes. `ScanComment`, `ScanUnknown` and `ScanEnd` are
the scanner, the other actions between them the grammar with its semantic
actions, `SyntaxError` the end of yyparse. `values`, `unsuccessful` and the start condition
`inComment` outlive Parse. `read` remembers what the files say with a definition
of comments of its own (`Uncommented`).

### Strings and Placeholder

Strings are sequences of characters, because positions are what these loops are
about; one letter has two cases. `substr` cuts at a NUL, and throws where it is
asked for what lies behind the end: find_ci looks for what is before a NUL of
the pattern, replace_all_ci then skips the whole pattern (`ReplaceThrows`). The names of the
filters and the true words are constants and given one letter each in the
instance, so that templates stay short. `ReplaceOne` is a round of the loop of
either replace_all, `ReplacePlaceholder` one of ProcessString.

## 3. Runs

| run | bounds | result |
|---|---|---|
| `engine_pool` | 1 processor (2 workers), 2 jobs, Initialize called twice, FairSpec | 261,220 states, no error |
| `engine_hang` | 1 job | Shutdown never ends |
| `timer_safety` | 3 timers, 3 instants, intervals and deadlines 0 and 1 | 5,045,071 states, no error |
| `timer_freed` | the same, deadline 1, callbacks that leave timers alone | freed timer used |
| `walks_callbacks` | 2 listeners, 3 registrations, 2 nested announcements; 2 timers, 2 instants; fair | 347,569 states, no error |
| `channel_missed` | the same listeners | a listener is missed |
| `modules_deps` | 3 modules, all 729 graphs, 5 nested calls | 651,531 states, no error |
| `modules_permanent` | the same | a permanent module is deleted |
| `modules_freed` | the same | freed list element used |
| `library_parts` | the nine parts of `MCLibrary`, see below | 268,088 states, no error |
| `library_hasflag` | the same | HasFlag throws |
| `buffers_leak` | 2 handles, 2 blocks | a block that nobody has is not freed |

Why the bounds are enough to be interesting. Two workers and the owner are
three parties to the lock and the flags; two jobs let a job queue behind
another, and a job submit another; two Initializes show what survives a
Shutdown. (With four workers the state space exceeds what a run can hold; the
theorems cover that case.) Three timers are needed for a walk to read a slot
past the end: one expiry leaves a stale slot, two leave one that names a freed
timer. An interval of 0 makes a timer that is due at every look, and one of 1 a
timer that becomes due; two timers are enough for one to be passed over
(`DueIsTicked`). Three registrations of two listeners include the duplicate, and a
nesting of two has a removal under a walk. Three modules make a chain of
dependents, the smallest graph on which the iterator dangles, and a cycle of
every length; five nested calls are more than a graph of three needs, under
LoadModules too (`DeepOnlyOnCycle` would fail otherwise).

In `library_parts`:

| part | bounds | what they reach |
|---|---|---|
| sockets | 2 sockets, 2 descriptors, callbacks one deep | a listener and a client, a deleted socket whose address and descriptor are used again, an error read by the wrong callback; `socket()` without a descriptor |
| events | 2 threads, 3 modules | a module removed before, at and behind the iterator; a thread waiting for the mutex |
| DateTime | 2 threads, 2 times, 2 fields | two setters that lock in the other order than they stored, a reader between two fields |
| ManagedBuffer | 2 handles, 2 blocks, sizes to 3 of a chunk of 2 | an assignment that loses a block, a size past the end, growth by a chunk and by more |
| Files | 3 paths (longer than a block, shorter, missing), 2 objects, block 2, files up to 3 bytes | whole and broken blocks, copies that meet the limit in a block, a copy to the same file, a null pointer |
| Directories | 1 directory besides runtime/ and the one it is in, 2 files, 1 link | links down, up (a cycle), out of runtime/, to nothing |
| Configuration | 2 names, 2 parses, some 60 texts | sections stated twice, text that ends in a section or in a comment, a second file after an error |
| Strings | strings to 4, patterns to 2, replacements to 2 | overlapping occurrences, replacements that hold the pattern, a NUL in each of the three, a pattern that ends behind the string |
| Placeholder | templates to 4, and longer ones of two or three placeholders with each filter | several placeholders, values longer and shorter than their names, braces and bars in values, an argument that puts a text in twice, a NUL that cuts the string short |

The bounds that cut an endless loop of the code are `MaxLength` (replace_all of
an empty pattern) and `MaxExpansion` (ProcessString on a template with a
closing brace too many, or a filter whose argument brings one).

Symmetry is used for the timers of `timer_safety` only, which has no liveness
property; nothing orders them. Deadlock is checked for the engine. In the timer and
the module model a state after undefined behaviour or an abort stops, so it is
off there, and with the timers in `walks_callbacks` (the channel there is kept
from standing still by `AnnouncementsEnd`);
in `library_parts` a string that has been returned, a finished copy, an
exception or a mutex that stays locked ends its part.

### Fairness

- Engine: the operating system keeps running a thread that can run (weak
  fairness of each thread's steps), and a job returns after finitely many
  calls (strong fairness of `FinishJob`: its pc leaves and re-enters `"app"`
  as it calls the engine). A contended mutex is only weakly fair: std::mutex
  promises no more. No spurious wakeup is owed, and the application owes no
  call.
- Timers: TickTimers is called again and again by the main loop and its walk
  goes on (weak fairness of `TickTimers \/ WalkStep`); a Tick returns, however
  often it constructs and deletes timers before (strong fairness of `Rearm \/
  Expire`). Both are up to the application.
- Channel: a listener returns, at each depth, and the walk goes on.
- Module handler: a single thread goes on with its call.
- Sockets: the constructor that retries bind goes on (weak fairness of
  `BindAndListen` or `ListenFails`: `OtherProcess` may take the address away for ever, so
  `BindEnds` assumes that other programs come to leave it alone); the kernel
  answers a pending attempt; the engine reports a socket that is ready again
  and again (strong fairness, because callbacks and resets interrupt
  readiness); a callback returns at each depth, however often it calls the
  sockets before (strong fairness).
- Events: the holder of the mutex goes on, and handlers return (weak fairness;
  a handler that throws instead has left too).

### Findings

1. `engine_hang`: Wake does not take the mutex of Sleep, so its notification
   can fall between the test of `wakeThread` and the wait; the worker then
   blocks with its flag set and Shutdown waits in `join()`
   (`src/ThreadEngine.cpp:206,212-213,220`). `ShutdownEndsOrLost` shows that
   this is the only way: with `Lost` excluded, Shutdown always ends.
2. `timer_freed`: two one-shot timers that expire in one walk make TickTimers
   read a slot past the vector's end, which names a deleted timer
   (`src/Timer.cpp:44-55`). `UseAfterFreeCause` shows that one expiry alone
   does not, and `SkipBound` how many due timers a walk passes over.
3. `channel_missed`: a removal during an announcement makes it pass over the
   next listener (`src/MessageChannel.c:43`); `MissBound` bounds the loss by
   the number of removals.
4. `modules_freed`: DeleteModule uses the iterator it has advanced after a
   nested deletion erased its element (`src/ModuleHandler.cpp:217-227`), the
   error its neighbour UnloadAll is written around; `UndefinedNeedsChain` says
   which graphs it takes.
5. `library_hasflag`: socket states are masks up to 256 and HasFlag uses them as
   positions in a bitset of 32, so a client socket's first event throws
   `std::out_of_range` (`include/Utilities.h:170`, `src/Socket.cpp:333`).
6. `modules_permanent`: a permanent module is to "stay within the application
   until application termination" (`include/Module.h:73`). Unload refuses it,
   but DeleteModule deletes the dependents of a module without asking, on
   purpose (`src/ModuleHandler.cpp:223-224`), so it leaves when a module it
   depends on is unloaded. `PermanentLeaves` says that there is no other way.
7. `buffers_leak`: a ManagedBuffer is to be "self-freeing"
   (`include/Utilities.h:90`). Its `operator=` takes the other's block without
   giving up its own (`src/Utilities.cpp:69-74`), which is then never freed.
   `BufferAccounting` says that this is the only leak, one reference for each
   such assignment.

Also seen while modelling, without a run: jobs queued at Shutdown are not run
(`src/ThreadEngine.cpp:110`, against "finish work" at 107) and the next
Initialize drops them; UnloadAll does not end when the program has a Module
without a handle (`UnloadAllEnds` excludes it); `include/MessageChannel.h`
declares AddMessageReceiver where the source defines AddMessageListener;
MultiplexError reads and so clears SO_ERROR, and the next event then takes the
attempt for a connection (`ConnectHonest` says what is left); SanitizeRuntime
deletes the files that links in runtime/ point to; ProcessString on
`{b}}}}{a}` takes closing braces that lie before the opening one and makes the
string grow for ever where `b}` has no value and `a}` has one; a NUL in a value
makes its loop, like that of replace_all, drop the rest of the string; and
RemoveFlags sets flags, but has no caller.

## 4. Proofs

TLAPS proves the theorems below for every value of the constants that satisfies
the ASSUMEs of the modules: any number of workers and jobs, timers, listeners,
modules, sockets, threads; any depth of nesting; any tree of directories; any
files to copy or to parse; any intervals of timers; any strings, patterns, templates and values. No
theorem takes an assumption of its own. Every invariant and every action
property that a passing run checks is among them, and so is the refinement.

| module | theorem | states |
|---|---|---|
| `ThreadEngine_proofs` | `EngineInvariant` | `Spec => []EngineInv` |
| | `TypeCorrect` | `Spec => []TypeOK` |
| | `MutualExclusion` | `Spec => []LockDiscipline` |
| | `ListSafety` | `Spec => []ListSafe` |
| | `NoJobUnannounced` | `Spec => []WakeAccounting` |
| | `NoQuitForgotten` | `Spec => []QuitAccounting` |
| `ThreadEngine_jobs` | `JobConserved` | `Spec => []JobConservation` |
| | `EngineImplementsPool` | `Spec => ImplementsJobPool` |
| `TimerHandler_proofs` | `TimerInvariant` | `Spec => []TimerInv` |
| | `TimerTypeCorrect` | `Spec => []TypeOK` |
| | `VectorHoldsTimers` | `Spec => []ListExact` |
| | `FreedMemoryHasCause` | `Spec => []UseAfterFreeCause` |
| | `ExpiriesBoundSkips` | `Spec => []SkipBound` |
| | `RepeatingTickedOnce` | `Spec => TickedOnce` |
| `MessageChannel_proofs` | `ChannelInvariant` | `Spec => []ChannelInv` |
| | `ChannelTypeCorrect` | `Spec => []TypeOK` |
| | `EachRegistrationHearsOnce` | `Spec => []HeardAll` |
| | `RemovalsBoundMisses` | `Spec => []MissBound` |
| `ModuleHandler_proofs` | `ModulesInvariant` | `Spec => []ModulesInv` |
| | `ModulesTypeCorrect` | `Spec => []TypeOK` |
| | `DependenciesAlwaysHeld` | `Spec => []DependenciesHeld` |
| | `DanglingNeedsChain` | `Spec => []UndefinedNeedsChain` |
| | `OverflowNeedsCycle` | `Spec => []DeepOnlyOnCycle` |
| | `PermanentLeavesOnlyThus` | `Spec => PermanentLeaves` |
| `Library_proofs` | `TimeAlwaysConsistent` | `DateTimeSpec => []TimeConsistent` |
| | `BuffersAccounted` | `BufferSpec => []BufferAccounting` |
| | `WalksComplete` | `EventSpec => []WalkComplete` |
| | `CopiesFaithful` | `FileSpec => []CopyFaithful` |
| | `SanitizedExactly` | `DirectorySpec => []SanitizeExact` |
| | `EachDescriptorOwned` | `SocketSpec => []DescriptorsOwned` |
| | `ConnectedIsHonest` | `SocketSpec => []ConnectHonest` |
| `Texts_proofs` | `WholeWhenGood` | `ConfigSpec => []GoodMeansWhole` |
| | `ReplacedAsSplit` | `StringSpec => []ReplaceIsSplitJoin` |
| | `EachReplacementLeavesLess` | each round of replace_all leaves less to search |
| | `GrowthAlwaysBounded` | `PlaceholderSpec => []GrowthBounded` |
| | `EachRoundLeavesLess` | each round of ProcessString leaves less to look at |

### The assumptions

Most say that a constant is a natural, a finite set, or that a "no such thing"
value is not one of the things. The others, and why the code justifies them:

- `MaxDepth > NumNames` (ModuleHandler): the C stack has room for one call of
  each module. Without it `DeepOnlyOnCycle` is false, and `MaxDepth` stands for
  a stack of megabytes.
- `WordBits \in {32, 64}` (Flags): the word of the bitset is an `unsigned long`.
  The proofs of Sockets need to know that no two of the states they are about
  fall on the same bit, and that is a matter of the word.
- `Times # {}`, `Fields # {}` (DateTime): there is a time to start with.
- `FilesAssumption`: the initial files are sequences of bytes or missing, and a
  block is not empty.
- `DirectoriesAssumption`: the tree is finite, and a node is one of directory,
  file and link.
- `ConfigurationAssumption`: a text is a sequence of lexemes, an identifier
  carries a name, and a value is not "no value". The scanner makes them so
  (`scanner.ll:61-76`).
- `StringsAssumption`, `PlaceholderAssumption`: the arguments are sequences of
  characters, and NUL is not a letter. Nothing is said of how many there are or
  how long.

### The arguments

**Thread engine.** `TypeOK` is not inductive alone: PopJob takes the head of
funcs without a test in its own step, so one needs that a worker at `"pop"` saw
a job (`ControlOK`) and that nobody empties the queue in between, which for
PopJob of another worker is `LockDiscipline` and for Initialize, which does not
lock, `EmptySafe`: with an empty list, all workers are unborn. That in turn
needs the list to hold every started worker but the one under construction, and
the join loop to have left only exited ones behind (`ListInv`). The conjunction
is `EngineInv`; `EngineStep` goes through it action by action, conjunct by
conjunct. The two accounting invariants are inductive relative to `EngineInv`
(`WakeStep`, `QuitStep`).

For `JobConservation` a worker's hands and its thread-local queue must agree
with its program counter (`LocalInv`): a job is popped into empty hands, and a
thread that exits drops its queue. The property counts places; `PlaceInv` says
instead that no two places hold the same job, and that the jobs held are the
live ones, which steps keep one by one. The refinement needs in addition how the
loops over the list end (`LoopInv`): Initialize opens the pool with all workers
in it, Shutdown closes it with none. Its steps are one lemma for each group of
actions that maps to the same step of `JobPool` or to none.

**Timers.** The vector holds the living timers by itself (`VectorOK`). The
other parts tie the walk to it as long as no Tick has deleted a timer or moved
the buffer (`meddled`): the slots still to visit are elements, or after one
expiry the one behind the end (`EndOK`); the timer being ticked is the one the
iterator is at (`TickOK`); the due timers behind the iterator that were not
ticked are no more than the expiries (`SkipOK`, which gives `SkipBound`).
`TickedOnce` has two reasons. A repeating timer with a positive interval that
was ticked is re-armed beyond the walk's time, whatever Ticks do meanwhile
(`ArmedOK`). One with another interval is due again at once, and then the walk
does not meet it because it has passed its slot: as long as nothing was deleted
and the buffer stayed where it was, the timers that were ticked are behind the
iterator (`TickedBehind`).

**Message channel.** `FrameOK` is about one announcement and the vector as it
is now, also when the announcement is interrupted by others. What an
announcement will still come to depends on the vector, so `MissBound` as it
stands, about ended announcements, says nothing while a walk is under way:
`FewMissed` counts the listeners that are neither heard nor ahead. That a
removal costs at most one of them, and an addition none, are lemmas about one
frame and one vector (`FrameAfterRemove`, `FrameAfterAdd`).

**Module handler.** The two recursions never nest in each other, and each call
is for a module that needs, or is needed by, the one below (`StackOK`). A module
enters the list after what it needs, so that loaded modules have no cycle among
them (`AcyclicOK`, `OrderOK`), which bounds the deletions; without a cycle on disk
the modules under way are distinct (`DistinctOK`), which bounds the loads by the
number of names. `DependenciesHeld` rests on `LookupOK` (what a load needs was
looked up or is still to be) and on `LoopOK`: the loop of DeleteModule leaves
no dependent behind its iterator, though nested deletions shorten the list it
walks. `IteratorOK` shows that without a chain of three modules the iterator's
element is never deleted under it.

**Sockets.** `ConnectHonest` needs to know what becomes of an attempt:
`AttemptOK` says that an attempt which neither succeeded nor was reported still
has its answer or its error in the kernel. Steps on another socket keep it only
because no two sockets share a descriptor (`DescriptorsOwned`), and the flags
answer for themselves because the states concerned are on different bits.

**DateTime, ManagedBuffer, Events.** Whoever is between lock and unlock copies
the last time, or one that another SetTime, still to come by, will replace
(`WriterOK`); a reader that no writer has overtaken reads a `tm` that does not
change (`ReaderOK`). The reference counts are cardinalities of sets of handles,
with one lemma for a handle that comes and one for a handle that goes. The
walk of an event compares the vector with what it has called.

**Files and directories.** `CopyFaithful`: in the middle of a copy without a
fault, overwriting the destination with the rest of the source gives what was
wanted, and two adjacent writes are one (`OverwritingTwice`). `SanitizeExact`:
DirectoryList remembers neither what it has listed nor where it is, so the
invariant is about what it has still to look into: whatever it has listed and
not looked into waits there; a cycle below runtime/ is reached through it
(`WindingDown`), which shows that the listing never ends on one; and without a
cycle an entry has as many directories above it as there are calls open, which
are less than the directories there are (`AboveChild`, `AboveFew`), so that it
does end.

**Configuration.** As long as there is no error some prefix of what was read
has been parsed, and what was read after it is what the scanner will make of
the text that is left (`ToScan`): a map from the one to the other that keeps
the order, loses nothing and skips what is in a comment (`ToScanSkips`,
`ToScanTakes`; `UncommentedOrder` says that cutting the comments out by
counting gives the same). What is in force is what this prefix says
(`InForce`). A token completes at most one statement (`StatementsNext`), and
none unless the parser expects `;`, because a sign is always followed by a
value and a value by `;` in what has been parsed (`Regular`). When it does, it
is the statement whose section, key and value the parser has at hand
(`AtHand`), and a position is in one section only (`OneSection`).

**Strings.** `ReplaceInv` says how far replace_all is: the new string is what
has been done and the rest of the string from a place on, and the next search
of the new string finds what a search of the old one from that place finds
(`DoneUpTo`). What is done is compared with the reference from that end too:
splitting and joining the whole is what is done, and then splitting and joining
the rest. One round moves a piece from the one side to the other
(`RoundDone`, `RoundJoined`). Split and Join are recursive functions; that
they are defined at each place (`PiecesExist`, `JoinExists`) is shown by
looking at the least, or the greatest, number where they were not, which needs no
induction theorem (`AllNumbers`, `LeastIndex` of `SequenceLemmas`).

**Placeholders.** `GrowthBounded` says nothing of why the loop never meets
what it has put in. `LoopInv` does: the string is as the template from the
closing brace on (so the closing braces it comes to are the template's own, each
once), the opening brace is before it (`OrderKept`: a value's opening brace may
be taken, and then it is before the closing one all the more), no bar is behind
the opening brace (so no filter is looked up), and the string grew by no more
than a value for each closing brace passed (`OneMoreClosed`).

`ReplaceInv` and `LoopInv` also measure the loops: `EachReplacementLeavesLess` and
`EachRoundLeavesLess` are the steps of a termination argument, stated as action
properties, since liveness itself is out of reach. No run checks them; TLC
found them to hold in the instance. They are about the texts the two
invariants are about: patterns that are not empty, and templates in which the
placeholders are closed once.

What the proofs changed in the models: an attempt at `ReplaceInv` fails for a NUL
in the replacement, where `substr` cuts the rest off, and one at `LoopInv` for a
NUL or a closing brace in a value and for a bar in the template. The two
properties now say so and are otherwise about more texts than before (patterns
with a NUL, values with an opening brace or a bar, templates that only open
before they close), and the run has inputs on which all but one of these
conditions are needed. That a value must not have an opening brace and a bar
at once only the proof asks for: together they may bring a filter.

TLC checks `EngineInv` in `engine_pool`, a run that also checks `TypeOK`, the
two accounting invariants and the refinement. The other inductive invariants
are stronger than what the runs check, and are theorems only.

### What is only model-checked

- Every liveness property (`ShutdownEndsOrLost`, `OwnerSubmitReturns`,
  `QueuedJobsTaken`, `DueIsTicked`, `AnnouncementsEnd`, `UnloadAllEnds`,
  `AttemptResolved`, `BindEnds`, `MutexReleased`): the proof system does not
  reach liveness under fairness.

## 5. Not modelled, and plan

Not modelled:

- Functions of their arguments without a loop that changes what it reads:
  TimingSafeStrcmp, duration, the random data, DemangleSymbol, the wrappers of
  std::string in `include/Flux.h`, address conversion in `src/Socket.cpp`.
- Data transfer of sockets, and the buffers it goes through: the multiplexer that would drive it is a stub here.
- Dynamic libraries, Log, exception classes, cvar and the build: system calls,
  output or declarations.
- The message buffers of the channel (malloc and free), File::Length, the rest
  of `include/vec.h`, AddFilter, and RemoveFlags, FlagCount and ClearFlags, which
  have no caller.
- What LoadModule copies (`src/ModuleHandler.cpp:93-97`): that the files do not
  open is `CopyAborts`, and a short copy, which CopyFile does not notice, is one
  of the failures of LoadModule.

What could go wrong there, and no property covers: TimingSafeStrcmp compares
as many characters as its first argument has and takes `length() - 1` of the
second (`src/Utilities.cpp:241`); the index of a random character includes the
size of the array (`:260`); the copy constructor of DateTime leaves `tm`
uninitialised (`:159`); File::Length is cached the first time it is not zero
(`src/File.cpp:58`); the address of an IPv6 listener is converted as an IPv4
one (`src/Socket.cpp:264`). `DependenciesHeld` promises nothing for a dependency
spelled in another case, because the code does not
(`src/ModuleHandler.cpp:315`).

Plan:

1. Proofs: `Split` and `Join` inverse to each other for every string, with
   the lemmas `ReplaceIsSplitJoin` rests on; a measure for the loops of the module
   handler and of DirectoryList, as `EachReplacementLeavesLess` is one for
   replace_all.
2. Abstract specifications: an atomic list walk ("every element present
   throughout is visited once"), which the timers, the channel and the event
   walk implement as far as they do, and which gives their differences one
   statement.
3. Models: the channel with its message buffers; events composed with the module handler, once `EventHandlers` has
   a declaration.

## 6. Running

    tlc -config ThreadEngine_pool.cfg MCThreadEngine.tla
    tlapm SequenceLemmas.tla
    tlapm ThreadEngine_proofs.tla
    tlapm ThreadEngine_jobs.tla
    tlapm TimerHandler_proofs.tla
    tlapm MessageChannel_proofs.tla
    tlapm ModuleHandler_proofs.tla
    tlapm Library_proofs.tla
    tlapm Texts_proofs.tla

The other runs are listed in `PROJECT.json` with their module and cfg.
