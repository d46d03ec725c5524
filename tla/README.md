# A TLA+ model of aviutl_bridge

`bridge.dll` lets the Lua scripts of AviUtl call other programs.  `bridge.call(exe,
data, mode, ...)` sends `data` to the stdin of a child process, waits for the reply on
its stdout and returns it as a string; images travel through a shared memory view.
The process of a program is kept for the next call.  The modules here model the code
under `src/src/`, check it with TLC on small instances and prove their safety with TLAPS
for all instances.

## 1. Inventory

| Part | State | Operations | Hard behaviour | What makes it correct |
|---|---|---|---|---|
| Queue (`process.c` 9-107) | ring of slots, `used`, two cursors, a mutex, two condition variables | `queue_init`, `queue_push`, `queue_pop`, `queue_destroy` | lost and spurious wakeups, wrap-around, a full or empty ring | it is a bounded FIFO buffer; nobody sleeps beside work |
| Process (`process.c` 109-123, 198-274, 454-504) | handles of pipes and process, the queue, `previous_queue_item`, the thread `read_worker` | `process_write`, `process_read`, `process_isrunning`, `process_close_stderr`, `process_finish` | the child ends at any moment, pipes block, the worker is detached and never joined | a reply belongs to its request; every item is freed once; the struct outlives the worker's use of it; calls return |
| Start of a process (`process.c` 125-196, 276-452) | some twenty handles and allocations | `process_start`, `build_environment_strings`, `get_working_directory` | each call may fail | all or nothing is left; the child gets its ends of the pipes only |
| Bridge (`bridge.c`) | `g_process_map`, `g_mutex`, `g_view` | `bridge_init`, `bridge_call`, `bridge_exit` | several callers, dead processes in the map, failures half-way, unloading | the map holds exactly the live processes, but for those a failing `hashmap_put` drops; a call gets its own reply and image; calls return |
| Hash map (`hashmap.h`) | table with open addressing | create, put, get, remove, iterate, destroy | removal leaves gaps, growth while entries move, failed allocation | it is a map |
| Lua entry (`luamain.c`) | `initialized`, the Lua stack of a call | `call`, `calc_hash`, `DllMain` | initialisation that fails half-way and is repeated, Lua functions that raise errors, unloading under the loader lock, end of the host process | a call reads its arguments and its image where they are on the stack; a call that passes the test of `initialized` can use the view; unloading ends and leaves no worker behind |
| Threads shim (`threads/`) | - | mutex, condition variable, thread | - | as the C11 names say |
| Debug output, version, build | - | - | - | not modelled |

How they interact: `lua_bridge_call` calls `bridge_call`, which works under `g_mutex`
from its first to its last step and calls the operations of one `struct process`.  The
host thread and the `read_worker` thread of a process share its queue and its handle
fields.  The worker, the host and the child are connected by the pipes.  The result of
`bridge_call` points into memory of the process and is read after the mutex is given up.

The hazards of this code, each at its line and with the properties that cover it, are
listed in `PROJECT.json`.

## 2. Modules

| Module | Models | Uses |
|---|---|---|
| `Fifo` | abstract: a bounded buffer with atomic put and take | |
| `Queue` | `struct queue`, one action per lock, wait, signal, ring access and unlock | refines `Fifo` |
| `QueueProofs` | theorems about `Queue` and `QueueLife` | |
| `QueueLife` | the queue from the first push to `queue_destroy` | extends `Queue` |
| `Service` | abstract: a program that is asked one thing at a time | |
| `Process` | `struct process` between `process_start` and `process_finish`: host, worker and child | a FIFO of `QueueCap` slots, as `Queue` implements it; refines `Service` |
| `ProcessProofs` | theorems about `Process`: types, the end mark, the lifetime of the struct | |
| `ProcessFlow` | theorems about `Process`: items, replies, waiting, the refinement of `Service` | extends `ProcessProofs` |
| `ProcessStart` | `process_start` and its helpers, call by call, with every failure | |
| `StartProofs` | theorems about `ProcessStart` | |
| `ProcessMap` | abstract: the map `bridge.c` expects | |
| `HashMap` | `hashmap.h` as the bridge uses it, growth step by step | refines `ProcessMap` |
| `HashMapProofs` | theorems about `HashMap` | |
| `Bridge` | `bridge.c` and the use `luamain.c` makes of it | extends `Process` |
| `BridgeProofs` | theorems about `Bridge` and `Unload`: processes, mutex, map and waiting | extends `ProcessFlow` |
| `BridgeView` | theorems about `Bridge`: view, images and replies | extends `BridgeProofs` |
| `Unload` | `DllMain` at `DLL_PROCESS_DETACH`, the begin and the end of worker threads | extends `Bridge` |
| `LuaCall` | `lua_bridge_call` on the Lua stack, `bridge_init`, `bridge_exit` | |
| `LuaCallProofs` | theorems about `LuaCall` | |
| `PixelHash` | `calc_hash` | |
| `MC...` | instances for TLC | |

Definitions between a comment that begins with "Mutant" and the next comment are not
part of the model: each is the definition after it with a bug put in, and the properties
are known to notice it.

**Queue.**  The slots are a function, `used`, `readcur` and `writecur` the fields of the
same names, `mtx` the owner of the mutex.  `pc` says where each thread is: before
`mtx_lock`, at the `while` test, asleep in `cnd_wait`, before `cnd_signal`, before
`mtx_unlock`.  The accesses to the ring between two of these are one step because they
are made under the mutex.  `mtx_*` and `cnd_*` are those of `threads_win32.h` as the
build compiles them (`_WIN32_WINNT` 0x0601: critical sections and native condition
variables).  The recursion of the mutex is not used.

**QueueLife.**  The worker and the host call `queue_push` and `queue_pop` of `Queue` the
way `read_worker`, `process_read` and `process_finish` do: replies, the end mark, and
after the end mark was popped `queue_destroy`.  `Process` takes a push as one step; here
it is seen lock by lock, so that the end mark can be popped while the worker is still
inside `queue_push`.

**Process.**  Per process there are the variables of the three actors (`hpc`, `wpc`,
`cpc`), the three pipes, the queue, and the heap of queue items.  An item is the number
of the request it answers and its length; the end mark is the item of length -1 without
buffer that the worker queues when a read fails.  A `ReadFile` is two steps, so that
the handle can be closed or the child can die in between.  Whether `CloseHandle` waits
for a pending `ReadFile` on the same pipe is not documented; `closeWaits` leaves both
possibilities open.  A pipe takes `PipeCap` writes before the writer blocks, and a write
is not split: `read` and `write` loop until all bytes are through.  The child is the
program of the sample in `README.md`: size, body, work, perhaps a line on stderr, size,
body.  It ends when its pipes do and, in the phases `MayLeave` names, whenever it likes;
the pipes close first and the process handle is signalled later.

What the bridge relies on is the module `Service`: a request is replied to at most once,
a complete reply is returned, and a call fails only if there is no reply and the program
is down.  A reply is complete in the mapping as soon as its last byte is in the pipe, so
the refinement says that it is not lost on its way through pipe, worker and queue
even if the child ends at once.

**ProcessStart.**  One step per call that acquires something, with two outcomes.
`owned` is what is open or allocated, `held` the local variables that are not
`INVALID_HANDLE_VALUE` or `NULL`; `cleanup` decides by `held`.  Where the code jumps over
the initialisation of `pi`, each of its two members is whatever the stack holds
(`CloseGarbage`): `INVALID_HANDLE_VALUE`, a value that is no open handle, or any handle that
is open, of an earlier run or of this one, whose own cleanup then closes it again.  `twice`
collects the variables that were released when what they name was no longer there.  The one
unchecked allocation on this path (`dir` in `get_working_directory`) has no failing outcome;
the calls around it fail in their own right.

**HashMap.**  `hashmap_put` calls `hashmap_rehash_helper`, which calls `hashmap_put` on
the new table through `hashmap_iterate_pairs`.  The frames of this recursion are the two
stacks `tables` and `puts`, and each step does what the innermost call does next.  The
hash function is any function in `Hashes`.  Two pointers matter: the entry and the
`struct hash_map_value`, which holds the bytes of the key as well.

**Bridge.**  The actions of a caller are the steps of `bridge_call_core` between two
calls of an operation of the process; the operations themselves are the actions of
`Process`, taken while the caller waits.  `g_process_map` is a function, and a `hashmap_put`
that fails does what `ProcessMap` allows: it may drop any entries of other programs
(`PutFails`).  Their processes are collected in `lost`: they are allocated and running, and
nothing in the program refers to them.  The view holds, instead of pixels, which request
they belong to and who wrote them.  `bridge_init` has succeeded before the first state.

**Unload.**  `Bridge` with the two ends of a worker thread.  `begun` and `returned` say
which workers have come to `read_worker` and which threads have ended; Windows does both
under the lock of the loader, which the thread that runs `DllMain` holds (`exitpc` is
`"finish"`).  `why` tells `FreeLibrary` from the end of the host process, at which the
worker threads stop where they are.  A worker that is stopped inside `queue_push` or
`malloc` and takes a lock with it is not modelled, nor is a caller stopped inside
`bridge_call`.  `thrd_detach` does not wait; the mutant is the `thrd_join` that the
source has commented out.

**LuaCall.**  One call at a time, as one Lua state has it.  `stack` is the Lua stack and
`At` reads it by the index rules of the C API, so that an index which is off by one after
some push or pop finds another value.  A string is the set of its letters, an image one
value.  `obj.getinfo`, `obj.getpixeldata` and `obj.putpixeldata` may raise an error, which
leaves the call at once.  `live` is what `bridge_init` has acquired and nobody released,
`g` what the globals of `bridge.c` refer to; both number each thing by the call that made
it.  A `hashmap_create` that fails still writes to `g_process_map`.  `bridge_call` is one step with every result it can have.  `bridge_init` sets
`g_mapped_file`, `g_view` and `g_bufsize` together.

**PixelHash.**  Two images are hashed in lock step.  Words have `Width` bits and the
factors and start values keep their last bits, which leaves them odd.

## 3. Runs

| Run | Instance | Shows |
|---|---|---|
| `queue` | 2 producers, 2 consumers, 2 slots, 2 items, 1 spurious wakeup; symmetry of threads and items | the ring stays well formed, no wakeup is lost, `Fifo` is refined |
| `queue_life` | the worker and the host of one queue, 2 slots, 2 spurious wakeups, fairness | the end mark is enough for `queue_destroy`, `process_finish` gets there, the fairness of `Fifo` is refined |
| `process` | 1 process, 3 requests, lengths 0 and 1, pipes of 1 write, a child that may end in every phase, fairness | ownership of items, the end mark, lifetime of the struct, replies match requests, two slots suffice; host, worker and child never all wait (`NoCircularWait`); `Service` is refined with its fairness (`ImplementsFairService`, which contains `ImplementsService`); `process_finish` returns and the child ends |
| `bridge` | 2 callers with a program each, 2 processes, 3 calls with images or none, a child that may end in every phase, exit at any point between calls; symmetry of callers together with their programs | the map and the processes agree after every path, the processes dropped by a failed `hashmap_put` excepted; isolation of the view, replies and images |
| `bridge_hang` | 1 caller, 1 program, 3 calls, a child that ends only after a reply | violation, see section 6 |
| `unload` | 2 callers with a program each, 2 calls, `FreeLibrary` or the end of the host at any point between calls, fairness | no worker is at work in unmapped code, those of dropped processes excepted; calls and `DllMain` return but for three named reasons |
| `start_leaks` | 3 starts, every call may fail | nothing is left behind, nothing is released twice by a run that has initialised `pi`, inheritance of handles |
| `start_directory` | 2 starts | violation, see section 6 |
| `map_any_hash` | 3 keys with all 512 hash functions to 0..7, chains of 2, tables of 2 to 8 slots | `hashmap_get` finds what was put |
| `map_growth` | 4 keys, chains of 2, tables of 2 to 16 slots, allocation may fail, fairness | `ProcessMap` is refined, growth ends, exit frees all |
| `lua_call` | 3 calls, all modes with 0 to 6 arguments and some of another type, sizes -1 to 2, every step of `bridge_init` may fail | indices into the Lua stack, what a failed initialisation leaves |
| `pixel_hash` | words of 8 bits, all pairs of images of two pixels from eleven values that differ in one pixel | the hash shows the change |

Why the bounds are enough.  One process suffices for `Process`, since processes share
nothing there.  Two requests reach every interference of a late reply or a late end of
the child with the next request, a third one the state after a failed second.  A pipe of
one write is the tightest: it blocks wherever a larger one could.  Lengths 0 and 1 are the
two cases the code distinguishes.  Two slots are the two of `process_start`; two threads
on each side are more than the one the code has, and let a signal choose.  Three calls
are the shortest way to the hang of section 6.  In `bridge` there are two structs, so that
either one program is called, dies, is replaced and is called again, or both programs are at
work; a third struct would let the one happen beside the other and is left to the theorems,
which hold for any number.  `unload`, whose liveness costs more, has two calls, enough for a live
worker and one that was stopped or has ended.  Each thread of `bridge` and `unload` has a
program of its own, for the size of the state space; the theorems hold for any `Uses`.  The
second program's `hashmap_put` may fail and drop the first: in the code that takes more
programs, as a table must grow while it is filled, and the two stand for two of them.

With chains of 2 instead of 8 the growth while growing, which needs
more than a chain's length of programs, comes within reach.

In `lua_call` three calls are a failed initialisation, a repeated one and a call after
it; the argument lists are all prefixes of complete calls, because only a short list lets
the leftover `obj` of the first call slide into the place of an argument.  In `unload`
two programs let one worker be caught in each state while the other is finished.  Eight
bits in `pixel_hash` are two digits a word and leave room for both shifts.

`CHECK_DEADLOCK FALSE` is set wherever a behaviour ends because the bounded number of
calls is used up, and in `queue_life` once the queue is destroyed; in `queue` the check for
deadlock is on.

## 4. Fairness

`QueueLife`: weak fairness of every thread that is inside a call of the queue; nobody has
to call, and spurious wakeups need not happen.  Each mutex is held for a bounded number of
steps.  The host goes on in `process_finish`, and the worker, which may push replies without
end, comes to its end mark (strong fairness), because `process_finish` has closed the pipes.

`Process`: weak fairness of host, worker and child.  The first two are threads the
operating system schedules.  For the child it says that the program follows the protocol
and does not stall; there is no timeout in the code, so without that assumption no call
need return.  That a child leaves is never assumed: it is an action without fairness.

`Bridge`: the same and weak fairness of each caller and of `bridge_exit`.  Weak fairness is
enough for the mutex because the number of calls is bounded.

`Unload`: as `Bridge`; a thread that was created begins, and one that has returned ends,
whenever the loader lock is free long enough.

## 5. Proofs

Every safety property that a run with no violation checks is also a theorem, for every
value of the constants, but `OnePixelShows`.

`QueueProofs` proves for any numbers of threads, items and slots: `TypeOK`, `RingInv`,
`ConsumerWakeup`, `ProducerWakeup` and `Spec => ImplementsFifo`.  The ring is inductive
with the types; the wakeup invariants need in addition that the counts of threads in
each phase move by one with a step, for which the finiteness of the sets of threads is
assumed (`QueueAssumption`).  The refinement goes action by action: `PushStore` is `Put`,
`PopTake` is `Take`, the calls are `Offer` and `Ask`, all else is a stutter.  The
arithmetic of the ring is in lemmas about `SlotAt`.  `DestroyedWhenUnused` of `QueueLife`
follows from where the end mark is (`MarkInv`): not pushed, or the last item of the
ring, or taken; with the ring, "last item and oldest item" means that nothing else is
left.  It is a theorem for one worker and one host, as each queue has them; the lock
discipline (`Mutex`) says that a worker which is back from its last push holds nothing.
`LifeSpec => ImplementsFifo` is the safety half of `ImplementsFairFifo`: a step of `QueueLife`
is a step of `Queue` or leaves the queue alone.

`ProcessProofs` proves for any number of processes, any lengths, capacities and bounds and
any child: `TypeOK`, `EndMarkIsLast` and `FreedWhenUnused`.  `TypeOK` is inductive together
with `Carried` (whoever is busy with a request has one).  The other two follow from
`LifeInv`: the worker has run if and only if the struct exists; as long as it has not ended
there is no end mark in the queue or behind it and `process_finish` is not past its drain;
an end mark is the last item; handles are closed in the order of `process_finish`.

`ProcessFlow` proves `OneOwner`, `ReplyAnswersRequest`, `QueueHasRoom` and
`Spec => ImplementsService`.  None of them is inductive, because each speaks of one place
while host, child and worker act on all.  The invariant `FlowInv` names the seven points at
which a request can be (`Flow`: between two requests, travelling, lost, with the child,
its reply half written, cut short, or complete) and says for each point what is in
every pipe, in the worker's hands and in the queue; each step keeps a process at its point
or takes it to the next.  `QueueHasRoom` assumes at least the two slots that `process_start`
asks for.  For the refinement one more invariant is carried: what the abstract service
shows of a reply does not change on its way.

`ProcessFlow` also proves `NoCircularWait`, the safety that `FinishReturns` and the fairness of
`Service` rest on: while the host is inside an operation, the host, the worker or the child
has a step it can take, for pipes and queues of any capacity, or `process_finish` waits for an
end mark that `process_read` has taken.  TLAPS has no `ENABLED`, so the guards of the three are
written out (`HostCan`, `WorkerCan`, `ChildCan`); on the instance of the run `process` they
are exactly `ENABLED Host(p)`, `ENABLED Worker(p)` and `ENABLED Child(p)`.  The invariant
needed beside `FlowInv` is `AwaitedInv`: once the worker is done the end mark is queued or
taken, nobody reads after an end mark, and stderr is closed before the first request.
Without the last a child that logs would wait for a host that waits for it.

`BridgeProofs` proves `BridgeSpec => Spec`: however many callers interleave, on whatever
path a call fails, each step of `Bridge` is a step of `Process` or leaves the processes
alone.  It needs one invariant, `Pointers`: whoever looks a program up has its path, and
whoever operates on a process has a struct.  The theorems about `Process` carry over;
`BridgeFreesWhenUnused` states two of them for the bridge.  `MapIsExact` and
`OneChildAtWork` follow from `MapInv`: a caller between lock and unlock owns the mutex and
is alone; where it stands says what its process is doing and whether the map has it
(`Placed`); all other processes are in the map once, and idle, or they are in `lost`, idle for
good (`Dropped`).  `UnmappedWhenUnused` needs nothing more, because up to the end of the host
process each step of `Unload` is a step of `Bridge`.  Both except the processes in `lost`.  That
is no accident of the proof: `bridge_exit` does not find them, so `FreeLibrary` may
unmap the code while their workers wait in `ReadFile` (section 6).

`BridgeUsesProcessMap` closes the gap between `Bridge`, whose map is a function, and `HashMap`:
what the bridge does to `g_process_map` is allowed by `ProcessMap`, which `HashMap` implements.
`Put` is `Add`, and only where there is no entry; `Remove` and `ExitFree` are `Delete`, and only
where there is one; `PutFails` is `AddFails`, with the entries it drops; `ExitDone` is `Clear`.
`ProcessMap` has a variable for the result of the last operation and the bridge has none, so the
theorem speaks of two instances, one for each result: every step is one of the first or of the
second.

`NobodyIsStuck` is to `EverybodyReturns` what `NoCircularWait` is to `FinishReturns`: a caller
inside `bridge_call`, and `bridge_exit`, can take a step, or wait for `g_mutex` whose owner is
inside, or wait for an operation of whose process the host, the worker or the child can
take one; a thread that has not begun counts when the lock of the loader is free.  The
exceptions are `MarkNeverComes`, the three cases of section 6, and the bound on requests.
`WaitInv` adds to the invariants above that a worker which has left its first state has
begun, and says what the end of the host process leaves of each queue (`Ended`).  `CallerCan`
and `ExitCan` are again the written-out guards, equal to `ENABLED` on the instance of the run
`unload`.

`BridgeView` adds what is in the view.  `ViewInv` ties it to the one caller inside: from its
write on the view has the size and the image of its request, and the child's image once
the reply has been begun.  From this and the points of `FlowInv` follow
`ChildSeesItsRequest` and `CallGetsItsAnswer`, for any use of programs by threads.  They say what
a call has when it gives up `g_mutex`; what becomes of the reply after that is in section 7.

`StartProofs` proves `AllOrNothing`, `NothingReleasedTwice` and `ChildInheritsItsEnds` for any
number of starts.  The invariant is a table: `Holds` says what `process_start` has open and
allocated before each of its calls, `Leaves` what may be left at each label of its cleanup,
and what is `held` in a variable is what is `owned`, as long as `pi` is initialised or not yet
looked at.  `NothingReleasedTwice` ends there too: the closes of a run that jumped over the
initialisation are excepted.

`LuaCallProofs` proves the five invariants of `LuaCall` for all lists of arguments.
`StackFits` says for each `pc` what lies on the Lua stack above the arguments; that the
leftover `obj` of the first call is read as no argument is a lemma about the indices
(`SameReads`).  `InitFits` says which globals each step of `bridge_init` has set.

`HashMapProofs` proves for any keys, any hash functions, any length of the chains and tables
of any size: `TypeOK`, `GetFindsAll`, `OneLiveCopy`, `AllFreedAtExit` and
`Spec => ImplementsMap`.  A single table is `Sound` if each entry lies in the chain of its
key, no two have the same key or address, and `size` counts them; lemmas show that
storing a new entry and clearing a slot keep a table sound and that in a sound one
`hashmap_get` finds what is there.  A growing map is a stack of tables, and `MapInv` says in
addition that no entry is in two of them (`Apart`), that the entry a nested `hashmap_put` has
in hand is the first one of the table its caller empties (`BeingMoved`), that the entry of the
outermost is in none (`NewEntry`), and that what is allocated and not lost is exactly what the
tables and the outermost call refer to.  In the refinement placing the entry of the outermost
call is `Add`; moving entries changes no contents.

`NewTablesHaveRoom` is the part of `PutReturns` that is safety: a table that is being filled is
at most half full, so a nested `hashmap_put` finds its table full never and grows again only
when all slots of a chain are taken.  Its invariant (`RoomInv`) counts entries over all tables:
growing moves them and makes none, so they are no more than the slots of the first table, and
every other table has twice as many.  With the hash functions of `map_growth` the half is
reached and a third table occurs, so the bound is tight and not idle.

From which assumptions: the named `ASSUME`s of the modules, and the two hypotheses
above (`QueueCap >= 2`, one worker and one host).

Only model-checked.  Liveness under fairness (`ImplementsFairFifo`, `ImplementsFairService`,
`FinishReturns`, `EverybodyReturns`, `Destroyed`, `PutReturns`) is out of the prover's reach, as
is `ENABLED`; the theorems named above are the safety these rest on.  `OnePixelShows` stays
with TLC because `PixelHash` uses recursive bit operations.  That Queue's `Fifo` is the queue of
`Process` is an argument of this document: `Process` takes a push and a pop as one step each,
and the end of one pop of `process_finish` together with the call of the next.

## 6. What the violations show

`bridge_hang`.  `README.md` of the repository says that a program may end after its reply
and is started again by the next call.  If it ends just after that next call found it
running, the call fails and `process_read` has consumed the end mark.  The call after that
finds the process ended and calls `process_finish`, whose `queue_pop` waits for an end mark
that nobody will queue.  `g_mutex` is held, so all later calls and `bridge_exit` wait too.
`FinishReturns`, `Destroyed` and `EverybodyReturns` therefore name the case in which the end
mark was consumed.

`start_directory`.  The path of a directory, ended by a separator, makes
`get_working_directory` fail, and `process_start` jumps to `cleanup` over the
initialisation of `pi`.  The two handles that happen to be on the stack are closed, be they
of a process started before or of this run.  The change log says that this case was fixed.

What `EverybodyReturns` excludes.  The comment at `process.c` 472 says that `thrd_join` hangs
at `DLL_PROCESS_DETACH`; the end mark that replaced it lets `DllMain` return in the usual
case, which the run shows.  It waits for ever if the end mark was consumed before (see
above), if the worker is gone with the host process, and if the worker has not begun: its
thread was created by a call whose first write failed, and cannot begin while `DllMain`
holds the loader lock.  And when the library is unmapped a worker may still be executing
its `return`, since only the end mark is waited for.  No document of the repository speaks
of these cases.

What `MapIsExact`, `UnmappedWhenUnused`, `EverybodyReturns`, `AllFreedAtExit` and `ImplementsMap`
except.  A `hashmap_put` that fails while one table grows into another has already taken
entries out of `g_process_map` (`hashmap.h` 522 to 526) and drops them with the new table.  The
processes of these programs go on running, are never finished, and are started anew by the
next call; when the library is unloaded their workers are still inside it.  No document of the
repository speaks of this either.

Two more disagreements are kept as notes.  The comment of `hashmap_iterate` suggests that
a non-zero result of the callback ends the iteration; zero does.  `thrd_create` leaks its
argument when no thread can be created (`AllOrNothing` names it).

## 7. Not modelled

The POSIX shim and the emulated condition variables are not compiled.  Logging and build
files have no state.  Contents of strings, environment blocks and pixels are opaque, and
so is the number of bytes of an image against the size of the view.
Allocation failures outside `process_start`, `bridge_init` and `hashmap.h` that the code
does not check (`process.c` 225 and 240, `bridge.c` 102) are taken not to happen.  Other
code of the host that creates processes while `process_start` runs may inherit the
temporary handles (`process.c` 293 to 319); it is not part of this repository.  There is no
timeout (`process.c` 80): a child that neither answers nor ends blocks its caller and,
through `g_mutex`, all others.  That is by design, and the fairness of the child excludes it.  `bridge_call` returns a pointer
into the process and gives up `g_mutex` before `lua_bridge_call` has copied what it points to: a
second thread that calls the same program in between frees it.  Nothing in the code prevents
this, so no property claims that the reply stays valid; the copy is not modelled.  Two threads
that make the first call together both run `bridge_init`.  AviUtl runs scripts in one thread.

## 8. Plan

Done: the models `Fifo`, `Queue`, `QueueLife`, `Service`, `Process`, `Bridge`, `Unload`,
`ProcessStart`, `ProcessMap`, `HashMap`, `LuaCall` and `PixelHash`, and the proofs
`QueueProofs`, `ProcessProofs`, `ProcessFlow`, `BridgeProofs`, `BridgeView`, `StartProofs`,
`LuaCallProofs` and `HashMapProofs`.

Nothing of the plan is left.  Further work would start at the composition named at the end
of section 5, a theorem that replaces the queue of `Process` by `Queue`.
