# Verification of utils_tm

utils_tm is a header-only C++ library of concurrent data structures, memory
reclamation schemes and test utilities. This directory holds TLA+ models of its
core, configurations that model-check them on small instances with TLC, and
proofs checked by TLAPS that hold for every value of the constants.

The models follow the code at the granularity of its accesses to shared
memory: one action per atomic load, store or read-modify-write (or per critical
section), with the code between two accesses folded into the access before it.
Every definition that models code is listed in `PROJECT.json` under `map` with
the lines it stands for.

## Inventory

Paths are relative to `src/`.

| Component | State | Operations | Interacts with | What is hard about it |
|---|---|---|---|---|
| `thread_coordination.hpp` | static `level`, `wait_start`, `wait_end`; per thread `_stage` | `start_threads`, `synchronized`, `synchronize`, `execute_parallel`, `execute_blockwise_parallel` | runs every test | a reusable barrier made of counters that are reset while others may increment them; static state that outlives a call |
| `memory_reclamation/hazard_reclamation.hpp` | `_handles`, `_handle_counter`; per handle `_counter`, `_ptr[]` | `get_handle`, `~handle_type`, `protect`, `protect_raw`, `unprotect`, `guard`, `safe_delete`, `~hazard_manager` | guards, the lists | announcing a pointer races with its deletion; deletions are handed from slot to slot by marks |
| `memory_reclamation/counting_reclamation.hpp` | per object `_counter` with a deletion flag; `_freelist` under a mutex | `create_pointer`, `protect`, `protect_raw`, `unprotect`, `safe_delete` | guards, the lists, `circular_buffer` | counts of destroyed and recycled objects are touched |
| `memory_reclamation/delayed_reclamation.hpp` | per handle a freelist | `create_pointer`, `safe_delete`, `~handle_type` | guards, the lists | nothing shared; deletion is put off to the end of the handle |
| `memory_reclamation/sequential_reclamation.hpp` | - | - | - | cannot be instantiated |
| `memory_reclamation/reclamation_guard.hpp`, `default_destructor.hpp` | `_ptr` of a guard | constructors, move, `release`, `unmark`, destructor | the managers | moved and empty guards |
| `data_structures/many_producer_single_consumer_buffer.hpp` | `_pos`, `_buffer` of two halves, `_read_pos`, `_read_end` | `push_back`, `pop` | - | producers that stall between claiming a slot and storing into it while the halves are swapped |
| `data_structures/concurrent_circular_buffer.hpp` | `_push_id`, `_pop_id`, `_buffer` | `push`, `pop`, `size` | - | pushes and pops that lap each other |
| `data_structures/circular_buffer.hpp` | `_start`, `_end`, `_bitmask`, `_buffer` | push and pop at both ends, growth, iterators | freelists of the managers | unsigned offsets that pass below zero |
| `data_structures/concurrent_singly_linked_list.hpp` | `_head`, nodes | `push`, `find`, `contains`, `size`, iterators, copy, move, destructor | - | pushes beside walks, copies and moves of the same nodes |
| `data_structures/protected_singly_linked_list.hpp` | `_head`, nodes with marked pointers | `push`, `erase`, `remove`, `size`, iterators, destructor | a reclamation manager | erasing beside pushes, reads and other erasures |
| `allocators/tbb_pool_alloc.hpp` | a static pool and its state | `set_mempool_size`, `initialize_mempool`, the constructor of an allocator | tbb | one thread initialises, the others wait |
| `mark_pointer.hpp` | - | marks in the unused bits of a pointer | hazard, list | masks |
| `zipf_keygen.hpp` | table of sums | `initialize`, `generate` | - | two searches with different treatment of equality |
| `concurrency/memory_order.hpp` | - | names of memory orders | all | which orders the reclamation schemes really get |
| hashing, output, debug, command line, pinning, other allocators | - | - | - | no state or no logic of its own |

What makes each component correct is stated below with the module that models it.

## Modules

| Module | Models |
|---|---|
| `MPSCBuffer` | many_producer_single_consumer_buffer; implements `FifoQueue` |
| `ThreadCoordination` | main and sub threads of thread_coordination; implements `Barrier` |
| `ParallelFor` | extends `ThreadCoordination` with the parallel loops inside its stages |
| `HandleTable` | `get_handle` and the end of `~handle_type` of hazard_manager |
| `HazardReclamation` | extends `HandleTable` with the protections, deletions and handle destruction; implements `SafeReclamation` |
| `HazardStoreBuffer` | `HazardReclamation` with store buffers |
| `ManagerDestructor` | extends `HandleTable` with `~hazard_manager` |
| `CountingReclamation` | counting_manager and its freelist; implements `SafeReclamation` |
| `ConcurrentCircularBuffer` | concurrent_circular_buffer; implements `BoundedPool` |
| `CircularBuffer` | circular_buffer; implements `Deque`, with one exception |
| `ConcurrentSinglyLinkedList` | concurrent_singly_linked_list; implements `PushList` |
| `ReclamationGuard` | reclamation_guard |
| `DelayedReclamation` | extends `ReclamationGuard` with delayed_manager; implements `SafeReclamation` |
| `MempoolInit` | the initialization of the pool in tbb_pool_alloc |
| `ZipfKeygen` | zipf_keygen |
| `MarkPointer` | mark_pointer |
| `MCComponents` | composes `CircularBuffer`, `ConcurrentSinglyLinkedList`, `DelayedReclamation`, `ZipfKeygen` and `MarkPointer` for one run |
| `MCCoordination` | composes `ParallelFor` and `MempoolInit` for one run |
| `ProtectedSinglyLinkedList` | protected_singly_linked_list on top of what `SafeReclamation` promises; implements `ErasableList`, with one exception |
| `FifoQueue`, `Barrier`, `SafeReclamation`, `BoundedPool`, `Deque`, `ErasableList`, `PushList` | abstract specifications: what the components promise |
| `MC*` | instances for TLC: the symmetry sets |
| `*Proofs` | theorems and proofs |

In each module a section of "plausible bugs" precedes the actions: variants of a
definition that a bug in the code would amount to. None of them is part of the
specification. Substituting one for the definition it varies makes the property
that `PROJECT.json` pairs it with fail, which shows that the property depends
on that piece of code.

### MPSCBuffer

`pos` is `_pos` with its flag bit as a field; `buffer` holds both halves;
`readPos` and `readEnd` are the consumer's. A producer claims a slot with
`fetch_add` (`PushClaim`) and stores into it later (`PushStore`); the consumer
swaps the halves when its own is drained (`PopSwap`), spins on a dummy slot
(`AwaitElement`, a guard) and reads and clears it in two steps.

Run `mpsc` checks that a store always hits a free slot (`StoreHitsFreeSlot`);
that a slot in the range to be read is filled or about to be, and the types,
are part of the invariant of the proofs. It checks the refinement of `FifoQueue`: elements come out
in the order of the claims, once each, and pushes are refused only when at least
`Capacity` elements are queued. And it checks that pops return (`PopReturns`) and
claimed elements are consumed (`ClaimsAreConsumed`).

Bounds: two producers, two elements and a capacity of two, so that the halves
are swapped while one producer is stalled and the other one goes on, and a half
is overfilled; `MaxPos` limits the refused pushes per swap, each of which still
increments `_pos`. The safety properties are proved for any number of producers
and any capacity.

### ThreadCoordination, ParallelFor

`pc` says where a thread is in `synchronized`: outside, at the start barrier,
inside the function, at the end barrier, and for the main thread the store that
is next. One call of `synchronize` is the same with an empty function. The
program calls `start_threads` `Runs` times, and in call `r` each thread goes
through `Stages[r]` stages.

`ParallelFor` puts a loop into every stage: `counter` is the shared
`global_counter`, `claim[t]` the block a thread has taken with `fetch_add`. Every
thread takes one block beyond the end before it leaves. The main thread resets
the counter between two stages, as `test_allocators.cpp` does, while the sub
threads may be at the next start barrier already. `execute_blockwise_parallel`
differs only in who loops over a block. A loop of five indices in blocks of two
has a last block that is cut short, and fewer blocks than threads can take.

Run `coordination` has a first call of three stages and two more of one stage.
In the first, all threads go through the stages in lockstep
(`FirstCallInLockstep`), and the counters and the level implement `Barrier`
(`ImplementsBarrier`); that no arrival is lost is proved. The later calls meet the
level of the first. In every stage of every call the loop calls its function once
for each index (`EachIndexOnce`), also where the sub threads run through stale
barriers, and everybody finishes (`StagesFinish`). For the later calls both depend
on there being one stage (`LaterCallsShort`).

Run `coordination_restart` has two calls with two stages each, as the calls in
`test_reclamation_strategies.cpp` have; those of `test_allocators.cpp` have more.
`MainWaitsForOthers` says what the example in `thread_coordination.hpp` says of the
main thread, that it waits for all others before it returns from `synchronized`.
In the second call it fails (first finding below). A sub thread that is let through
by the stale level counts in for its second stage before the main thread has
looked; with two sub threads the counts are complete then, and the main thread
crosses both barriers although the other sub thread has not called `synchronized`
at all. (In `test_reclamation_strategies.cpp` the function of the sub threads waits
for the main thread's, so that there it is the end of that function which the
other sub thread may not have reached.) On the way, sub threads enter and leave the function of a stage that
others have not reached: nothing is left of the barriers. A loop in such a stage
loses or repeats indices, since the main thread resets the counter beside it
(TLC violates `EachIndexOnce` with `Stages = <<2, 2>>`). And a reset of the counts
may erase all the arrivals of a later stage: with deadlocks checked, TLC finds a
state in which every thread spins at the start of the second stage of the second
call, for `Stages = <<1, 2>>` as well as `<<2, 2>>`, two sub threads.

Bounds of `coordination`: three sub threads; every stage of the first call starts
from the same state with another level, so that more of them add nothing.

### HandleTable, HazardReclamation, ManagerDestructor

A handle is an entry of the table; `at[t]` is the entry a thread owns. In
`get_handle` the load of an entry and the compare_exchange are one step, since
a failed exchange means that the entry is owned at that moment.

`HazardReclamation` follows `protect` (load, count, announce, reload, replace),
`remove` with its five steps when the slot is not the last one, `mark` and the
walk of `safe_delete` and `continue_deletion`, and `~handle_type` slot by slot.
`mem` and `held` record what the program may rely on: which addresses hold an
object, and which protections have been handed to a caller.

Run `hazard_slots` checks that a retired object has exactly one deleter at all
times - a thread on its walk or a marked slot (`OneDeleter`) - the refinement of
`SafeReclamation` - an object is not destroyed while it is protected and not
destroyed twice (`ImplementsContract`) - and that a retired object does not stay
around for ever unprotected (`NoLeak`). `StateInv` has the rest of the inductive
invariant: the types; what each operation may rely on about its slot
(`HandlesInOrder`); that protections stay announced while slots are moved
(`ProtectionsAnnounced`) and concern objects that exist (`ProtectedExists`); and
that a protection of a retired object is announced in a slot the walk of its
deleter has still to come by (`ProtectionsAhead`). `hazard_threads` checks the refinement with a third
thread, and the handle table: a thread finds an entry when there are no more
threads than entries (`AlwaysFindsHandle`), an entry has one owner
(`ExclusiveHandles`), and the scans reach all of them (`ScansCoverHandles`);
`HandlesSafe` is the three together. All of these but `NoLeak` are proved.

Bounds: two threads with two protections (moving a slot down, also one that is
marked meanwhile, takes two) and two addresses, and three threads with one
protection and two addresses (a retiring thread, a protecting one and one that
hands over). Addresses are used again after they have been freed, so ABA is
covered. The table has one entry per thread; the proofs cover any number.

The program of these models keeps the rules of the interface: it retires a
pointer once, after having exchanged it away, guards a raw pointer only if it
created it or protects it already, and keeps within `maxThreads` and
`maxProtections`.

`HazardStoreBuffer` drops the assumption of sequential consistency at one place
(second finding). `ManagerDestructor` lets one thread run the destructor of the
manager while others still own handles (third finding).

### CountingReclamation

`count` is the word of an object, the deletion flag and the references. It
exists for an address whether or not there is an object; memory is recycled
through the freelist with its count. Run `counting` checks that the count is
exact, including threads which have counted themselves into an object that is
gone (`CountsReferences`), that what is protected exists and is not being erased
(`ProtectedExists`), that a retired object is always still to be flagged,
flagged, or being erased, by one thread (`DeletionPending`), that the freelist
holds no address twice, nor one whose object exists (`FreelistSound`; the three
are checked with the types as `StateInv`), the refinement of `SafeReclamation`,
and that retired objects are destroyed (`NoLeak`). All of these but `NoLeak` are
proved.

Bounds: three threads, two addresses, two protections per thread at a time. Two addresses are enough to retire an object, recycle its memory and
publish it again while a thread is still between its load and its increment.

### ConcurrentCircularBuffer

A thread in `push` or `pop` has its ticket and works on one slot. A
compare_exchange that fails changes nothing and is not a step; the exchange of
`pop` may miss, after which the thread spins with loads. The ticket counters are
words that wrap around (`Words`, a multiple of the capacity as 2^64 is), so that
no bound on the number of operations is needed. Elements are distinct, and each
is in the hands of the program or in the buffer. `size` loads both words, in an
order that C++ leaves open for the operands of a difference, so each of the two
orders is an action of its own (`SizeLoadPush`, `SizeLoadPop`), and the other load
comes later (`SizeReturn`).

Run `concurrent_circular` checks the refinement of `BoundedPool` (elements are
neither lost, nor overwritten, nor given to two pops); that `size` is
the number of elements in use at its second load - in the buffer or being pushed,
less the pops under way - but for the tickets drawn from the word it has loaded
first, between the two loads (`SizeOffByTicketsBetween`). So it is exact if nobody
draws one; if `_push_id` comes first it misses pushes, and may fall below zero
although the number has not, and if `_pop_id` does it counts elements that are
gone. The run also checks that a push which waits on an occupied slot never faces a
pop which waits on an empty one with nobody else to help (`NoMutualWait`), which
needs that slots are dealt in turn to both; that the buffer as a whole keeps
completing operations although a thread may starve (`KeepsCompleting`); and that
it is a FIFO queue as long as there is one push and one pop at a time
(`FifoWithoutOverlap`). Overlapping pushes may overtake each other, even two of
one producer's elements: the code promises no more.

Bounds: four threads on two slots, so that two pushes and two pops meet at one
slot; three elements; words of four values, so that they wrap around every other
lap. One of the threads also calls `size` (`Readers`): calls of `size` do not write,
so that several of them do not meet. The theorems hold for any number.

### CircularBuffer

The module keeps the word arithmetic of `_start` and `_end` and the slots they
are reduced to. `Room` is the buffer after `grow` if the check of a push calls
it. An iterator is an offset; `Contents` is what one visits on its way from
`begin` to `end`. Checked are, in run `components`, that the buffer implements
`Deque` until a push meets a full buffer which does not grow
(`BufferImplementsDeque`); that this happens only where the elements end at
offset 0, and growth with room left only where the check overflows
(`BufferSeesFull`); and that exactly the slots of elements hold objects and
iterators see the elements in the same order forwards, backwards and by
subscripts (`BufferStateInv`). `circular_wrap` is the exception (last finding).

Bounds: words of 32 values with capacities 2, 4 and 8 and a first offset of 4,
in place of 2^64, 32 and more, and 2^31; offsets pass zero in both directions
with every capacity.

### ConcurrentSinglyLinkedList

Lists exist between a construction and a destruction (`head` is defined for
those), nodes from their allocation to their destruction (`value` likewise). A
push is the allocation with the first load of the head, and then attempts of the
compare_exchange. A walk - `size`, `find`, `contains` or the copy constructor -
goes from node to node, one load at a time. Moves are one exchange; they, pushes
and walks may all happen at once on one list. A list is destroyed or assigned to
only when no call on it is running and nobody walks over its nodes.

Run `components` checks the refinement of `PushList` (`ListImplementsPushList`:
an element is added once, in front, and a copy has the order of its source),
that each node is in one list, or in the hands of one thread, and none leaks,
and that a walk sees exactly the nodes that were there when it began
(`ListStateInv`).

Bounds: two threads, two lists, four nodes with two values: a list with two
different elements can be copied while a thread still has a push to finish; a
head can be moved away, destroyed and pushed again between the load and the
compare_exchange of another push.

As written the class can only be instantiated with an allocator whose traits do
not care for the element type, for it allocates nodes through the traits of the
allocator of elements. The model has the allocation that is meant.

### ReclamationGuard, DelayedReclamation

A thread has `Slots`, variables that may hold a guard: a pointer with its mark.
All guards are moved, assigned, released and unmarked in any order, also empty
ones. `protection` counts the calls that reach the manager. In
`DelayedReclamation` these calls do nothing, which is the point of this manager:
`freelist[t]` keeps what thread `t` has retired until its handle is destroyed,
after the last synchronization of the program, when no guard is left.

Run `components` checks that protections and guards balance and that a retired
object is listed once (`DelayedStateInv`), and that the delayed manager keeps
the promise of the other two (`DelayedImplementsContract`, the refinement of
`SafeReclamation`, with the guards as what is held).

Bounds: two threads, two objects, one shared pointer, two guards per thread:
one to move to and from, for both objects at once.

### MempoolInit

`state` and `pool` are the static `_pool_state` and `_pool`, `pc[t]` the place of
a thread in `initialize_mempool` or `_check_mempool`. Destroying the first pool,
`malloc`, building the pool anew and publishing it are steps of their own, as is
the failure of `malloc`.

Run `coordination` checks that one thread at a time works on the pool and that the
pool is there, and stays, once a thread has been told so (`PoolIsReady`), and
that every call returns (`PoolCallsReturn`). After a failed `malloc` a thread that
waited is told yes all the same, and the constructor of the allocator looks at
no answer; `PoolIsReady` makes that exception.

Bounds: three threads (one that wins, one that waits, one that arrives later),
two sizes.

### ZipfKeygen

Sums and random numbers are integers: the two searches only compare them. A
weight may be 0, for the sums of a long table no longer grow in double
precision. Run `components` checks, for every table of up to six keys with
weights up to 2 and every random number, that the key found is in the table and
its part of the sums contains the number (`KeyFitsNumber`), and that the
bisection keeps the number between its two ends and always leaves less to search
(`KeySearchConverges`). Two keys are tried one by one in place of 100, so that
tables shorter, as long and longer than that occur.

### MarkPointer

A word is the set of positions of its bits; with sets, and, or, minus one and
shifts are what the definitions say. Threads load, mark with compare_exchange,
unmark, clear and set the flags of one pointer, and run `components` checks that
flags and address never touch each other (`FlagsAndAddressApart`). A word has
four bits of which two are flags, in place of 64 and 16.

### MCComponents, MCCoordination

Components that do not interact are checked together in two runs: a behaviour
picks a component (`part`) and then is one of its behaviours, with the variables
of the others at their initial values. A property restricts itself to the
behaviours of its component. `MCComponents` holds the safety of the buffer, the
list, the delayed manager, the keys and the marks, and uses the symmetry of nodes
and threads. `MCCoordination` holds the components in which threads wait for each
other, the stages with their loops and the memory pool, with the fairness of
their modules and no symmetry.

### ProtectedSinglyLinkedList

`head`, `next` and `value` are the list's words; `loc[t]` holds the guards and
the other locals of the operation thread `t` is in. The module models `push`,
`erase` and `size` with their retries, an iteration from `begin` to `end`, the
destruction of the list (which, with the move of an empty list into its place,
is how the test begins a round), the private `remove` of `erase` and `size`, and
`protect` of `hazard_manager` as a load, the announcement and reloads until two
agree. What the manager does beyond that is taken from `SafeReclamation`: a
retired node is destroyed at some later time, but not while a guard covers it
that was taken before the node was retired. A guard taken later has `safe` false
and keeps nothing. Addresses are used again.

`erase` only marks: the call of `remove` that follows returns at its first test,
since the next node is not marked, and the erased node stays in the chain until
another operation walks over it.

An iterator does not look at marks, and the destructor deletes what it finds,
so neither may run beside an `erase` or before marked nodes have been taken out;
the actions `CallIterate`, `CallErase` and `Destruct` are guarded accordingly.
Iterations beside pushes, other iterations and `size` are free.

Run `protected_list` checks that no thread accesses a node that has been
destroyed, or unlinks or retires one twice (`TouchesNodes`); that the chain from
`_head` ends, consists of nodes that have not been retired, and holds all the
elements, and that a node outside it is about to be retired, so that none leaks
(`ChainHoldsElements`; both are checked with the types as `StateInv`); the
refinement of
`ErasableList` - an element is erased once, and an erase gives up only if the
element it looks for was not there all the time
(`ImplementsListUntilDoubled`); that `size` and an iteration are right when
nothing changes and never miss an element that is there all the time
(`SizeIsRight`); and that an
operation starts over only because another one has changed the list or because
it has removed a node itself (`RetriesAreExcused`), so that the list is lock-free.

The refinement has one exception, which `doubled` records: an `erase` that
stands on a node while another thread unlinks it reads the node's pointer to
itself. If the node holds the value it looks for it marks that pointer and
returns 1, although the element has been erased by somebody else before. The
test for such a node comes after the test for the value.

`stable`, `disturbed`, `changed` and `doubled` are history variables, used by
the properties alone.

Bounds: two threads, three nodes, two values, one of which is erased (`Erased`).
A node is then removed between two others, and one thread erases, unlinks and
retires what the other one stands on, or pushes its address again. Three threads
with two nodes have been checked too.

With `counting_manager` instead, `protect` counts itself into a node and then
compares. That variant is not modelled.

## Findings

1. `level`, `wait_start` and `wait_end` are static and `start_threads` does not
   reset them. From the second call on, sub threads find `level` at the value of
   the call before and cross their barriers without waiting
   (`coordination_restart`). The comment on `synchronize` promises a barrier, and
   the example that the main thread waits for all others; with two stages per
   call it returns from `synchronized` before another thread has called it. Such
   a call can even hang, see above.
2. `hazard_manager::internal_handle::insert` announces a pointer with a release
   store and `protect` checks the shared pointer with an acquire load. The store
   may become visible after the load, also on x86, and then an object is
   destroyed while it is protected (`hazard_store_buffer`). The switch
   `MAKE_SEQ_CST` does not help, since the policy the manager uses ignores it.
3. `~hazard_manager` means to wait for living handles but loads each entry
   before the loop and tests the copy, so it never returns once it has seen one
   (`manager_destructor_waits`).
4. `circular_buffer` compares words that may have wrapped. After growing, pushes
   in front pass below offset 0, and a full buffer whose elements end at 0 is
   taken to have room: the next push overwrites an element (`circular_wrap`).
   Offsets just below 0 have the opposite effect, a buffer with room grows.

## Fairness

Weak fairness is assumed for the steps of operations that have begun: threads
are preempted, never stopped. Nothing is assumed about operations that a
program may or may not begin; where a property needs the program to go on (an
owner that keeps popping, functions passed to `synchronized` that return,
threads that give back their handles) the fair specification says so next to
its definition. No strong fairness is used. In `MempoolInit` a thread that is in
a call goes on, the one that initializes like those that wait for it, since
`malloc` returns; in `ParallelFor` the function of the loop returns.

## Proofs

All theorems hold for every value of the constants under the named assumptions
of the modules.

* `MPSCBufferProofs`: the invariant `IndInv` is inductive. Its core is
  `HalvesApart`: every claim lies either in the half being filled, below
  `_pos`, or in the unread rest of the half being drained, so no two claims
  meet and a store never overwrites. `StoreHitsFreeSlot` and
  `SlotsAccountedFor` follow. For the refinement of `FifoQueue` the queue is
  compared element by element: its `k`-th element is in, or on its way to, the
  `k`-th slot counted from the consumer, over the end of one half into the other
  (`SlotOf`). A claim appends, a swap and a store change no element, and
  clearing a slot takes the first.
* `CoordinationProofs`, for the first call of `start_threads`:
  `level` is what the main thread has crossed, every sub thread is within one
  step of it, and the counters are the numbers of waiting threads; cardinalities
  carry over the argument that a full count means everybody.
  `FirstCallInLockstep`, `NoArrivalLost` and the refinement of `Barrier` follow.
  For later calls `InLaterCall` says what is left if they have one stage: sub
  threads count in once at the start and once at the end, whether or not they
  wait, so that a counter which the main thread still reads is the number of
  those that have come by. `LaterCallsShort` is a hypothesis about the program that
  calls `start_threads`, and only the loop theorem for later calls has it. The
  calls in `test_reclamation_strategies.cpp` and `test_allocators.cpp`, with several
  stages each, do not satisfy it, and nothing is proved of them but their first.
  The parallel loop builds on this. Claims never
  overlap and end at or below the counter (`BlocksApart`), and an index has been
  executed exactly if it is below the counter and in nobody's block
  (`ExecutedBelow`). That the counter is reset between the loops of two stages
  needs that everybody who loops is inside the main thread's stage, or has
  nothing left (`LoopsInStages`): hence `EachIndexOnce`, under `LaterCallsShort`
  as well. For the memory pool, one thread at most is between its winning
  compare_exchange and its publishing store (`OneInitializes`), hence
  `PoolIsReady`.
* `ConcurrentCircularBufferProofs`: what a slot is owed is its element plus the
  pushes minus the pops that work on it, which is the number of push tickets
  minus the number of pop tickets it has been dealt. As tickets are dealt in turn,
  also where the words wrap, this differs between two slots by at most one
  (`DealtInTurn`, which says by how much). A push waiting on an occupied slot and
  a pop waiting on an empty one would make it differ by three, hence
  `NoMutualWait`. Summed over the slots, the words differ by
  what is in use (`WordsCountUse`), and what a call of `size` has loaded is behind
  its word by the tickets drawn since (`LoadedIsBehind`): hence
  `SizeOffByTicketsBetween`. Elements are in one place each (`ElementsApart`), which
  is what the refinement of `BoundedPool` needs beyond `IndInv`.
  Without overlaps, the slots behind that of the last finished pop hold the
  elements and the rest of the ring is empty (`Holds`), the one push works on the
  slot behind them and the one pop on their first (`AtTheirEnds`): hence
  `FifoWithoutOverlap`. A full buffer can be told from an empty one by its
  tickets since `Capacity`, itself a word, is less than `Words`.
* `CountingReclamationProofs`: `IndInv` is `StateInv` and `CountsReferences`.
  The count must include the threads that have counted themselves into a pointer
  which has been exchanged away since, for the memory may hold another object by
  then; without them neither a count of zero nor a flag says anything. Each
  action changes one of the sets behind the count by one element, and lemmas on
  cardinalities turn that into the arithmetic of the word. `ImplementsContract`
  follows: the eraser of an object is the only one (`DeletionPending`) and the
  object is not protected (`ProtectedExists`).
* `HazardReclamationProofs`, the handle table: the invariant (`TableInv`) counts
  threads: at most `MaxHandles - k` of them are at entry `k` or beyond
  (`RoomAhead`), because passing an entry over leaves its owner behind. So the
  single pass of `get_handle` finds an entry when there are no more threads than
  entries, and `ExclusiveHandles` and `ScansCoverHandles` follow, hence
  `HandlesSafe`.
  The slots: `IndInv` adds `TableInv` to `OneDeleter` and the parts of
  `StateInv`; the theorems about the table carry over
  since every step is one of the table or leaves it alone. `OneDeleter` alone
  is not inductive: a mark moves with its slot, exists twice for two steps of
  `remove` (`IsUpperCopy`), and is taken along by a thread that empties its slot, so the
  invariant must say what each thread at each step may still find in its slots
  (`SlotsInOrder`). Nor does it exclude that an object is destroyed at the end
  of a walk while it is protected; for that, `ProtectionsAhead` says that every
  thread which protects an object has announced it in a slot the deleter has
  still to come by. It is inductive because the walk and `remove` both go
  downwards, and because a new protection is either taken while the object is
  not retired (the second load of `protect` finds it in a shared pointer, or it
  is the creator's), or by a thread that protects the object already. The proof
  has one lemma per action. It uses a form of the invariant that looks at one
  thread and the slots of its handle, with lemmas for what a step leaves alone
  (`OwnKeeps`, `QuietKeeps`), for moving a slot down (`MovesDownKeeps`) and for
  a step of the walk (`WalkKeeps`). `MarkSlot`, which alone writes into the
  handle of another thread, and the end of the walk have lemmas of their own.
* `ConcurrentSinglyLinkedListProofs`: what a list holds is what one reaches from
  its head, but the invariant (`ListsInv`) does not follow pointers. It says that
  the nodes can be arranged: there are sequences of nodes, one for each list and
  one for each thread that copies or is about to push, and a place for each node,
  such that an allocated node occurs once, in the sequence of its place
  (`Owned`), and the next pointers lead from each node to the one after it
  (`Linked`). `ChainIs` is the one induction: such a sequence is what one
  reaches, and memory being finite it fits (`NodesAssumption`). A push, a copied
  node, a move and a destruction append to a sequence, put one in front of
  another or empty one, and of the pointers change those of nodes which are with
  the thread or go. A thread walks over nodes that are in lists, not
  necessarily in one or in the one it began with (`Walks`), which pushes and
  moves leave as they are and which may not be destroyed (`Quiet`). That a head
  which is allocated again while a push has it as the expected one does no harm
  follows as well: the node's pointer always is the head the CAS compares with.
  `ListStateInv` and the refinement of `PushList` follow, step by step.
* `ProtectedSinglyLinkedListProofs` arranges the nodes that are reached from
  `_head` in a sequence `c` (`Chained`; `ChainIs`: it is `Chain`) and says what
  each thread relies on (`Fits`: `OpFits` of its step and operation, `GuardsFit`
  of its guards, `NodesFit` of the nodes it is at). A live node outside of `c`
  is with the one thread that has unlinked it, and is marked or points to
  itself; a retired node points to itself. So an unmarked pointer to another
  node, read through a guard, is that of a node in `c` and leads to one
  (`StillInChain`). `FitsStill` says what a step may change without disturbing
  the others (`Undisturbed`). A push puts a node in front of `c`, an unlink takes
  one out (`Without`), the destructor leaves nothing, and every other step keeps
  `c`. `StateInv` follows.
  The other three properties need what a thread has seen so far (`Tracked`). What
  has been there all the time lies at or behind the node the thread stands on, or
  it has been counted, or, for an erase, it is not what it looks for (`Walked`,
  with `Before(c, o)`). Without a change, a walk has counted exactly what is in
  front of it (`Exact`), and without one by others the node a thread stands on is
  where it found it (`Alone`). A node that has been unlinked is a shortcut over
  nodes that are gone: what is behind it is not skipped (`Overlooks`, `Expects`
  for the steps of others). `Means` then says of each step whether its
  operation goes on, gives up or has counted, erases an element or adds one; the
  refinement of `ErasableList`, `SizeIsRight` and `RetriesAreExcused` are read
  off it.
* `ComponentsProofs` proves what `MCComponents` checks, for the composition.
  Keys: `Zipf!IndInv` keeps the number between the sums at the two ends of the
  search; what it needs of the table, the type of the sums that a recursion
  computes, is an induction. Marks: the bits of a word are a set, and the theorem
  is about sets.
  Guards and the delayed manager: `DelayedStateInv` counts the guards on each
  object, and every action of a guard moves one of them, adds one or takes one
  away; `ObjectsApart` (an address is free, live, or listed) and
  `GuardsAreBacked` (a guard holds what has not been destroyed) make it
  inductive, and the refinement of `SafeReclamation` follows.
  Circular buffer: the invariant is that the slots hold some sequence
  (`Holds`), and each push and pop is shown to be its operation on that sequence;
  a push after `grow` is the same operation on the larger buffer. What an
  iterator visits is a recursive function, and by induction on the way that is
  left it visits that sequence, in both directions. The arithmetic is that of
  any power of 2 (`IsPowerOf2`: no odd divisor but 1) as the number of words
  and any smaller one as a capacity; of two powers the smaller one divides the
  larger one, so that reducing a word that has wrapped gives the slot it should.

The theorems about induction of the library take an operator, which the provers
cannot instantiate. Where an induction is needed, over the entries of a table,
along a chain or over the naturals, the proofs use that a set of naturals has a
least element (`LeastElement`, from the library's theorem on well-founded
relations): the set is that of the counterexamples.

Every invariant and every action property that a run checks is proved. Only
model-checked are the liveness properties (`PopReturns`, `ClaimsAreConsumed`,
`StagesFinish`, `PoolCallsReturn`, `NoLeak` and `KeepsCompleting`): liveness under
fairness is out of reach of the prover.

## Not modelled

Parts listed in `PROJECT.json` as not modelled, with the reasons. Within the
modelled parts:

* what cannot be instantiated: the bulk `push_back` of the
  many_producer_single_consumer_buffer; `find`, `contains` and `push_or_find` of
  the protected list and the postfix increment of its iterators; `atomic_unmark`,
  `atomic_unmark_cas` and `atomic_clear`; `get_handle` of sequential_manager;
* copying and moving of objects that are not in concurrent use, and the
  destruction of buffers. The constructors of `circular_buffer` that copy or move
  leave `_start` and `_end` uninitialised, and its destructor destroys slots
  without objects, so that nothing can be said of the result;
* iterators of `circular_buffer` that are added to or ordered: `operator+` leaves
  out the offset, and `compare_offsets` returns its -1 as an unsigned word, so
  that no iterator is less than another;
* `generate` of a zipf_generator without keys, which does not end;
* a guard of `nullptr` with the hazard manager, which uses up a slot;
* the library's pool behind tbb_pool_allocator, printing, measuring of time;
* weak memory orders other than the one of the second finding. The atomic
  accesses are taken to be sequentially consistent everywhere else.

## Plan

The modelling is complete up to the list above, and so are the proofs of the
safety properties. What is left is to follow the code as it changes.
