------------------------------ MODULE MempoolInit ------------------------------
(***************************************************************************)
(* allocators/tbb_pool_alloc.hpp: the pool that all tbb_pool_allocators    *)
(* share.  It exists from the start with a small size.  It is replaced     *)
(* once: by a thread that gives it memory (initialize_mempool), or by the  *)
(* first thread that constructs an allocator (_check_mempool), while the   *)
(* others that construct one wait.                                         *)
(***************************************************************************)

CONSTANTS
  Threads,
  Sizes,      \* the sizes a pool may be given
  SmallSize,  \* the size of the first pool, 1024
  NoSize      \* there is no pool

VARIABLES
  state,        \* _pool_state
  defaultSize,  \* _default_pool_size
  pool,         \* the size of _pool, or NoSize between destructor and new
  failed,       \* malloc has failed
  pc,           \* per thread: where it is
  size,         \* per thread: the size of the pool it is going to build
  answer        \* per thread: what its last call has returned

vars == <<state, defaultSize, pool, failed, pc, size, answer>>

Init ==
  /\ state = "uninitialized"
  /\ defaultSize \in Sizes
  /\ pool = SmallSize
  /\ failed = FALSE
  /\ pc = [t \in Threads |-> "idle"]
  /\ size = [t \in Threads |-> NoSize]
  /\ answer = [t \in Threads |-> "none"]

Goto(t, l) == pc' = [pc EXCEPT ![t] = l]
Return(t, a) == Goto(t, "idle") /\ answer' = [answer EXCEPT ![t] = a]

------------------------------------------------------------------------------
(* Plausible bugs, each substituted for the definition it varies.          *)

NeverWaits(t) ==
  /\ pc[t] = "wait"
  /\ Return(t, "yes")
  /\ UNCHANGED <<state, defaultSize, pool, failed, size>>
StateKept == state

------------------------------------------------------------------------------
SetMempoolSize(s) ==
  /\ defaultSize' = s
  /\ UNCHANGED <<state, pool, failed, pc, size, answer>>

MayInitialize(s) == s = "uninitialized"

(* initialize_mempool: the memory is the caller's.                         *)
InitializeMempool(t, s) ==
  /\ pc[t] = "idle"
  /\ IF MayInitialize(state)
     THEN /\ state' = "initializing"
          /\ Goto(t, "destroy")
          /\ size' = [size EXCEPT ![t] = s]
          /\ UNCHANGED answer
     ELSE Return(t, "no") /\ UNCHANGED <<state, size>>
  /\ UNCHANGED <<defaultSize, pool, failed>>

(* The constructor of an allocator calls _check_mempool, which loads the   *)
(* state.                                                                  *)
CheckMempool(t) ==
  /\ pc[t] = "idle"
  /\ CASE state = "uninitialized" -> Goto(t, "cas") /\ UNCHANGED answer
       [] state = "initializing"  -> Goto(t, "wait") /\ UNCHANGED answer
       [] state = "initialized"   -> Return(t, "yes")
       [] state = "bad_state"     -> Return(t, "no")
  /\ UNCHANGED <<state, defaultSize, pool, failed, size>>

CheckCas(t) ==
  /\ pc[t] = "cas"
  /\ IF MayInitialize(state)
     THEN state' = "initializing" /\ Goto(t, "load_size")
     ELSE Goto(t, "wait") /\ UNCHANGED state
  /\ UNCHANGED <<defaultSize, pool, failed, size, answer>>

LoadSize(t) ==
  /\ pc[t] = "load_size"
  /\ size' = [size EXCEPT ![t] = defaultSize]
  /\ Goto(t, "destroy_first")
  /\ UNCHANGED <<state, defaultSize, pool, failed, answer>>

(* _pool.~_pool_type() and delete[] _pool_ptr.                             *)
DestroyPool(t) ==
  /\ \/ pc[t] = "destroy" /\ Goto(t, "build")
     \/ pc[t] = "destroy_first" /\ Goto(t, "malloc")
  /\ pool' = NoSize
  /\ UNCHANGED <<state, defaultSize, failed, size, answer>>

Malloc(t) ==
  /\ pc[t] = "malloc" /\ Goto(t, "build")
  /\ UNCHANGED <<state, defaultSize, pool, failed, size, answer>>

MallocFails(t) ==
  /\ pc[t] = "malloc" /\ Return(t, "no")
  /\ failed' = TRUE
  /\ state' = "bad_state"
  /\ UNCHANGED <<defaultSize, pool, size>>

BuildPool(t) ==
  /\ pc[t] = "build" /\ Goto(t, "publish")
  /\ pool' = size[t]
  /\ UNCHANGED <<state, defaultSize, failed, size, answer>>

StateBuilt == "initialized"
PublishPool(t) ==
  /\ pc[t] = "publish" /\ Return(t, "yes")
  /\ state' = StateBuilt
  /\ UNCHANGED <<defaultSize, pool, failed, size>>

(* The waiting loop ends, and falls through to the answer yes.             *)
WaitEnds(t) ==
  /\ pc[t] = "wait" /\ state # "initializing"
  /\ Return(t, "yes")
  /\ UNCHANGED <<state, defaultSize, pool, failed, size>>

Working(t) ==
  \/ CheckCas(t) \/ LoadSize(t) \/ DestroyPool(t) \/ Malloc(t) \/ MallocFails(t)
  \/ BuildPool(t) \/ PublishPool(t) \/ WaitEnds(t)

Next ==
  \/ \E s \in Sizes : SetMempoolSize(s)
  \/ \E t \in Threads :
       \/ Working(t) \/ CheckMempool(t)
       \/ \E s \in Sizes : InitializeMempool(t, s)

(* A thread that is in a call goes on.                                     *)
Fairness == \A t \in Threads : WF_vars(Working(t))
Spec == Init /\ [][Next]_vars /\ Fairness

------------------------------------------------------------------------------
(* Properties.                                                             *)

TypeOK ==
  /\ state \in {"uninitialized", "initializing", "initialized", "bad_state"}
  /\ defaultSize \in Sizes
  /\ pool \in Sizes \cup {SmallSize, NoSize}
  /\ failed \in BOOLEAN
  /\ pc \in [Threads -> {"idle", "cas", "wait", "load_size", "destroy_first",
                         "destroy", "malloc", "build", "publish"}]
  /\ size \in [Threads -> Sizes \cup {NoSize}]
  /\ answer \in [Threads -> {"none", "yes", "no"}]

Initializing(t) ==
  pc[t] \in {"load_size", "destroy_first", "destroy", "malloc", "build", "publish"}

OneInitializes == \A t, u \in Threads : Initializing(t) /\ Initializing(u) => t = u

(* One thread at a time touches the pool, while the state says so; and     *)
(* from the first answer yes on, the pool is there to allocate from, and   *)
(* nobody destroys it.  The exception is a failed malloc: the state then   *)
(* is bad for good, but the threads that waited are told yes as well.      *)
PoolIsReady ==
  /\ TypeOK
  /\ OneInitializes
  /\ state = "initializing" <=> \E t \in Threads : Initializing(t)
  /\ state = "initialized" => pool \in Sizes
  /\ (\E t \in Threads : answer[t] = "yes") /\ ~failed =>
       pool \in Sizes /\ \A t \in Threads : ~Initializing(t)

(* Why: the state leaves "uninitialized" once, together with the thread    *)
(* that is to initialize, and what it leads to is final.  A thread waits,  *)
(* or has an answer yes, only when the state has left it.                  *)
IndInv ==
  /\ TypeOK
  /\ OneInitializes
  /\ state = "initializing" <=> \E t \in Threads : Initializing(t)
  /\ state = "initialized" => pool \in Sizes
  /\ state = "bad_state" <=> failed
  /\ \A t \in Threads :
       /\ Initializing(t) /\ pc[t] # "load_size" => size[t] \in Sizes
       /\ pc[t] = "publish" => pool \in Sizes
       /\ pc[t] = "wait" => state # "uninitialized"
       /\ answer[t] = "yes" => state \in {"initialized", "bad_state"}

(* Every call returns: who waits is not left waiting, even when the thread *)
(* that initializes fails.                                                 *)
CallsReturn == \A t \in Threads : pc[t] # "idle" ~> pc[t] = "idle"
==============================================================================
