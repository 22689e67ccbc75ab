---------------------------- MODULE FutureChannel ----------------------------
(***************************************************************************)
(* FutureChannel of SwiftCompleter.cpp: a map from keys to the promises    *)
(* registered for them, guarded by a mutex.                                *)
(*                                                                         *)
(* Every GCD block makes at most one call: a block of DiagnosticsForFile   *)
(* calls future(key) and then get() on what it returns (a waiter), a       *)
(* block of NotificationReceiver calls set(key, value) (a setter).  A      *)
(* waiter's promise is named after the waiter and a value after the setter *)
(* that brings it.  Each step below is one access to the heap, the map or  *)
(* the mutex, so that the blocks interleave as the threads do.             *)
(***************************************************************************)
EXTENDS Naturals, Sequences

CONSTANTS Waiters,  \* blocks that call future(key).get()
          Setters,  \* blocks that call set(key, value)
          Keys,     \* the shared key space: document names
          Unset,    \* the shared state of a promise without a value
          Free      \* the mutex when nobody holds it

ASSUME ChannelAssumption ==
  /\ Waiters \cap Setters = {}
  /\ Unset \notin Setters
  /\ Free \notin Waiters \cup Setters

VARIABLES
  wkey,      \* the key each waiter passes to future()
  skey,      \* the key each setter passes to set()
  wpc,       \* where each waiter is in future() and get()
  spc,       \* where each setter is in set()
  mutex,     \* _shared_mutex: its holder, or Free
  promises,  \* _promises: for each key the promises pushed, oldest first
  heap,      \* life of each promise: "unborn", "live", "deleted"
  state,     \* value in the shared state of promise and future
  index      \* setter's position in the vector it walks

vars == <<wkey, skey, wpc, spc, mutex, promises, heap, state, index>>
keys == <<wkey, skey>>

WaiterPC == {"new", "lock", "push", "get_future", "unlock", "get", "done"}
SetterPC == {"lock", "find", "set_value", "delete", "erase", "unlock", "done"}

\* Steps taken with the mutex held (the scope of the lock_guard).
WaiterCritical == {"push", "get_future", "unlock"}
SetterCritical == {"find", "set_value", "delete", "erase", "unlock"}

\* Where the range-for of set() starts in a vector.
\* Mutant: before its first entry.
Begin_BeforeFirst == 0
Begin == 1

Init ==
  /\ wkey \in [Waiters -> Keys]
  /\ skey \in [Setters -> Keys]
  /\ wpc = [w \in Waiters |-> "new"]
  /\ spc = [u \in Setters |-> "lock"]
  /\ mutex = Free
  /\ promises = [k \in Keys |-> <<>>]
  /\ heap = [w \in Waiters |-> "unborn"]
  /\ state = [w \in Waiters |-> Unset]
  /\ index = [u \in Setters |-> Begin]

\* The constructor of a lock_guard.  Mutant: it does not wait.
Acquire_NoWait(block) == mutex' = block
Acquire(block) == mutex = Free /\ mutex' = block

-----------------------------------------------------------------------------
(* future(key), then get() on the future it returns *)

Goto(w, from, to) == wpc[w] = from /\ wpc' = [wpc EXCEPT ![w] = to]

NewPromise(w) ==
  /\ Goto(w, "new", "lock")
  /\ heap' = [heap EXCEPT ![w] = "live"]
  /\ UNCHANGED <<keys, spc, mutex, promises, state, index>>

LockFuture(w) ==
  /\ Goto(w, "lock", "push")
  /\ Acquire(w)
  /\ UNCHANGED <<keys, spc, promises, heap, state, index>>

\* Mutant: the entry is assigned a one-element vector.
push_back_Overwrite(vector, w) == <<w>>
push_back(vector, w) == Append(vector, w)

PushPromise(w) ==
  /\ Goto(w, "push", "get_future")
  /\ promises' = [promises EXCEPT ![wkey[w]] = push_back(@, w)]
  /\ UNCHANGED <<keys, spc, mutex, heap, state, index>>

\* promise->get_future(): a read of the promise, still under the lock.
GetFuture(w) ==
  /\ Goto(w, "get_future", "unlock")
  /\ UNCHANGED <<keys, spc, mutex, promises, heap, state, index>>

UnlockFuture(w) ==
  /\ Goto(w, "unlock", "get")
  /\ mutex' = Free
  /\ UNCHANGED <<keys, spc, promises, heap, state, index>>

\* future.get() blocks until the shared state has a value.
Get(w) ==
  /\ Goto(w, "get", "done")
  /\ state[w] # Unset
  /\ UNCHANGED <<keys, spc, mutex, promises, heap, state, index>>

-----------------------------------------------------------------------------
(* set(key, value) *)

Step(u, from, to) == spc[u] = from /\ spc' = [spc EXCEPT ![u] = to]

\* The vector set() walks and the promise it stands on.
Entries(u) == promises[skey[u]]
Current(u) == Entries(u)[index[u]]

LockSet(u) ==
  /\ Step(u, "lock", "find")
  /\ Acquire(u)
  /\ UNCHANGED <<keys, wpc, promises, heap, state, index>>

\* _promises.find(key): a key nobody waits for has no entry, and the value
\* is dropped.
FindNone(u) ==
  /\ Step(u, "find", "unlock")
  /\ Entries(u) = <<>>
  /\ UNCHANGED <<keys, wpc, mutex, promises, heap, state, index>>

\* Mutant: the entry is erased without its promises being fulfilled.
FindEntries_Skip(u) ==
  /\ Step(u, "find", "erase")
  /\ Entries(u) # <<>>
  /\ UNCHANGED <<keys, wpc, mutex, promises, heap, state, index>>

FindEntries(u) ==
  /\ Step(u, "find", "set_value")
  /\ Entries(u) # <<>>
  /\ UNCHANGED <<keys, wpc, mutex, promises, heap, state, index>>

SetValue(u) ==
  /\ Step(u, "set_value", "delete")
  /\ state' = [state EXCEPT ![Current(u)] = u]
  /\ UNCHANGED <<keys, wpc, mutex, promises, heap, index>>

DeletePromise(u) ==
  /\ \/ /\ index[u] < Len(Entries(u))
        /\ Step(u, "delete", "set_value")
     \/ /\ index[u] = Len(Entries(u))
        /\ Step(u, "delete", "erase")
  /\ heap' = [heap EXCEPT ![Current(u)] = "deleted"]
  /\ index' = [index EXCEPT ![u] = @ + 1]
  /\ UNCHANGED <<keys, wpc, mutex, promises, state>>

\* _promises.erase.  Mutant: the entry stays in the map.
erase_Kept(vector) == vector
erase(vector) == <<>>

EraseEntry(u) ==
  /\ Step(u, "erase", "unlock")
  /\ promises' = [promises EXCEPT ![skey[u]] = erase(@)]
  /\ UNCHANGED <<keys, wpc, mutex, heap, state, index>>

UnlockSet(u) ==
  /\ Step(u, "unlock", "done")
  /\ mutex' = Free
  /\ UNCHANGED <<keys, wpc, promises, heap, state, index>>

-----------------------------------------------------------------------------
Future(w) ==
  \/ NewPromise(w) \/ LockFuture(w) \/ PushPromise(w)
  \/ GetFuture(w) \/ UnlockFuture(w) \/ Get(w)

Set(u) ==
  \/ LockSet(u) \/ FindNone(u) \/ FindEntries(u) \/ SetValue(u)
  \/ DeletePromise(u) \/ EraseEntry(u) \/ UnlockSet(u)

Next == (\E w \in Waiters : Future(w)) \/ (\E u \in Setters : Set(u))

Spec == Init /\ [][Next]_vars

\* Each GCD block keeps running once started: a worker thread is never
\* suspended for good, and since every block makes one call the mutex is
\* requested finitely often, so weak fairness lets each block have it.
Fairness ==
  /\ \A w \in Waiters : WF_vars(Future(w))
  /\ \A u \in Setters : WF_vars(Set(u))

FairSpec == Spec /\ Fairness

-----------------------------------------------------------------------------
(* Properties *)

\* The state of future(), get() and set(): every vector of _promises holds
\* promises of waiters, and the iterator of set() counts from its first entry.
TypeOK ==
  /\ wkey \in [Waiters -> Keys]
  /\ skey \in [Setters -> Keys]
  /\ wpc \in [Waiters -> WaiterPC]
  /\ spc \in [Setters -> SetterPC]
  /\ mutex \in Waiters \cup Setters \cup {Free}
  /\ promises \in [Keys -> Seq(Waiters)]
  /\ heap \in [Waiters -> {"unborn", "live", "deleted"}]
  /\ state \in [Waiters -> Setters \cup {Unset}]
  /\ index \in [Setters -> Nat \ {0}]

\* The promise set() stands on exists, and so does the one get_future() is
\* called on: no block touches a promise another block has deleted.
NoUseAfterDelete ==
  /\ \A w \in Waiters : wpc[w] = "get_future" => heap[w] = "live"
  /\ \A u \in Setters :
       spc[u] \in {"set_value", "delete"} =>
         index[u] \in DOMAIN Entries(u) /\ heap[Current(u)] = "live"

\* promise->set_value() is called on a promise that has no value yet (it
\* throws std::future_error, and ends the process, on one that has).
SetValueOnce ==
  \A u \in Setters : spc[u] = "set_value" => state[Current(u)] = Unset

\* Waiter w's promise is in the vector of its key.
Pushed(w) ==
  \E i \in 1..Len(promises[wkey[w]]) : promises[wkey[w]][i] = w

\* Every promise allocated and not deleted is reachable: its block is about
\* to push it, or it is in the vector of its key, where set() will find it.
NoPromiseLost ==
  \A w \in Waiters :
    heap[w] = "live" =>
      wpc[w] \in {"lock", "push"} \/ Pushed(w)

-----------------------------------------------------------------------------
(* The channel implements PromiseChannel.  A set takes effect when it finds *)
(* its entry: from there to the erase, the promises of the entry count as   *)
(* fulfilled with the value of the setter that holds the mutex.             *)

\* Waiter w's promise is in an entry that the holder of the mutex fulfils.
Claimed(w) ==
  /\ Pushed(w)
  /\ mutex \in Setters
  /\ skey[mutex] = wkey[w]
  /\ spc[mutex] \in {"set_value", "delete", "erase"}

absRegistered == {w \in Waiters : Pushed(w) /\ ~Claimed(w)}
absResult == [w \in Waiters |-> IF Claimed(w) THEN mutex ELSE state[w]]
absFired == {u \in Setters : spc[u] \notin {"lock", "find"}}
absDelivered == {w \in Waiters : wpc[w] = "done"}

Channel == INSTANCE PromiseChannel WITH
             registered <- absRegistered, result <- absResult,
             fired <- absFired, delivered <- absDelivered

\* future() and set(), with all their interleavings, behave as the atomic
\* Register and Fulfil of PromiseChannel: a set reaches all the waiters of
\* its key registered at that time, each exactly once, and no other.
ImplementsPromiseChannel == Channel!Spec

\* A block that waits in get() when a set on its key is called returns: the
\* call cannot miss a promise registered before it.
RegisteredIsReached ==
  \A w \in Waiters, u \in Setters :
    (wpc[w] = "get" /\ spc[u] = "lock" /\ wkey[w] = skey[u])
      ~> (wpc[w] = "done")
=============================================================================
