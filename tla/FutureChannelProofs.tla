------------------------ MODULE FutureChannelProofs ------------------------
(***************************************************************************)
(* Proofs about FutureChannel, for any number of blocks and keys.          *)
(*                                                                         *)
(* The safety properties are not inductive: that set() never touches a     *)
(* deleted promise depends on who holds the mutex, on what is in the       *)
(* vectors, and on how far a set() in progress has come.  IndInv says all  *)
(* of that.                                                                *)
(***************************************************************************)
EXTENDS FutureChannel, TLAPS

\* A block is in the scope of its lock_guard exactly when it has the mutex.
MutexInv ==
  /\ \A w \in Waiters : wpc[w] \in WaiterCritical <=> mutex = w
  /\ \A u \in Setters : spc[u] \in SetterCritical <=> mutex = u

AfterPush == {"get_future", "unlock", "get", "done"}

\* A vector holds promises of blocks that asked for its key and are past
\* push_back, each once.
VectorInv ==
  \A k \in Keys : \A i \in 1..Len(promises[k]) :
    /\ wkey[promises[k][i]] = k
    /\ wpc[promises[k][i]] \in AfterPush
    /\ \A j \in 1..Len(promises[k]) : promises[k][i] = promises[k][j] => i = j

\* The loop of set() in u has dealt with the i-th promise of its vector.
Passed(u, i) ==
  \/ spc[u] \in {"set_value", "delete"} /\ i < index[u]
  \/ spc[u] = "erase"

\* The promises the loop has passed are set and deleted.
WalkInv ==
  \A u \in Setters :
    /\ spc[u] \in {"lock", "find"} => index[u] = 1
    /\ spc[u] \in {"set_value", "delete"} => index[u] \in 1..Len(Entries(u))
    /\ spc[u] = "delete" => state[Current(u)] = u
    /\ \A i \in 1..Len(Entries(u)) :
         Passed(u, i) => heap[Entries(u)[i]] = "deleted" /\ state[Entries(u)[i]] = u

\* The others in the vectors are live and have no value, but for the one
\* whose set_value has just returned.
LiveInv ==
  \A k \in Keys : \A i \in 1..Len(promises[k]) :
    (\A u \in Setters : skey[u] = k => ~Passed(u, i)) =>
      /\ heap[promises[k][i]] = "live"
      /\ \/ state[promises[k][i]] = Unset
         \/ \E u \in Setters : skey[u] = k /\ spc[u] = "delete" /\ index[u] = i

\* Where a promise is before it is in its vector, and after.
PromiseInv ==
  \A w \in Waiters :
    /\ wpc[w] = "new" => heap[w] = "unborn" /\ state[w] = Unset
    /\ wpc[w] \in {"lock", "push"} => heap[w] = "live" /\ state[w] = Unset
    /\ wpc[w] = "get_future" => heap[w] = "live"
    /\ heap[w] = "live" => wpc[w] \in {"lock", "push"} \/ Pushed(w)
    /\ heap[w] = "unborn" => wpc[w] = "new"

IndInv ==
  TypeOK /\ MutexInv /\ VectorInv /\ WalkInv /\ LiveInv /\ PromiseInv

-----------------------------------------------------------------------------
(* Type correctness *)

\* The initial state has the types of TypeOK.
LEMMA InitTypeOK == Init => TypeOK
  BY DEF Init, TypeOK, WaiterPC, SetterPC, Begin

\* Every step of a block in future() or get() keeps the types.
LEMMA FutureTypeOK ==
  ASSUME TypeOK, NEW w \in Waiters, Future(w)
  PROVE  TypeOK'
<1>1. CASE NewPromise(w)
  BY <1>1 DEF TypeOK, NewPromise, Goto, WaiterPC, keys
<1>2. CASE LockFuture(w)
  BY <1>2 DEF TypeOK, LockFuture, Goto, WaiterPC, keys, Acquire
<1>3. CASE PushPromise(w)
  BY <1>3 DEF TypeOK, PushPromise, Goto, WaiterPC, keys, push_back
<1>4. CASE GetFuture(w)
  BY <1>4 DEF TypeOK, GetFuture, Goto, WaiterPC, keys
<1>5. CASE UnlockFuture(w)
  BY <1>5 DEF TypeOK, UnlockFuture, Goto, WaiterPC, keys
<1>6. CASE Get(w)
  BY <1>6 DEF TypeOK, Get, Goto, WaiterPC, keys
<1> QED
  BY <1>1, <1>2, <1>3, <1>4, <1>5, <1>6 DEF Future

\* Every step of a block in set() keeps the types.
LEMMA SetTypeOK ==
  ASSUME TypeOK, NEW u \in Setters, Set(u)
  PROVE  TypeOK'
<1>1. CASE LockSet(u)
  BY <1>1 DEF TypeOK, LockSet, Step, SetterPC, keys, Acquire
<1>2. CASE FindNone(u)
  BY <1>2 DEF TypeOK, FindNone, Step, SetterPC, keys
<1>3. CASE FindEntries(u)
  BY <1>3 DEF TypeOK, FindEntries, Step, SetterPC, keys
<1>4. CASE SetValue(u)
  BY <1>4 DEF TypeOK, SetValue, Step, SetterPC, keys
<1>5. CASE DeletePromise(u)
  <2>1. spc' \in [Setters -> SetterPC]
    BY <1>5 DEF TypeOK, DeletePromise, Step, SetterPC
  <2>2. index' \in [Setters -> Nat \ {0}]
    BY <1>5 DEF TypeOK, DeletePromise
  <2>3. heap' \in [Waiters -> {"unborn", "live", "deleted"}]
    BY <1>5 DEF TypeOK, DeletePromise
  <2> QED
    BY <1>5, <2>1, <2>2, <2>3 DEF TypeOK, DeletePromise, keys
<1>6. CASE EraseEntry(u)
  BY <1>6 DEF TypeOK, EraseEntry, Step, SetterPC, keys, erase
<1>7. CASE UnlockSet(u)
  BY <1>7 DEF TypeOK, UnlockSet, Step, SetterPC, keys
<1> QED
  BY <1>1, <1>2, <1>3, <1>4, <1>5, <1>6, <1>7 DEF Set

\* The mutex, the vectors, the promises and the position of every walk keep
\* their types in every reachable state.
THEOREM TypeCorrect == Spec => []TypeOK
<1>1. TypeOK /\ [Next]_vars => TypeOK'
  BY FutureTypeOK, SetTypeOK DEF Next, vars, TypeOK
<1> QED
  BY InitTypeOK, <1>1, PTL DEF Spec

-----------------------------------------------------------------------------
(* What the steps do to the vectors *)

\* push_back adds the promise at the end of its vector and moves nothing.
LEMMA PushEffect ==
  ASSUME TypeOK, NEW w \in Waiters, PushPromise(w)
  PROVE  /\ \A k \in Keys : Len(promises[k]) \in Nat /\ Len(promises'[k]) \in Nat
         /\ \A k \in Keys : \A i \in 1..Len(promises[k]) :
              i \in 1..Len(promises'[k]) /\ promises'[k][i] = promises[k][i]
         /\ \A k \in Keys : \A i \in 1..Len(promises'[k]) :
              \/ i \in 1..Len(promises[k])
              \/ k = wkey[w] /\ i = Len(promises[k]) + 1 /\ promises'[k][i] = w
         /\ LET n == Len(promises[wkey[w]]) + 1 IN
              n \in 1..Len(promises'[wkey[w]]) /\ promises'[wkey[w]][n] = w
<1> DEFINE q == promises[wkey[w]]
<1>1. wkey[w] \in Keys /\ q \in Seq(Waiters)
  BY DEF TypeOK
<1>2. promises'[wkey[w]] = Append(q, w)
  BY <1>1 DEF TypeOK, PushPromise, push_back
<1>3. \A k \in Keys : k # wkey[w] => promises'[k] = promises[k]
  BY DEF TypeOK, PushPromise, push_back
<1>4. /\ Len(Append(q, w)) = Len(q) + 1
      /\ \A i \in 1..Len(q) : Append(q, w)[i] = q[i]
      /\ Append(q, w)[Len(q) + 1] = w
  BY <1>1
<1>5. \A k \in Keys : Len(promises[k]) \in Nat
  BY DEF TypeOK
<1> HIDE DEF q
<1>6. \A k \in Keys : Len(promises'[k]) \in Nat
  BY <1>2, <1>3, <1>4, <1>5 DEF q
<1>7. \A k \in Keys : \A i \in 1..Len(promises[k]) :
        i \in 1..Len(promises'[k]) /\ promises'[k][i] = promises[k][i]
  <2> SUFFICES ASSUME NEW k \in Keys, NEW i \in 1..Len(promises[k])
               PROVE  i \in 1..Len(promises'[k]) /\ promises'[k][i] = promises[k][i]
    OBVIOUS
  <2>1. CASE k = wkey[w]
    BY <1>2, <1>4, <1>5, <2>1 DEF q
  <2>2. CASE k # wkey[w]
    BY <1>3, <2>2
  <2> QED
    BY <2>1, <2>2
<1>8. \A k \in Keys : \A i \in 1..Len(promises'[k]) :
        \/ i \in 1..Len(promises[k])
        \/ k = wkey[w] /\ i = Len(promises[k]) + 1 /\ promises'[k][i] = w
  <2> SUFFICES ASSUME NEW k \in Keys, NEW i \in 1..Len(promises'[k]),
                      i \notin 1..Len(promises[k])
               PROVE  k = wkey[w] /\ i = Len(promises[k]) + 1 /\ promises'[k][i] = w
    OBVIOUS
  <2>1. k = wkey[w]
    BY <1>3
  <2> QED
    BY <1>2, <1>4, <1>5, <2>1 DEF q
<1> QED
  BY <1>1, <1>2, <1>4, <1>5, <1>6, <1>7, <1>8 DEF q

\* erase empties the vector of the key and leaves the others alone.
LEMMA EraseEffect ==
  ASSUME TypeOK, NEW u \in Setters, EraseEntry(u)
  PROVE  /\ skey[u] \in Keys
         /\ Len(promises'[skey[u]]) = 0
         /\ \A k \in Keys : k # skey[u] => promises'[k] = promises[k]
  BY DEF TypeOK, EraseEntry, erase

-----------------------------------------------------------------------------
(* The inductive invariant *)

\* After a step of future() and get(), the mutex and the scope of the
\* lock_guard agree.
LEMMA FutureMutexInv ==
  ASSUME TypeOK, MutexInv, NEW w \in Waiters, Future(w)
  PROVE  MutexInv'
<1> USE ChannelAssumption
    DEF MutexInv, TypeOK, WaiterCritical, SetterCritical, Goto, keys
<1>1. CASE NewPromise(w)
  BY <1>1 DEF NewPromise
<1>2. CASE LockFuture(w)
  BY <1>2 DEF LockFuture, Acquire
<1>3. CASE PushPromise(w)
  BY <1>3 DEF PushPromise, push_back
<1>4. CASE GetFuture(w)
  BY <1>4 DEF GetFuture
<1>5. CASE UnlockFuture(w)
  BY <1>5 DEF UnlockFuture
<1>6. CASE Get(w)
  BY <1>6 DEF Get
<1> QED
  BY <1>1, <1>2, <1>3, <1>4, <1>5, <1>6 DEF Future

\* After a step of set(), the mutex and the scope of the lock_guard agree.
LEMMA SetMutexInv ==
  ASSUME TypeOK, MutexInv, NEW u \in Setters, Set(u)
  PROVE  MutexInv'
<1> USE ChannelAssumption
    DEF MutexInv, TypeOK, WaiterCritical, SetterCritical, Step, keys
<1>1. CASE LockSet(u)
  BY <1>1 DEF LockSet, Acquire
<1>2. CASE FindNone(u)
  BY <1>2 DEF FindNone
<1>3. CASE FindEntries(u)
  BY <1>3 DEF FindEntries
<1>4. CASE SetValue(u)
  BY <1>4 DEF SetValue
<1>5. CASE DeletePromise(u)
  BY <1>5 DEF DeletePromise
<1>6. CASE EraseEntry(u)
  BY <1>6 DEF EraseEntry, erase
<1>7. CASE UnlockSet(u)
  BY <1>7 DEF UnlockSet
<1> QED
  BY <1>1, <1>2, <1>3, <1>4, <1>5, <1>6, <1>7 DEF Set

\* After a step of future() and get(), the vectors hold the right promises.
LEMMA FutureVectorInv ==
  ASSUME TypeOK, MutexInv, VectorInv, NEW w \in Waiters, Future(w)
  PROVE  VectorInv'
<1>1. CASE NewPromise(w)
  BY <1>1 DEF VectorInv, TypeOK, AfterPush, NewPromise, Goto, keys
<1>2. CASE LockFuture(w)
  BY <1>2 DEF VectorInv, TypeOK, AfterPush, LockFuture, Goto, keys, Acquire
<1>3. CASE PushPromise(w)
  <2>1. wpc' = [wpc EXCEPT ![w] = "get_future"] /\ wpc[w] = "push" /\ UNCHANGED wkey
    BY <1>3 DEF PushPromise, Goto, keys, push_back
  <2>2. \A k \in Keys : \A i \in 1..Len(promises[k]) : promises[k][i] \in Waiters
    BY DEF TypeOK
  <2>3. \A k \in Keys : \A i \in 1..Len(promises[k]) : promises[k][i] # w
    BY <2>1 DEF VectorInv, AfterPush
  <2>4. \A k \in Keys : \A i \in 1..Len(promises'[k]) :
          wkey[promises'[k][i]] = k /\ wpc'[promises'[k][i]] \in AfterPush
    <3> SUFFICES ASSUME NEW k \in Keys, NEW i \in 1..Len(promises'[k])
                 PROVE  wkey[promises'[k][i]] = k /\ wpc'[promises'[k][i]] \in AfterPush
      OBVIOUS
    <3>1. CASE i \in 1..Len(promises[k])
      <4>1. promises'[k][i] = promises[k][i]
        BY <1>3, <3>1, PushEffect
      <4>2. wpc'[promises[k][i]] = wpc[promises[k][i]]
        BY <2>1, <2>2, <2>3, <3>1 DEF TypeOK
      <4> QED
        BY <3>1, <4>1, <4>2 DEF VectorInv
    <3>2. CASE i \notin 1..Len(promises[k])
      BY <1>3, <2>1, <3>2, PushEffect DEF AfterPush, TypeOK
    <3> QED
      BY <3>1, <3>2
  <2>5. \A k \in Keys : \A i, j \in 1..Len(promises'[k]) :
          promises'[k][i] = promises'[k][j] => i = j
    <3> SUFFICES ASSUME NEW k \in Keys, NEW i \in 1..Len(promises'[k]),
                        NEW j \in 1..Len(promises'[k]),
                        promises'[k][i] = promises'[k][j]
                 PROVE  i = j
      OBVIOUS
    <3>1. CASE i \in 1..Len(promises[k]) /\ j \in 1..Len(promises[k])
      <4>1. promises[k][i] = promises[k][j]
        BY <1>3, <3>1, PushEffect
      <4> QED
        BY <3>1, <4>1 DEF VectorInv
    <3>2. \A n \in 1..Len(promises'[k]) :
            \/ n \in 1..Len(promises[k]) /\ promises'[k][n] # w
            \/ n = Len(promises[k]) + 1 /\ promises'[k][n] = w
      <4> SUFFICES ASSUME NEW n \in 1..Len(promises'[k])
                   PROVE  \/ n \in 1..Len(promises[k]) /\ promises'[k][n] # w
                          \/ n = Len(promises[k]) + 1 /\ promises'[k][n] = w
        OBVIOUS
      <4>1. CASE n \in 1..Len(promises[k])
        BY <1>3, <2>3, <4>1, PushEffect
      <4>2. CASE n \notin 1..Len(promises[k])
        BY <1>3, <4>2, PushEffect
      <4> QED
        BY <4>1, <4>2
    <3>3. CASE i \notin 1..Len(promises[k]) \/ j \notin 1..Len(promises[k])
      BY <3>2, <3>3
    <3> QED
      BY <3>1, <3>3
  <2> QED
    BY <2>1, <2>4, <2>5 DEF VectorInv
<1>4. CASE GetFuture(w)
  BY <1>4 DEF VectorInv, TypeOK, AfterPush, GetFuture, Goto, keys
<1>5. CASE UnlockFuture(w)
  BY <1>5 DEF VectorInv, TypeOK, AfterPush, UnlockFuture, Goto, keys
<1>6. CASE Get(w)
  BY <1>6 DEF VectorInv, TypeOK, AfterPush, Get, Goto, keys
<1> QED
  BY <1>1, <1>2, <1>3, <1>4, <1>5, <1>6 DEF Future

\* After a step of set(), the vectors hold the right promises.
LEMMA SetVectorInv ==
  ASSUME TypeOK, MutexInv, VectorInv, NEW u \in Setters, Set(u)
  PROVE  VectorInv'
<1>1. CASE LockSet(u)
  BY <1>1 DEF VectorInv, TypeOK, AfterPush, LockSet, Step, keys, Acquire
<1>2. CASE FindNone(u)
  BY <1>2 DEF VectorInv, TypeOK, AfterPush, FindNone, Step, keys
<1>3. CASE FindEntries(u)
  BY <1>3 DEF VectorInv, TypeOK, AfterPush, FindEntries, Step, keys
<1>4. CASE SetValue(u)
  BY <1>4 DEF VectorInv, TypeOK, AfterPush, SetValue, Step, keys
<1>5. CASE DeletePromise(u)
  BY <1>5 DEF VectorInv, TypeOK, AfterPush, DeletePromise, Step, keys
<1>6. CASE EraseEntry(u)
  BY <1>6 DEF VectorInv, TypeOK, AfterPush, EraseEntry, Step, keys, erase
<1>7. CASE UnlockSet(u)
  BY <1>7 DEF VectorInv, TypeOK, AfterPush, UnlockSet, Step, keys
<1> QED
  BY <1>1, <1>2, <1>3, <1>4, <1>5, <1>6, <1>7 DEF Set

\* After a step of future() and get(), what a loop has passed is set and
\* deleted.
LEMMA FutureWalkInv ==
  ASSUME IndInv, NEW w \in Waiters, Future(w)
  PROVE  WalkInv'
<1>1. CASE NewPromise(w)
  <2>1. \A v \in Setters : \A i \in 1..Len(Entries(v)) : Entries(v)[i] # w
    BY <1>1 DEF IndInv, VectorInv, AfterPush, NewPromise, Goto, Entries, TypeOK
  <2> QED
    BY <1>1, <2>1 DEF IndInv, WalkInv, NewPromise, Passed, Entries, Current,
       TypeOK, keys
<1>2. CASE LockFuture(w)
  BY <1>2 DEF IndInv, WalkInv, TypeOK, Passed, Entries, Current, LockFuture,
     Goto, keys, Acquire
<1>3. CASE PushPromise(w)
  <2>1. \A v \in Setters : spc[v] \notin SetterCritical
    BY <1>3, ChannelAssumption DEF MutexInv, PushPromise, Goto, IndInv,
       WaiterCritical, push_back
  <2> QED
    BY <1>3, <2>1 DEF IndInv, WalkInv, Passed, PushPromise, keys, SetterCritical,
      push_back
<1>4. CASE GetFuture(w)
  BY <1>4 DEF IndInv, WalkInv, TypeOK, Passed, Entries, Current, GetFuture,
     Goto, keys
<1>5. CASE UnlockFuture(w)
  BY <1>5 DEF IndInv, WalkInv, TypeOK, Passed, Entries, Current,
     UnlockFuture, Goto, keys
<1>6. CASE Get(w)
  BY <1>6 DEF IndInv, WalkInv, TypeOK, Passed, Entries, Current, Get, Goto, keys
<1> QED
  BY <1>1, <1>2, <1>3, <1>4, <1>5, <1>6 DEF Future

\* After a step of set(), what a loop has passed is set and deleted.
LEMMA SetWalkInv ==
  ASSUME IndInv, NEW u \in Setters, Set(u)
  PROVE  WalkInv'
<1>1. CASE LockSet(u)
  BY <1>1 DEF IndInv, WalkInv, TypeOK, Passed, Entries, Current, LockSet,
     Step, keys, Acquire
<1>2. CASE FindNone(u)
  BY <1>2 DEF IndInv, WalkInv, TypeOK, Passed, Entries, Current, FindNone,
     Step, keys
<1>3. CASE FindEntries(u)
  BY <1>3 DEF IndInv, WalkInv, TypeOK, Passed, Entries, Current, FindEntries,
     Step, keys
<1>4. CASE SetValue(u)
  BY <1>4 DEF IndInv, WalkInv, TypeOK, Passed, Entries, Current, MutexInv,
     SetterCritical, VectorInv, SetValue, Step, keys
<1>5. CASE DeletePromise(u)
  BY <1>5 DEF IndInv, WalkInv, TypeOK, Passed, Entries, Current, MutexInv,
     SetterCritical, VectorInv, DeletePromise, Step, keys
<1>6. CASE EraseEntry(u)
  BY <1>6 DEF IndInv, WalkInv, TypeOK, Passed, Entries, Current, MutexInv,
     SetterCritical, EraseEntry, Step, keys, erase
<1>7. CASE UnlockSet(u)
  BY <1>7 DEF IndInv, WalkInv, TypeOK, Passed, Entries, Current, UnlockSet,
     Step, keys
<1> QED
  BY <1>1, <1>2, <1>3, <1>4, <1>5, <1>6, <1>7 DEF Set

\* A step that leaves the promises alone, and what the loops have passed of
\* them, keeps LiveInv.
LEMMA LiveInvKept ==
  ASSUME LiveInv, TypeOK,
         UNCHANGED <<skey, promises, heap, state>>,
         \A v \in Setters : \A i \in Nat \ {0} : Passed(v, i)' <=> Passed(v, i),
         \A v \in Setters : spc'[v] = "delete" <=> spc[v] = "delete",
         UNCHANGED index
  PROVE  LiveInv'
<1> SUFFICES ASSUME NEW k \in Keys, NEW i \in 1..Len(promises[k]),
                    \A v \in Setters : skey[v] = k => ~Passed(v, i)'
             PROVE  /\ heap[promises[k][i]] = "live"
                    /\ \/ state[promises[k][i]] = Unset
                       \/ \E v \in Setters :
                            skey[v] = k /\ spc'[v] = "delete" /\ index[v] = i
  BY DEF LiveInv
<1>1. i \in Nat \ {0}
  BY DEF TypeOK
<1>2. \A v \in Setters : skey[v] = k => ~Passed(v, i)
  BY <1>1
<1> QED
  BY <1>2 DEF LiveInv

\* After a step of future() and get(), what no loop has passed is live.
LEMMA FutureLiveInv ==
  ASSUME IndInv, NEW w \in Waiters, Future(w)
  PROVE  LiveInv'
<1>1. CASE NewPromise(w)
  BY <1>1 DEF IndInv, LiveInv, TypeOK, Passed, VectorInv, AfterPush,
     NewPromise, Goto, keys
<1>2. CASE LockFuture(w)
  BY <1>2, LiveInvKept DEF LockFuture, IndInv, Passed, keys, Acquire
<1>3. CASE PushPromise(w)
  BY <1>3 DEF IndInv, LiveInv, TypeOK, Passed, PromiseInv, PushPromise, Goto,
     keys, push_back
<1>4. CASE GetFuture(w)
  BY <1>4, LiveInvKept DEF GetFuture, IndInv, Passed, keys
<1>5. CASE UnlockFuture(w)
  BY <1>5, LiveInvKept DEF UnlockFuture, IndInv, Passed, keys
<1>6. CASE Get(w)
  BY <1>6, LiveInvKept DEF Get, IndInv, Passed, keys
<1> QED
  BY <1>1, <1>2, <1>3, <1>4, <1>5, <1>6 DEF Future

\* After a step of set(), what no loop has passed is live.
LEMMA SetLiveInv ==
  ASSUME IndInv, NEW u \in Setters, Set(u)
  PROVE  LiveInv'
<1>1. CASE LockSet(u)
  <2>1. \A v \in Setters : \A i \in Nat \ {0} : Passed(v, i)' <=> Passed(v, i)
    BY <1>1 DEF LockSet, Step, Passed, IndInv, TypeOK, Acquire
  <2>2. \A v \in Setters : spc'[v] = "delete" <=> spc[v] = "delete"
    BY <1>1 DEF LockSet, Step, IndInv, TypeOK, Acquire
  <2> QED
    BY <1>1, <2>1, <2>2, LiveInvKept DEF LockSet, IndInv, keys, Acquire
<1>2. CASE FindNone(u)
  <2>1. \A v \in Setters : \A i \in Nat \ {0} : Passed(v, i)' <=> Passed(v, i)
    BY <1>2 DEF FindNone, Step, Passed, IndInv, TypeOK
  <2>2. \A v \in Setters : spc'[v] = "delete" <=> spc[v] = "delete"
    BY <1>2 DEF FindNone, Step, IndInv, TypeOK
  <2> QED
    BY <1>2, <2>1, <2>2, LiveInvKept DEF FindNone, IndInv, keys
<1>3. CASE FindEntries(u)
  <2>1. \A v \in Setters : \A i \in Nat \ {0} : Passed(v, i)' <=> Passed(v, i)
    BY <1>3 DEF FindEntries, Step, Passed, IndInv, TypeOK, WalkInv
  <2>2. \A v \in Setters : spc'[v] = "delete" <=> spc[v] = "delete"
    BY <1>3 DEF FindEntries, Step, IndInv, TypeOK
  <2> QED
    BY <1>3, <2>1, <2>2, LiveInvKept DEF FindEntries, IndInv, keys
<1>4. CASE SetValue(u)
  <2>1. /\ spc[u] = "set_value" /\ spc' = [spc EXCEPT ![u] = "delete"]
        /\ state' = [state EXCEPT ![Current(u)] = u]
        /\ UNCHANGED <<skey, promises, heap, index>>
    BY <1>4 DEF SetValue, Step, keys
  <2>2. \A v \in Setters : spc[v] # "delete"
    BY <2>1, ChannelAssumption DEF IndInv, MutexInv, SetterCritical
  <2>3. \A v \in Setters : \A i \in Nat : Passed(v, i)' <=> Passed(v, i)
    BY <2>1 DEF Passed, IndInv, TypeOK
  <2> SUFFICES ASSUME NEW k \in Keys, NEW i \in 1..Len(promises[k]),
                      \A v \in Setters : skey[v] = k => ~Passed(v, i)'
               PROVE  /\ heap[promises[k][i]] = "live"
                      /\ \/ state'[promises[k][i]] = Unset
                         \/ \E v \in Setters :
                              skey[v] = k /\ spc'[v] = "delete" /\ index[v] = i
    BY <2>1 DEF LiveInv
  <2>4. heap[promises[k][i]] = "live" /\ state[promises[k][i]] = Unset
    BY <2>2, <2>3 DEF IndInv, LiveInv
  <2>5. CASE promises[k][i] = Current(u)
    <3>1. index[u] \in 1..Len(promises[skey[u]]) /\ skey[u] \in Keys
      BY <2>1 DEF IndInv, WalkInv, Entries, TypeOK
    <3>2. skey[u] = k /\ index[u] = i
      BY <2>5, <3>1 DEF IndInv, VectorInv, Current, Entries
    <3> QED
      BY <2>1, <2>4, <3>2 DEF IndInv, TypeOK
  <2>6. CASE promises[k][i] # Current(u)
    <3>1. promises[k][i] \in Waiters
      BY DEF IndInv, TypeOK
    <3> QED
      BY <2>1, <2>4, <2>6, <3>1 DEF IndInv, TypeOK
  <2> QED
    BY <2>5, <2>6
<1>5. CASE DeletePromise(u)
  <2> SUFFICES ASSUME NEW k \in Keys, NEW i \in 1..Len(promises[k]),
                      \A v \in Setters : skey[v] = k => ~Passed(v, i)'
               PROVE  /\ heap'[promises[k][i]] = "live"
                      /\ state[promises[k][i]] = Unset
    BY <1>5 DEF DeletePromise, LiveInv, keys
  <2>1. /\ spc[u] = "delete" /\ index[u] \in 1..Len(Entries(u))
        /\ spc' = [spc EXCEPT ![u] = spc'[u]] /\ spc'[u] \in {"set_value", "erase"}
        /\ spc'[u] = "erase" \/ index'[u] = index[u] + 1
        /\ \A v \in Setters : v # u => spc[v] \notin SetterCritical
    BY <1>5, ChannelAssumption DEF DeletePromise, Step, IndInv, WalkInv,
       TypeOK, MutexInv, SetterCritical
  <2>2. promises[k][i] \in Waiters
    BY DEF IndInv, TypeOK
  <2>3. CASE skey[u] = k
    <3>1. spc'[u] = "set_value" /\ i > index[u]
      BY <1>5, <2>1, <2>3 DEF Passed, IndInv, TypeOK, DeletePromise
    <3>2. \A v \in Setters : ~(skey[v] = k /\ Passed(v, i))
      BY <2>1, <3>1 DEF Passed, SetterCritical, IndInv, TypeOK
    <3>3. ~ \E v \in Setters : skey[v] = k /\ spc[v] = "delete" /\ index[v] = i
      BY <2>1, <3>1 DEF SetterCritical, IndInv, TypeOK
    <3>4. heap[promises[k][i]] = "live" /\ state[promises[k][i]] = Unset
      BY <3>2, <3>3 DEF IndInv, LiveInv
    <3>5. promises[k][i] # Current(u)
      BY <2>1, <2>3, <3>1 DEF Current, Entries, IndInv, VectorInv
    <3> QED
      BY <1>5, <2>2, <3>4, <3>5 DEF DeletePromise, IndInv, TypeOK
  <2>4. CASE skey[u] # k
    <3>1. \A v \in Setters : skey[v] = k => ~Passed(v, i) /\ spc[v] # "delete"
      BY <2>1, <2>4 DEF Passed, SetterCritical
    <3>2. heap[promises[k][i]] = "live" /\ state[promises[k][i]] = Unset
      BY <3>1 DEF IndInv, LiveInv
    <3>3. promises[k][i] # Current(u)
      BY <2>1, <2>4 DEF Current, Entries, IndInv, VectorInv, TypeOK
    <3> QED
      BY <1>5, <2>2, <3>2, <3>3 DEF DeletePromise, IndInv, TypeOK
  <2> QED
    BY <2>3, <2>4
<1>6. CASE EraseEntry(u)
  <2>1. /\ spc[u] = "erase" /\ spc' = [spc EXCEPT ![u] = "unlock"]
        /\ UNCHANGED <<skey, heap, state, index>>
    BY <1>6 DEF EraseEntry, Step, keys, erase
  <2> SUFFICES ASSUME NEW k \in Keys, NEW i \in 1..Len(promises'[k]),
                      \A v \in Setters : skey[v] = k => ~Passed(v, i)'
               PROVE  /\ heap[promises'[k][i]] = "live"
                      /\ \/ state[promises'[k][i]] = Unset
                         \/ \E v \in Setters :
                              skey[v] = k /\ spc'[v] = "delete" /\ index[v] = i
    BY <2>1 DEF LiveInv
  <2>2. skey[u] # k /\ promises'[k] = promises[k]
    BY <1>6, EraseEffect DEF IndInv
  <2>3. \A v \in Setters : skey[v] = k => spc'[v] = spc[v]
    BY <2>1, <2>2 DEF IndInv, TypeOK
  <2>4. \A v \in Setters : skey[v] = k => ~Passed(v, i)
    BY <2>1, <2>3 DEF Passed
  <2> QED
    BY <2>2, <2>3, <2>4 DEF IndInv, LiveInv
<1>7. CASE UnlockSet(u)
  <2>1. \A v \in Setters : \A i \in Nat \ {0} : Passed(v, i)' <=> Passed(v, i)
    BY <1>7 DEF UnlockSet, Step, Passed, IndInv, TypeOK
  <2>2. \A v \in Setters : spc'[v] = "delete" <=> spc[v] = "delete"
    BY <1>7 DEF UnlockSet, Step, IndInv, TypeOK
  <2> QED
    BY <1>7, <2>1, <2>2, LiveInvKept DEF UnlockSet, IndInv, keys
<1> QED
  BY <1>1, <1>2, <1>3, <1>4, <1>5, <1>6, <1>7 DEF Set

\* After a step of future() and get(), a promise is where its block says.
LEMMA FuturePromiseInv ==
  ASSUME IndInv, NEW w \in Waiters, Future(w)
  PROVE  PromiseInv'
<1>1. CASE NewPromise(w)
  BY <1>1 DEF IndInv, PromiseInv, TypeOK, Pushed, NewPromise, Goto, keys
<1>2. CASE LockFuture(w)
  BY <1>2 DEF IndInv, PromiseInv, TypeOK, Pushed, LockFuture, Goto, keys,
    Acquire
<1>3. CASE PushPromise(w)
  <2>1. /\ wpc[w] = "push" /\ wpc' = [wpc EXCEPT ![w] = "get_future"]
        /\ UNCHANGED <<wkey, heap, state>>
    BY <1>3 DEF PushPromise, Goto, keys, push_back
  <2>2. Pushed(w)'
    BY <1>3, <2>1, PushEffect DEF Pushed, IndInv, TypeOK
  <2>3. \A x \in Waiters : Pushed(x) => Pushed(x)'
    BY <1>3, <2>1, PushEffect DEF Pushed, IndInv, TypeOK
  <2> QED
    BY <2>1, <2>2, <2>3 DEF IndInv, PromiseInv, TypeOK
<1>4. CASE GetFuture(w)
  BY <1>4 DEF IndInv, PromiseInv, TypeOK, Pushed, GetFuture, Goto, keys
<1>5. CASE UnlockFuture(w)
  BY <1>5 DEF IndInv, PromiseInv, TypeOK, Pushed, UnlockFuture, Goto, keys
<1>6. CASE Get(w)
  BY <1>6 DEF IndInv, PromiseInv, TypeOK, Pushed, Get, Goto, keys
<1> QED
  BY <1>1, <1>2, <1>3, <1>4, <1>5, <1>6 DEF Future

\* After a step of set(), a promise is where its block says.
LEMMA SetPromiseInv ==
  ASSUME IndInv, NEW u \in Setters, Set(u)
  PROVE  PromiseInv'
<1>1. CASE LockSet(u)
  BY <1>1 DEF IndInv, PromiseInv, TypeOK, Pushed, LockSet, Step, keys, Acquire
<1>2. CASE FindNone(u)
  BY <1>2 DEF IndInv, PromiseInv, TypeOK, Pushed, FindNone, Step, keys
<1>3. CASE FindEntries(u)
  BY <1>3 DEF IndInv, PromiseInv, TypeOK, Pushed, FindEntries, Step, keys
<1>4. CASE SetValue(u)
  <2>1. Current(u) \in Waiters /\ wpc[Current(u)] \in AfterPush
    BY <1>4 DEF SetValue, Step, IndInv, WalkInv, VectorInv, TypeOK, Current,
       Entries
  <2>2. \A x \in Waiters : Pushed(x)' = Pushed(x)
    BY <1>4 DEF SetValue, Pushed, keys
  <2> QED
    BY <1>4, <2>1, <2>2 DEF SetValue, IndInv, PromiseInv, TypeOK, AfterPush
<1>5. CASE DeletePromise(u)
  <2>1. Current(u) \in Waiters /\ wpc[Current(u)] \in AfterPush
    BY <1>5 DEF DeletePromise, Step, IndInv, WalkInv, VectorInv, TypeOK,
       Current, Entries
  <2>2. \A x \in Waiters : Pushed(x)' = Pushed(x)
    BY <1>5 DEF DeletePromise, Pushed, keys
  <2>3. wpc[Current(u)] # "get_future"
    BY <1>5, <2>1, ChannelAssumption
       DEF DeletePromise, Step, IndInv, MutexInv, WaiterCritical, SetterCritical
  <2>4. wpc' = wpc /\ state' = state /\ heap' = [heap EXCEPT ![Current(u)] = "deleted"]
    BY <1>5 DEF DeletePromise
  <2> QED
    BY <2>1, <2>2, <2>3, <2>4 DEF IndInv, PromiseInv, TypeOK, AfterPush
<1>6. CASE EraseEntry(u)
  <2>1. wpc' = wpc /\ state' = state /\ heap' = heap /\ wkey' = wkey
    BY <1>6 DEF EraseEntry, keys, erase
  <2>2. \A x \in Waiters : heap[x] = "live" /\ Pushed(x) => Pushed(x)'
    <3> SUFFICES ASSUME NEW x \in Waiters, heap[x] = "live", Pushed(x)
                 PROVE  wkey[x] # skey[u]
      BY <1>6, <2>1, EraseEffect DEF Pushed, IndInv, TypeOK
    <3>1. PICK i \in 1..Len(promises[wkey[x]]) : promises[wkey[x]][i] = x
      BY DEF Pushed, IndInv, TypeOK
    <3> QED
      BY <1>6, <3>1 DEF EraseEntry, Step, IndInv, WalkInv, Passed, Entries,
        erase
  <2> QED
    BY <2>1, <2>2 DEF IndInv, PromiseInv
<1>7. CASE UnlockSet(u)
  BY <1>7 DEF IndInv, PromiseInv, TypeOK, Pushed, UnlockSet, Step, keys
<1> QED
  BY <1>1, <1>2, <1>3, <1>4, <1>5, <1>6, <1>7 DEF Set

\* The invariant holds at the start: no block has done anything.
LEMMA InitIndInv == Init => IndInv
<1> SUFFICES ASSUME Init PROVE IndInv
  OBVIOUS
<1>1. TypeOK
  BY InitTypeOK
<1>2. MutexInv
  BY ChannelAssumption DEF Init, MutexInv, WaiterCritical, SetterCritical,
    Begin
<1>3. \A k \in Keys : Len(promises[k]) = 0
  BY DEF Init, Begin
<1>4. VectorInv /\ LiveInv
  BY <1>3 DEF VectorInv, LiveInv
<1>5. WalkInv
  BY DEF Init, WalkInv, Passed, Begin
<1>6. PromiseInv
  BY DEF Init, PromiseInv, Begin
<1> QED
  BY <1>1, <1>2, <1>4, <1>5, <1>6 DEF IndInv

\* Every step of every block keeps the invariant.
LEMMA StepIndInv == IndInv /\ [Next]_vars => IndInv'
<1> SUFFICES ASSUME IndInv, [Next]_vars PROVE IndInv'
  OBVIOUS
<1>1. ASSUME NEW w \in Waiters, Future(w) PROVE IndInv'
  <2>1. TypeOK' /\ MutexInv' /\ VectorInv'
    BY <1>1, FutureTypeOK, FutureMutexInv, FutureVectorInv DEF IndInv
  <2> QED
    BY <1>1, <2>1, FutureWalkInv, FutureLiveInv, FuturePromiseInv DEF IndInv
<1>2. ASSUME NEW u \in Setters, Set(u) PROVE IndInv'
  <2>1. TypeOK' /\ MutexInv' /\ VectorInv'
    BY <1>2, SetTypeOK, SetMutexInv, SetVectorInv DEF IndInv
  <2> QED
    BY <1>2, <2>1, SetWalkInv, SetLiveInv, SetPromiseInv DEF IndInv
<1>3. CASE UNCHANGED vars
  BY <1>3 DEF vars, IndInv, TypeOK, MutexInv, VectorInv, WalkInv, LiveInv,
              PromiseInv, Passed, Pushed, Entries, Current
<1> QED
  BY <1>1, <1>2, <1>3 DEF Next

\* The invariant holds in every reachable state.
LEMMA IndInvariant == Spec => []IndInv
  BY InitIndInv, StepIndInv, PTL DEF Spec

-----------------------------------------------------------------------------
(* What the invariant gives *)

\* No block touches a promise that another block has deleted: neither the
\* loop of set() nor the get_future() of a block that has just pushed.
THEOREM PromiseAlive == Spec => []NoUseAfterDelete
<1>1. IndInv => NoUseAfterDelete
  <2> SUFFICES ASSUME IndInv PROVE NoUseAfterDelete
    OBVIOUS
  <2>1. \A w \in Waiters : wpc[w] = "get_future" => heap[w] = "live"
    BY DEF IndInv, PromiseInv
  <2>2. ASSUME NEW u \in Setters, spc[u] \in {"set_value", "delete"}
        PROVE  index[u] \in DOMAIN Entries(u) /\ heap[Current(u)] = "live"
    <3>1. index[u] \in 1..Len(Entries(u)) /\ skey[u] \in Keys
      BY <2>2 DEF IndInv, WalkInv, TypeOK
    <3>2. \A v \in Setters : v # u => spc[v] \notin SetterCritical
      BY <2>2 DEF IndInv, MutexInv, SetterCritical
    <3>3. \A v \in Setters : ~Passed(v, index[u])
      BY <2>2, <3>2 DEF Passed, SetterCritical, IndInv, TypeOK
    <3>4. heap[Current(u)] = "live"
      BY <3>1, <3>3 DEF IndInv, LiveInv, Entries, Current
    <3> QED
      BY <3>1, <3>4 DEF Entries, IndInv, TypeOK
  <2> QED
    BY <2>1, <2>2 DEF NoUseAfterDelete
<1> QED
  BY <1>1, IndInvariant, PTL

\* set_value is only called on a promise without a value, so it never throws.
THEOREM PromiseSetOnce == Spec => []SetValueOnce
<1>1. IndInv => SetValueOnce
  <2> SUFFICES ASSUME IndInv, NEW u \in Setters, spc[u] = "set_value"
               PROVE  state[Current(u)] = Unset
    BY DEF SetValueOnce
  <2>1. index[u] \in 1..Len(Entries(u)) /\ skey[u] \in Keys
    BY DEF IndInv, WalkInv, TypeOK
  <2>2. \A v \in Setters : v # u => spc[v] \notin SetterCritical
    BY DEF IndInv, MutexInv, SetterCritical
  <2>3. \A v \in Setters : ~Passed(v, index[u]) /\ spc[v] # "delete"
    BY <2>2 DEF Passed, SetterCritical, IndInv, TypeOK
  <2> QED
    BY <2>1, <2>3 DEF IndInv, LiveInv, Entries, Current
<1> QED
  BY <1>1, IndInvariant, PTL

\* A promise is never leaked: until it is deleted its block is about to push
\* it, or a set() of its key will find it.
THEOREM PromiseReachable == Spec => []NoPromiseLost
<1>1. IndInv => NoPromiseLost
  BY DEF IndInv, PromiseInv, NoPromiseLost
<1> QED
  BY <1>1, IndInvariant, PTL

-----------------------------------------------------------------------------
(* Refinement *)

\* Only the block that holds the mutex can have claimed promises, and only in
\* the loop of set().
LEMMA NoneClaimed ==
  ASSUME IndInv, NEW w \in Waiters,
         \A u \in Setters : spc[u] \notin {"set_value", "delete", "erase"}
  PROVE  ~Claimed(w)
  BY DEF Claimed

\* A step that leaves the vectors, the values and the loops alone leaves the
\* registrations and the results of PromiseChannel alone.
LEMMA AbstractKept ==
  ASSUME IndInv, IndInv',
         UNCHANGED <<wkey, skey, promises, state>>,
         \A u \in Setters : spc'[u] \in {"set_value", "delete", "erase"}
                              <=> spc[u] \in {"set_value", "delete", "erase"}
  PROVE  UNCHANGED <<absRegistered, absResult>>
<1>1. \A w \in Waiters : Pushed(w)' <=> Pushed(w)
  BY DEF Pushed
<1>2. \A w \in Waiters : Claimed(w)' <=> Claimed(w)
  <2> SUFFICES ASSUME NEW w \in Waiters
               PROVE  Claimed(w)' <=> Claimed(w)
    OBVIOUS
  <2>1. ASSUME Claimed(w) PROVE Claimed(w)' /\ mutex' = mutex
    BY <1>1, <2>1 DEF Claimed, IndInv, MutexInv, SetterCritical
  <2>2. ASSUME Claimed(w)' PROVE Claimed(w)
    BY <1>1, <2>2 DEF Claimed, IndInv, MutexInv, SetterCritical
  <2> QED
    BY <2>1, <2>2
<1>3. \A w \in Waiters : Claimed(w) => mutex' = mutex
  BY DEF Claimed, IndInv, MutexInv, SetterCritical
<1> QED
  BY <1>1, <1>2, <1>3 DEF absRegistered, absResult

\* A step of future() or get() is a Register, a Deliver or a stutter of
\* PromiseChannel.
LEMMA FutureRefines ==
  ASSUME IndInv, IndInv', NEW w \in Waiters, Future(w)
  PROVE  Channel!Register(w) \/ Channel!Deliver(w) \/ UNCHANGED Channel!vars
<1> USE DEF IndInv
<1>1. CASE NewPromise(w) \/ LockFuture(w) \/ GetFuture(w) \/ UnlockFuture(w)
  <2>1. /\ UNCHANGED <<wkey, skey, spc, promises, state>>
        /\ wpc[w] # "done" /\ \E p \in WaiterPC \ {"done"} : wpc' = [wpc EXCEPT ![w] = p]
    BY <1>1 DEF NewPromise, LockFuture, GetFuture, UnlockFuture, Goto, keys,
       WaiterPC, Acquire
  <2>2. UNCHANGED <<absRegistered, absResult>>
    BY <2>1, AbstractKept
  <2>3. UNCHANGED <<absFired, absDelivered>>
    BY <2>1 DEF absFired, absDelivered, TypeOK
  <2> QED
    BY <2>1, <2>2, <2>3 DEF Channel!vars
<1>2. CASE PushPromise(w)
  <2>1. /\ wpc[w] = "push" /\ wpc' = [wpc EXCEPT ![w] = "get_future"] /\ mutex = w
        /\ UNCHANGED <<wkey, skey, spc, mutex, state>> /\ state[w] = Unset
    BY <1>2 DEF PushPromise, Goto, keys, MutexInv, PromiseInv, WaiterCritical,
      push_back
  <2>2. \A u \in Setters : spc[u] \notin {"set_value", "delete", "erase"}
    BY <2>1, ChannelAssumption DEF MutexInv, SetterCritical
  <2>3. \A x \in Waiters : ~Claimed(x) /\ ~Claimed(x)'
    BY <2>1, <2>2 DEF Claimed
  <2>4. ~Pushed(w) /\ Pushed(w)'
    <3>1. wkey[w] \in Keys
      BY DEF TypeOK
    <3>2. ~Pushed(w)
      BY <2>1, <3>1 DEF Pushed, VectorInv, AfterPush
    <3>3. Pushed(w)'
      BY <1>2, <2>1, PushEffect DEF Pushed
    <3> QED
      BY <3>2, <3>3
  <2>5. \A x \in Waiters : x # w => (Pushed(x)' <=> Pushed(x))
    <3> SUFFICES ASSUME NEW x \in Waiters, x # w
                 PROVE  Pushed(x)' <=> Pushed(x)
      OBVIOUS
    <3>1. wkey[x] \in Keys
      BY DEF TypeOK
    <3>2. \A i \in 1..Len(promises'[wkey[x]]) :
            promises'[wkey[x]][i] = x => i \in 1..Len(promises[wkey[x]])
      BY <1>2, <3>1, PushEffect
    <3>3. \A i \in 1..Len(promises[wkey[x]]) :
            /\ i \in 1..Len(promises'[wkey[x]])
            /\ promises'[wkey[x]][i] = promises[wkey[x]][i]
      BY <1>2, <3>1, PushEffect
    <3> QED
      BY <2>1, <3>2, <3>3 DEF Pushed
  <2>6. absRegistered' = absRegistered \cup {w} /\ w \notin absRegistered
    BY <2>3, <2>4, <2>5 DEF absRegistered
  <2>7. absResult' = absResult /\ absResult[w] = Unset
    BY <2>1, <2>3 DEF absResult
  <2>8. UNCHANGED <<absFired, absDelivered>>
    BY <2>1 DEF absFired, absDelivered, TypeOK
  <2> QED
    BY <2>1, <2>6, <2>7, <2>8 DEF Channel!Register, Channel!keys
<1>3. CASE Get(w)
  <2>1. /\ wpc[w] = "get" /\ wpc' = [wpc EXCEPT ![w] = "done"] /\ state[w] # Unset
        /\ UNCHANGED <<wkey, skey, spc, promises, state>>
    BY <1>3 DEF Get, Goto, keys
  <2>2. UNCHANGED <<absRegistered, absResult>>
    BY <2>1, AbstractKept
  <2>3. absResult[w] # Unset
    BY <2>1, ChannelAssumption DEF absResult, Claimed
  <2>4. absFired' = absFired
    BY <2>1 DEF absFired
  <2>5. w \notin absDelivered /\ absDelivered' = absDelivered \cup {w}
    BY <2>1 DEF absDelivered, TypeOK
  <2> QED
    BY <2>1, <2>2, <2>3, <2>4, <2>5 DEF Channel!Deliver, Channel!keys
<1> QED
  BY <1>1, <1>2, <1>3 DEF Future

\* A step of set() is a Fulfil, when it looks its key up, or a stutter.
LEMMA SetRefines ==
  ASSUME IndInv, IndInv', NEW u \in Setters, Set(u)
  PROVE  Channel!Fulfil(u) \/ UNCHANGED Channel!vars
<1> USE DEF IndInv
<1>1. CASE LockSet(u) \/ UnlockSet(u)
  <2>1. /\ UNCHANGED <<wkey, skey, wpc, promises, state>>
        /\ \/ spc[u] = "lock" /\ spc' = [spc EXCEPT ![u] = "find"]
           \/ spc[u] = "unlock" /\ spc' = [spc EXCEPT ![u] = "done"]
    BY <1>1 DEF LockSet, UnlockSet, Step, keys, Acquire
  <2>2. UNCHANGED <<absRegistered, absResult>>
    BY <2>1, AbstractKept DEF TypeOK
  <2>3. UNCHANGED <<absFired, absDelivered>>
    BY <2>1 DEF absFired, absDelivered, TypeOK
  <2> QED
    BY <2>1, <2>2, <2>3 DEF Channel!vars
<1>2. CASE FindNone(u) \/ FindEntries(u)
  <2>1. /\ UNCHANGED <<wkey, skey, wpc, mutex, promises, state>>
        /\ mutex = u /\ spc[u] = "find" /\ skey[u] \in Keys
        /\ \/ Entries(u) = <<>> /\ spc' = [spc EXCEPT ![u] = "unlock"]
           \/ spc' = [spc EXCEPT ![u] = "set_value"]
    BY <1>2 DEF FindNone, FindEntries, Step, keys, MutexInv, SetterCritical,
       TypeOK
  <2>2. \A w \in Waiters : (Pushed(w)' <=> Pushed(w)) /\ ~Claimed(w)
    BY <2>1 DEF Pushed, Claimed
  <2>3. \A w \in Waiters : Claimed(w)' <=> w \in Channel!Reached(u)
    BY <2>1, <2>2 DEF Claimed, Pushed, Entries, absRegistered,
       Channel!Reached, TypeOK
  <2>4. absRegistered' = absRegistered \ Channel!Reached(u)
    BY <2>2, <2>3 DEF absRegistered
  <2>5. absResult' = [w \in Waiters |->
                        IF w \in Channel!Reached(u) THEN u ELSE absResult[w]]
    BY <2>1, <2>2, <2>3 DEF absResult
  <2>6. absFired' = absFired \cup {u} /\ u \notin absFired
    BY <2>1 DEF absFired, TypeOK
  <2>7. absDelivered' = absDelivered
    BY <2>1 DEF absDelivered
  <2> QED
    BY <2>1, <2>4, <2>5, <2>6, <2>7 DEF Channel!Fulfil, Channel!keys
<1>3. CASE SetValue(u) \/ DeletePromise(u)
  <2>1. /\ UNCHANGED <<wkey, skey, wpc, mutex, promises>>
        /\ mutex = u /\ spc[u] \in {"set_value", "delete"}
        /\ spc'[u] \in {"set_value", "delete", "erase"}
        /\ \A v \in Setters : v # u => spc'[v] = spc[v]
        /\ \A w \in Waiters : w # Current(u) => state'[w] = state[w]
        /\ spc[u] = "set_value" \/ state' = state
    BY <1>3 DEF SetValue, DeletePromise, Step, keys, MutexInv,
       SetterCritical, TypeOK
  <2>2. \A w \in Waiters : (Pushed(w)' <=> Pushed(w)) /\ (Claimed(w)' <=> Claimed(w))
    BY <2>1 DEF Pushed, Claimed
  <2>3. Claimed(Current(u)) /\ Current(u) \in Waiters
    BY <2>1 DEF Claimed, Pushed, Current, Entries, WalkInv, VectorInv, TypeOK
  <2>4. absRegistered' = absRegistered
    BY <2>2 DEF absRegistered
  <2>5. absResult' = absResult
    BY <2>1, <2>2, <2>3 DEF absResult
  <2>6. UNCHANGED <<absFired, absDelivered>>
    BY <2>1 DEF absFired, absDelivered
  <2> QED
    BY <2>1, <2>4, <2>5, <2>6 DEF Channel!vars
<1>4. CASE EraseEntry(u)
  <2>1. /\ UNCHANGED <<wkey, skey, wpc, mutex, state>> /\ mutex = u
        /\ spc[u] = "erase" /\ spc' = [spc EXCEPT ![u] = "unlock"]
    BY <1>4 DEF EraseEntry, Step, keys, MutexInv, SetterCritical, erase
  <2>2. \A w \in Waiters : ~Claimed(w)' /\ (Claimed(w) <=> Pushed(w) /\ wkey[w] = skey[u])
    BY <2>1 DEF Claimed, TypeOK
  <2>3. \A w \in Waiters : Pushed(w)' <=> Pushed(w) /\ wkey[w] # skey[u]
    <3> SUFFICES ASSUME NEW w \in Waiters
                 PROVE  Pushed(w)' <=> Pushed(w) /\ wkey[w] # skey[u]
      OBVIOUS
    <3>1. wkey[w] \in Keys
      BY DEF TypeOK
    <3>2. CASE wkey[w] = skey[u]
      <4>1. \A i : i \notin 1..Len(promises'[wkey[w]])
        BY <1>4, <3>2, EraseEffect
      <4> QED
        BY <2>1, <3>2, <4>1 DEF Pushed
    <3>3. CASE wkey[w] # skey[u]
      BY <1>4, <2>1, <3>1, <3>3, EraseEffect DEF Pushed
    <3> QED
      BY <3>2, <3>3
  <2>4. \A w \in Waiters : Claimed(w) => state[w] = u
    <3> SUFFICES ASSUME NEW w \in Waiters, Claimed(w)
                 PROVE  state[w] = u
      OBVIOUS
    <3>1. PICK i \in 1..Len(Entries(u)) : Entries(u)[i] = w
      BY <2>2 DEF Pushed, Entries
    <3> QED
      BY <2>1, <3>1 DEF WalkInv, Passed
  <2>5. absRegistered' = absRegistered
    BY <2>2, <2>3 DEF absRegistered
  <2>6. absResult' = absResult
    BY <2>1, <2>2, <2>4 DEF absResult
  <2>7. UNCHANGED <<absFired, absDelivered>>
    BY <2>1 DEF absFired, absDelivered, TypeOK
  <2> QED
    BY <2>1, <2>5, <2>6, <2>7 DEF Channel!vars
<1> QED
  BY <1>1, <1>2, <1>3, <1>4 DEF Set

\* The channel with its mutex, its vectors and its heap implements the atomic
\* channel: set() reaches exactly the blocks registered when it looks its key
\* up, and hands each of them its value.
THEOREM Refinement == Spec => ImplementsPromiseChannel
<1>1. Init => Channel!Init
  <2> SUFFICES ASSUME Init PROVE Channel!Init
    OBVIOUS
  <2>1. \A w \in Waiters : ~Pushed(w)
    <3> SUFFICES ASSUME NEW w \in Waiters PROVE ~Pushed(w)
      OBVIOUS
    <3>1. promises[wkey[w]] = <<>>
      BY DEF Init, Begin
    <3>2. 1..Len(promises[wkey[w]]) = {}
      BY <3>1
    <3> QED
      BY <3>2 DEF Pushed
  <2> QED
    BY <2>1 DEF Init, Claimed, absRegistered, absResult, absFired, absDelivered,
                Channel!Init, Begin
<1>2. IndInv /\ IndInv' /\ [Next]_vars => [Channel!Next]_(Channel!vars)
  <2> SUFFICES ASSUME IndInv, IndInv', [Next]_vars
               PROVE  Channel!Next \/ UNCHANGED Channel!vars
    OBVIOUS
  <2>1. ASSUME NEW w \in Waiters, Future(w)
        PROVE  Channel!Next \/ UNCHANGED Channel!vars
    BY <2>1, FutureRefines DEF Channel!Next
  <2>2. ASSUME NEW u \in Setters, Set(u)
        PROVE  Channel!Next \/ UNCHANGED Channel!vars
    BY <2>2, SetRefines DEF Channel!Next
  <2>3. CASE UNCHANGED vars
    BY <2>3 DEF vars, Channel!vars, absRegistered, absResult, absFired,
                absDelivered, Claimed, Pushed
  <2> QED
    BY <2>1, <2>2, <2>3 DEF Next
<1> QED
  BY <1>1, <1>2, IndInvariant, PTL DEF Spec, Channel!Spec,
     ImplementsPromiseChannel
=============================================================================
