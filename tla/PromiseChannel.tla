--------------------------- MODULE PromiseChannel ---------------------------
(***************************************************************************)
(* What a FutureChannel promises to its callers, whatever its locking.     *)
(*                                                                         *)
(* A waiter registers for its key once.  A setter fires once: in a single  *)
(* step it hands its value to every waiter registered for its key at that  *)
(* moment, and to no other.  A waiter takes its value once it has one.     *)
(* The value is identified with the setter that brought it.                *)
(***************************************************************************)
CONSTANTS Waiters,  \* callers of FutureChannel::future
          Setters,  \* callers of FutureChannel::set
          Unset     \* the shared state of a promise nobody has fulfilled

VARIABLES wkey,       \* the key each waiter waits for
          skey,       \* the key each setter sets
          registered, \* waiters whose promise is in the channel
          result,     \* the value each waiter's future holds
          fired,      \* setters that have set their key
          delivered   \* waiters whose future.get() has returned

keys == <<wkey, skey>>

Init ==
  /\ registered = {}
  /\ result = [w \in Waiters |-> Unset]
  /\ fired = {}
  /\ delivered = {}

Register(w) ==
  /\ w \notin registered
  /\ result[w] = Unset
  /\ registered' = registered \cup {w}
  /\ UNCHANGED <<result, fired, delivered, keys>>

\* The waiters a set on u's key reaches.
\* Mutants: those of every key; nobody.
Reached_AnyKey(u) == registered
Reached_None(u) == {}
Reached(u) == {w \in registered : wkey[w] = skey[u]}

Fulfil(u) ==
  /\ u \notin fired
  /\ fired' = fired \cup {u}
  /\ result' = [w \in Waiters |-> IF w \in Reached(u) THEN u ELSE result[w]]
  /\ registered' = registered \ Reached(u)
  /\ UNCHANGED <<delivered, keys>>

Deliver(w) ==
  /\ result[w] # Unset
  /\ w \notin delivered
  /\ delivered' = delivered \cup {w}
  /\ UNCHANGED <<registered, result, fired, keys>>

Next ==
  \/ \E w \in Waiters : Register(w) \/ Deliver(w)
  \/ \E u \in Setters : Fulfil(u)

vars == <<wkey, skey, registered, result, fired, delivered>>

Spec == Init /\ [][Next]_vars
=============================================================================
