------------------------------ MODULE Listener ------------------------------
(***************************************************************************)
(* What a subscription's callback is promised, whatever threads carry the  *)
(* values to it (the doc of BufferedListener, client/src/listeners.rs):    *)
(* a value read from the server comes first, and every value handed to the *)
(* listener is then heard once, in the order it was handed over.           *)
(***************************************************************************)
EXTENDS Integers, Sequences

CONSTANTS
  Sub,       \* the listeners
  Value,     \* what they may hear
  NoValue    \* nothing heard yet

VARIABLES
  heard,     \* the value each callback was last started with
  due        \* the values handed to each listener that it has not yet heard

promise == <<heard, due>>

PromiseInit ==
  /\ heard = [s \in Sub |-> NoValue]
  /\ due = [s \in Sub |-> <<>>]

\* A value is handed to the listener.
Offer(s, v) ==
  /\ due' = [due EXCEPT ![s] = Append(@, v)]
  /\ UNCHANGED heard

\* The value read from the server, before any other.
Snapshot(s, v) ==
  /\ heard[s] = NoValue
  /\ heard' = [heard EXCEPT ![s] = v]
  /\ UNCHANGED due

\* The callback starts on the value that has been due the longest.
Hear(s) ==
  /\ due[s] # <<>>
  /\ heard' = [heard EXCEPT ![s] = Head(due[s])]
  /\ due' = [due EXCEPT ![s] = Tail(@)]

PromiseNext ==
  \E s \in Sub : Hear(s) \/ \E v \in Value : Offer(s, v) \/ Snapshot(s, v)

\* What never happens: a value heard out of order, twice or not at all.
PromiseSafety == PromiseInit /\ [][PromiseNext]_promise

Promise == PromiseSafety /\ \A s \in Sub : WF_promise(Hear(s))
=============================================================================
