------------------------------ MODULE Delivery ------------------------------
(***************************************************************************)
(* What MetricsPersister promises to the stores: a first-in first-out      *)
(* queue of batches for each, with a bounded memory.  Every batch is taken *)
(* up for all stores at once.  At a store the oldest batch is the only one *)
(* that is ever sent; it leaves when the store has taken it or it is given *)
(* up, and unsent only if the memory is full, or the program ends.         *)
(***************************************************************************)
EXTENDS Naturals, Sequences

CONSTANTS
  Stores,
  Data,            \* what there is to deliver: numbers, in the order they come
  Memory,          \* so many batches may wait for a store when another arrives
  WholeBatches     \* whether a store has nothing of a batch that is sent to it again

VARIABLES
  accepted,        \* data taken up so far
  pending,         \* pending[i]: batches on their way to store i, the oldest first
  written,         \* written[i]: data in store i
  dropped,         \* dropped[i]: data given up unsent
  refused          \* refused[i]: data that were sent, and given up

vars == <<accepted, pending, written, dropped, refused>>

Init ==
  /\ accepted = {}
  /\ pending = [i \in Stores |-> <<>>]
  /\ written = [i \in Stores |-> {}]
  /\ dropped = [i \in Stores |-> {}]
  /\ refused = [i \in Stores |-> {}]

\* A batch of later data than all before it.
Accept(b) ==
  /\ \A x \in accepted, y \in b : x < y
  /\ \A i \in Stores : Len(pending[i]) <= Memory
  /\ accepted' = accepted \cup b
  /\ pending' = [i \in Stores |-> Append(pending[i], b)]
  /\ UNCHANGED <<written, dropped, refused>>

\* The oldest batch leaves; S are its data that the store took.
Leave(i, S) ==
  /\ pending' = [pending EXCEPT ![i] = Tail(@)]
  /\ written' = [written EXCEPT ![i] = @ \cup S]
  /\ refused' = [refused EXCEPT ![i] = @ \cup (Head(pending[i]) \ S)]
  /\ UNCHANGED <<accepted, dropped>>

\* The oldest batch stays, to be sent again, and the store has taken S of it.
TakePart(i, S) ==
  /\ WholeBatches => S = {}
  /\ written' = [written EXCEPT ![i] = @ \cup S]
  /\ UNCHANGED <<accepted, pending, dropped, refused>>

\* There is no room for all: the oldest batch makes way.
Drop(i) ==
  /\ Len(pending[i]) > Memory
  /\ pending' = [pending EXCEPT ![i] = Tail(@)]
  /\ dropped' = [dropped EXCEPT ![i] = @ \cup Head(pending[i])]
  /\ UNCHANGED <<accepted, written, refused>>

\* The program ends, and all that was on its way is gone; the store may have taken S
\* of its oldest batch.
End(i, S) ==
  /\ ~WholeBatches
  /\ pending' = [j \in Stores |-> <<>>]
  /\ written' = [written EXCEPT ![i] = @ \cup S]
  /\ UNCHANGED <<accepted, dropped, refused>>

Serve(i) ==
  /\ pending[i] # <<>>
  /\ \/ \E S \in SUBSET Head(pending[i]) : Leave(i, S) \/ TakePart(i, S) \/ End(i, S)
     \/ Drop(i)

Next ==
  \/ \E b \in SUBSET Data : Accept(b)
  \/ \E i \in Stores : Serve(i)

Spec == Init /\ [][Next]_vars
=============================================================================
