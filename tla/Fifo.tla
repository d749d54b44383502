-------------------------------- MODULE Fifo --------------------------------
(***************************************************************************)
(* What cola.h promises: queues of pointers.  No memory and no list: a     *)
(* queue is the sequence of its values.  An operation that needs memory    *)
(* may fail, and then says so and changes nothing.                         *)
(***************************************************************************)
EXTENDS Sequences

CONSTANTS
  Handles,   \* what cola_crear may return
  Values,    \* what can be enqueued
  NULL

VARIABLES
  queue,     \* queue[q]: the values in q, first to last
  open,      \* the queues created and not destroyed
  ret        \* what the last call returned

vars == <<queue, open, ret>>

Init ==
  /\ queue = [q \in Handles |-> <<>>]
  /\ open = {}
  /\ ret = NULL

Create(q) ==
  /\ q \in Handles \ open
  /\ open' = open \cup {q}
  /\ ret' = q
  /\ UNCHANGED queue

CreateFails == ret' = NULL /\ UNCHANGED <<queue, open>>

IsEmpty(q) ==
  /\ q \in open
  /\ ret' = (queue[q] = <<>>)
  /\ UNCHANGED <<queue, open>>

Front(q) ==
  /\ q \in open
  /\ ret' = IF queue[q] = <<>> THEN NULL ELSE Head(queue[q])
  /\ UNCHANGED <<queue, open>>

Enqueue(q, v) ==
  /\ q \in open
  /\ queue' = [queue EXCEPT ![q] = Append(@, v)]
  /\ ret' = TRUE
  /\ UNCHANGED open

EnqueueFails(q) ==
  /\ q \in open
  /\ ret' = FALSE
  /\ UNCHANGED <<queue, open>>

Dequeue(q) ==
  /\ q \in open
  /\ queue[q] # <<>>
  /\ queue' = [queue EXCEPT ![q] = Tail(@)]
  /\ ret' = Head(queue[q])
  /\ UNCHANGED open

DequeueNothing(q) ==
  /\ q \in open
  /\ queue[q] = <<>>
  /\ ret' = NULL
  /\ UNCHANGED <<queue, open>>

Destroy(q) ==
  /\ q \in open
  /\ open' = open \ {q}
  /\ queue' = [queue EXCEPT ![q] = <<>>]
  /\ UNCHANGED ret

Next ==
  \/ CreateFails
  \/ \E q \in Handles :
       \/ Create(q) \/ IsEmpty(q) \/ Front(q)
       \/ \E v \in Values : Enqueue(q, v)
       \/ EnqueueFails(q)
       \/ Dequeue(q) \/ DequeueNothing(q)
       \/ Destroy(q)

Spec == Init /\ [][Next]_vars

=============================================================================
