------------------------------ MODULE ColaList ------------------------------
(***************************************************************************)
(* Cola with a history variable: the nodes each queue was given and has    *)
(* not lost, first to last.  The properties say how the words in the heap  *)
(* follow it, and that the queues behave as Fifo.                          *)
(***************************************************************************)
EXTENDS Cola, Sequences

VARIABLE list   \* list[c]: the addresses of the nodes of queue c, in order

lvars == <<allocated, mem, colas, dying, rbx, ret, fault, list>>

LInit == Init /\ list = [c \in Addr |-> <<>>]

LEncolarOk(c, v, n) ==
  EncolarOk(c, v, n) /\ list' = [list EXCEPT ![c] = Append(@, n)]

LDesencolar(c) ==
  Desencolar(c) /\ list' = [list EXCEPT ![c] = Tail(@)]

LDestruirNodo ==
  DestruirNodo /\ list' = [list EXCEPT ![dying] = Tail(@)]

(* The steps that neither add a node nor remove one. *)
Other ==
  \/ \E a \in Addr : CrearOk(a)
  \/ CrearNull
  \/ \E c \in Addr :
       \/ EstaVacia(c)
       \/ VerPrimero(c)
       \/ EncolarNull(c)
       \/ DesencolarVacia(c)
       \/ Destruir(c)
  \/ DestruirCola

LNext ==
  \/ \E c \in Addr : LDesencolar(c) \/ \E v \in Values, n \in Addr : LEncolarOk(c, v, n)
  \/ LDestruirNodo
  \/ Other /\ UNCHANGED list

LSpec == LInit /\ [][LNext]_lvars /\ WF_lvars(LDestruirNodo \/ (DestruirCola /\ UNCHANGED list))

----------------------------------------------------------------------------
(* Every word of the heap is a word, the handles are addresses, and the    *)
(* cursor is set only while a queue is being released.                     *)
TypeOK ==
  /\ allocated \subseteq Addr
  /\ mem \in [Addr -> Block]
  /\ colas \subseteq Addr
  /\ dying \in Addr \cup {NULL}
  /\ rbx \in Word
  /\ ret \in Word \cup BOOLEAN
  /\ fault \in {"none", "null", "freed"}
  /\ list \in [Addr -> Seq(Addr)]

(* The queues the program has: those the client holds and the one going.   *)
Owners == colas \cup ({dying} \ {NULL})

Nodes(c) == {list[c][k] : k \in DOMAIN list[c]}

(* Every block in use is one queue or one node of one queue, and every     *)
(* queue and node is in use: nothing leaks, nothing is freed twice, and a  *)
(* freed address that calloc hands out again is never still in some queue. *)
HeapOwned ==
  /\ \A a \in Addr :
       a \in allocated <=> a \in Owners \/ \E c \in Owners : a \in Nodes(c)
  /\ dying \notin colas
  /\ \A c \in Addr :
       /\ Nodes(c) \cap Owners = {}
       /\ c \notin Owners => list[c] = <<>>
  /\ \A c, d \in Addr : \A i \in DOMAIN list[c], j \in DOMAIN list[d] :
       list[c][i] = list[d][j] => c = d /\ i = j

(* The last node of the list has no next, and the others have the next one *)
(* of the list.                                                            *)
Chained(c) ==
  \A k \in DOMAIN list[c] :
    OFFSET_NEXT(list[c][k]) = IF k = Len(list[c]) THEN NULL ELSE list[c][k + 1]

(* From a queue the client holds, the words of the heap spell its list:    *)
(* the head is its first node, every next the following one and NULL ends  *)
(* it, and the tail is its last node.  An empty queue has a NULL head, and *)
(* whatever tail the last cola_desencolar left.                            *)
Linked ==
  /\ \A c \in colas :
       /\ Chained(c)
       /\ IF list[c] = <<>>
          THEN OFFSET_HEAD(c) = NULL
          ELSE /\ OFFSET_HEAD(c) = list[c][1]
               /\ OFFSET_TAIL(c) = list[c][Len(list[c])]
  /\ dying # NULL =>
       /\ Chained(dying)
       /\ rbx = IF list[dying] = <<>> THEN NULL ELSE list[dying][1]

(* No operation follows the tail that was left dangling, or any other      *)
(* pointer to a freed block.                                               *)
NoUseAfterFree == fault # "freed"

(* cola_destruir ends, having freed its queue. *)
DestruirTermina == dying # NULL ~> dying = NULL

(* cola_encolar returns false when there is no memory for the node         *)
(* (cola.h:18), so the process does not die of calloc's NULL.  It does.    *)
EncolarSurvivesNull == fault # "null"

----------------------------------------------------------------------------
Fifos ==
  INSTANCE Fifo WITH
    Handles <- Addr,
    queue <- [c \in Addr |->
                IF c \in colas
                THEN [k \in DOMAIN list[c] |-> OFFSET_DATA(list[c][k])]
                ELSE <<>>],
    open <- colas

(* The queues are the FIFO queues cola.h describes: each call returns what *)
(* the sequence says and changes only the queue it was given, whatever     *)
(* addresses calloc reuses among the queues.                               *)
ImplementsFifo == Fifos!Spec

=============================================================================
