-------------------------------- MODULE Cola --------------------------------
(***************************************************************************)
(* The linked queue of src/asmlab/cola_impl.S on the heap it works on.     *)
(* A block holds two words, "lo" at offset 0 and "hi" at offset 8: in a    *)
(* struct cola they are head and tail, in a struct nodo data and next      *)
(* (cola_asm.h).  Both are 16 bytes, so a freed block of one kind can come *)
(* back from calloc as the other.                                          *)
(*                                                                         *)
(* One thread calls the operations, on queues it created and has not       *)
(* destroyed.  A call is one action; cola_destruir takes a step for every  *)
(* block it frees.                                                         *)
(***************************************************************************)
EXTENDS Integers

CONSTANTS
  Addr,      \* the addresses calloc can return
  Values,    \* the pointers the client enqueues, NULL may be one
  NULL

ASSUME ColaAssumption == NULL \notin Addr

VARIABLES
  allocated,   \* the blocks given out by calloc and not freed
  mem,         \* mem[a]: the two words at a
  colas,       \* the queues the client holds
  dying,       \* the queue cola_destruir is releasing, or NULL
  rbx,         \* its cursor: the next node to free
  ret,         \* what the last call returned
  fault        \* how the process died: "none" while it lives

vars == <<allocated, mem, colas, dying, rbx, ret, fault>>

Word  == Addr \cup Values \cup {NULL}
Block == [lo : Word, hi : Word]

(* Fault: SIZEOF_COLA and SIZEOF_NODO of 8, a block of one word. *)
ZeroShort == [lo |-> NULL]

Zero == [lo |-> NULL, hi |-> NULL]

OFFSET_HEAD(a) == mem[a].lo
OFFSET_TAIL(a) == mem[a].hi
OFFSET_DATA(a) == mem[a].lo
OFFSET_NEXT(a) == mem[a].hi

Init ==
  /\ allocated = {}
  /\ mem \in [Addr -> {Zero}]
  /\ colas = {}
  /\ dying = NULL
  /\ rbx = NULL
  /\ ret = NULL
  /\ fault = "none"

(* The process lives and no call is under way. *)
Idle == fault = "none" /\ dying = NULL

(* The process dies, or is undefined from here on. *)
Die(how) == fault' = how /\ UNCHANGED <<allocated, mem, colas, dying, rbx, ret>>

(* Dereferencing an address that is not a block of the program. *)
BadAccess(a) == Die(IF a = NULL THEN "null" ELSE "freed")

(* calloc(1, 16): a block not in use, zeroed.  (It may also return NULL.)  *)
Callocable == Addr \ allocated

----------------------------------------------------------------------------
CrearOk(a) ==
  /\ Idle
  /\ a \in Callocable
  /\ allocated' = allocated \cup {a}
  /\ mem' = [mem EXCEPT ![a] = Zero]
  /\ colas' = colas \cup {a}
  /\ ret' = a
  /\ UNCHANGED <<dying, rbx, fault>>

CrearNull ==
  /\ Idle
  /\ ret' = NULL
  /\ UNCHANGED <<allocated, mem, colas, dying, rbx, fault>>

EstaVacia(c) ==
  /\ Idle /\ c \in colas
  /\ ret' = (OFFSET_HEAD(c) = NULL)
  /\ UNCHANGED <<allocated, mem, colas, dying, rbx, fault>>

VerPrimero(c) ==
  /\ Idle /\ c \in colas
  /\ LET head == OFFSET_HEAD(c)
     IN  IF head = NULL \/ head \in allocated
         THEN /\ ret' = IF head = NULL THEN NULL ELSE OFFSET_DATA(head)
              /\ UNCHANGED <<allocated, mem, colas, dying, rbx, fault>>
         ELSE BadAccess(head)

(* Fault: the emptiness test looks at the tail. *)
EncolarTestsTail(c, v, n) ==
  /\ Idle /\ c \in colas
  /\ n \in Callocable
  /\ LET tail == OFFSET_TAIL(c)
         nodo == [lo |-> v, hi |-> NULL]
     IN  \/ /\ tail = NULL
            /\ mem' = [mem EXCEPT ![n] = nodo, ![c] = [lo |-> n, hi |-> n]]
            /\ allocated' = allocated \cup {n}
            /\ ret' = TRUE
            /\ UNCHANGED <<colas, dying, rbx, fault>>
         \/ /\ tail # NULL
            /\ tail \in allocated
            /\ mem' = [mem EXCEPT ![n] = nodo, ![tail].hi = n, ![c].hi = n]
            /\ allocated' = allocated \cup {n}
            /\ ret' = TRUE
            /\ UNCHANGED <<colas, dying, rbx, fault>>
         \/ /\ tail # NULL
            /\ tail \notin allocated
            /\ BadAccess(tail)

(* Fault: the first node of a queue does not become its tail. *)
EncolarHeadOnly(c, v, n) ==
  /\ Idle /\ c \in colas
  /\ n \in Callocable
  /\ LET tail == OFFSET_TAIL(c)
         nodo == [lo |-> v, hi |-> NULL]
     IN  \/ /\ OFFSET_HEAD(c) = NULL
            /\ mem' = [mem EXCEPT ![n] = nodo, ![c].lo = n]
            /\ allocated' = allocated \cup {n}
            /\ ret' = TRUE
            /\ UNCHANGED <<colas, dying, rbx, fault>>
         \/ /\ OFFSET_HEAD(c) # NULL
            /\ tail \in allocated
            /\ mem' = [mem EXCEPT ![n] = nodo, ![tail].hi = n, ![c].hi = n]
            /\ allocated' = allocated \cup {n}
            /\ ret' = TRUE
            /\ UNCHANGED <<colas, dying, rbx, fault>>
         \/ /\ OFFSET_HEAD(c) # NULL
            /\ tail \notin allocated
            /\ BadAccess(tail)

(* cola_encolar with calloc's block n: the node is filled, linked behind   *)
(* the tail unless the queue is empty, and made the tail.                  *)
EncolarOk(c, v, n) ==
  /\ Idle /\ c \in colas
  /\ n \in Callocable
  /\ LET tail == OFFSET_TAIL(c)
         nodo == [lo |-> v, hi |-> NULL]
     IN  \/ /\ OFFSET_HEAD(c) = NULL
            /\ mem' = [mem EXCEPT ![n] = nodo, ![c] = [lo |-> n, hi |-> n]]
            /\ allocated' = allocated \cup {n}
            /\ ret' = TRUE
            /\ UNCHANGED <<colas, dying, rbx, fault>>
         \/ /\ OFFSET_HEAD(c) # NULL
            /\ tail \in allocated
            /\ mem' = [mem EXCEPT ![n] = nodo, ![tail].hi = n, ![c].hi = n]
            /\ allocated' = allocated \cup {n}
            /\ ret' = TRUE
            /\ UNCHANGED <<colas, dying, rbx, fault>>
         \/ /\ OFFSET_HEAD(c) # NULL
            /\ tail \notin allocated
            /\ BadAccess(tail)

(* cola_encolar when calloc returns NULL: the value is stored through it   *)
(* before any test of it.                                                  *)
EncolarNull(c) ==
  /\ Idle /\ c \in colas
  /\ BadAccess(NULL)

DesencolarVacia(c) ==
  /\ Idle /\ c \in colas
  /\ OFFSET_HEAD(c) = NULL
  /\ ret' = NULL
  /\ UNCHANGED <<allocated, mem, colas, dying, rbx, fault>>

(* Fault: the node is unlinked and not freed. *)
DesencolarLeaks(c) ==
  /\ Idle /\ c \in colas
  /\ LET head == OFFSET_HEAD(c)
     IN  /\ head # NULL
         /\ IF head \in allocated
            THEN /\ ret' = OFFSET_DATA(head)
                 /\ mem' = [mem EXCEPT ![c].lo = OFFSET_NEXT(head)]
                 /\ UNCHANGED <<allocated, colas, dying, rbx, fault>>
            ELSE BadAccess(head)

(* Fault: rbx is not used, and what free leaves in rax is returned. *)
DesencolarLosesData(c) ==
  /\ Idle /\ c \in colas
  /\ LET head == OFFSET_HEAD(c)
     IN  /\ head # NULL
         /\ IF head \in allocated
            THEN /\ ret' = OFFSET_NEXT(head)
                 /\ mem' = [mem EXCEPT ![c].lo = OFFSET_NEXT(head)]
                 /\ allocated' = allocated \ {head}
                 /\ UNCHANGED <<colas, dying, rbx, fault>>
            ELSE BadAccess(head)

(* The head moves on and its node is freed; the tail is left as it was,    *)
(* dangling when the last node goes.                                       *)
Desencolar(c) ==
  /\ Idle /\ c \in colas
  /\ LET head == OFFSET_HEAD(c)
     IN  /\ head # NULL
         /\ IF head \in allocated
            THEN /\ ret' = OFFSET_DATA(head)
                 /\ mem' = [mem EXCEPT ![c].lo = OFFSET_NEXT(head)]
                 /\ allocated' = allocated \ {head}
                 /\ UNCHANGED <<colas, dying, rbx, fault>>
            ELSE BadAccess(head)

(* cola_destruir: the cursor is put on the head; from here on the client   *)
(* no longer holds the queue.                                              *)
Destruir(c) ==
  /\ Idle /\ c \in colas
  /\ colas' = colas \ {c}
  /\ dying' = c
  /\ rbx' = OFFSET_HEAD(c)
  /\ UNCHANGED <<allocated, mem, ret, fault>>

(* One turn of its loop: next is read before the node is freed. *)
DestruirNodo ==
  /\ fault = "none" /\ dying # NULL
  /\ rbx # NULL
  /\ IF rbx \in allocated
     THEN /\ rbx' = OFFSET_NEXT(rbx)
          /\ allocated' = allocated \ {rbx}
          /\ UNCHANGED <<mem, colas, dying, ret, fault>>
     ELSE BadAccess(rbx)

(* Fault: the loop is entered again after the queue is freed. *)
DestruirColaLoops ==
  /\ fault = "none" /\ dying # NULL
  /\ rbx = NULL
  /\ IF dying \in allocated
     THEN /\ allocated' = allocated \ {dying}
          /\ UNCHANGED <<mem, colas, dying, rbx, ret, fault>>
     ELSE BadAccess(dying)

DestruirCola ==
  /\ fault = "none" /\ dying # NULL
  /\ rbx = NULL
  /\ IF dying \in allocated
     THEN /\ allocated' = allocated \ {dying}
          /\ dying' = NULL
          /\ UNCHANGED <<mem, colas, rbx, ret, fault>>
     ELSE BadAccess(dying)

Next ==
  \/ \E a \in Addr : CrearOk(a)
  \/ CrearNull
  \/ \E c \in Addr :
       \/ EstaVacia(c)
       \/ VerPrimero(c)
       \/ \E v \in Values, n \in Addr : EncolarOk(c, v, n)
       \/ EncolarNull(c)
       \/ DesencolarVacia(c)
       \/ Desencolar(c)
       \/ Destruir(c)
  \/ DestruirNodo
  \/ DestruirCola

(* A call under way runs to its end: cola_destruir's loop is never left.   *)
Spec == Init /\ [][Next]_vars /\ WF_vars(DestruirNodo \/ DestruirCola)

=============================================================================
